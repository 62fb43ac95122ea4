----------------------------- MODULE HostSampler -----------------------------
(***************************************************************************)
(* The processor load host_monitor publishes (services/host_monitor/       *)
(* host_sampler.cpp): HostSampler::Sample() reads the counters of          *)
(* /proc/stat and compares them with those of the sample before, unsigned  *)
(* and core by core in the order of their lines.  Cores come and go, and   *)
(* the kernel may take back time it counted as waiting.                    *)
(***************************************************************************)
EXTENDS Integers, Sequences, FiniteSets, Functions

CONSTANTS
    Cores,     \* the processor's cores, numbered
    MaxTime,   \* jiffies a run lasts (bound of TLC's runs)
    Width      \* bits of a counter

(* One core, 1, counts from the first; no sum of counters comes round.     *)
ASSUME HostAssumption ==
    /\ Cores \subseteq Nat /\ IsFiniteSet(Cores) /\ 1 \in Cores
    /\ MaxTime \in Nat /\ 2^Width \in Nat
    /\ Cardinality(Cores) * (MaxTime + 1) < 2^Width

VARIABLES
    clock,    \* jiffies since the start
    stat,     \* what the kernel counted per core: idle and busy jiffies
    online,   \* the cores that have a line in /proc/stat
    prev,     \* prev_total_ and prev_cores_; empty until have_prev_cpu_
    usage,    \* the ratios of the last sample, the aggregate first; or none
    before,   \* stat at the last sample (history)
    moved,    \* did a core come or go, or a counter go back, since then? (history)
    spent     \* jiffies idle and busy between the last two samples, in the
              \* order of the lines, or empty if something moved (history)

hostVars == <<clock, stat, online, prev, usage, before, moved, spent>>

HostInit ==
    /\ clock = 0
    /\ stat = [c \in Cores |-> [idle |-> IF c = 1 THEN 1 ELSE 0, busy |-> 0]]
    /\ online = Cores
    /\ prev = <<>> /\ usage = <<>>
    /\ before = stat /\ moved = FALSE /\ spent = <<>>

(* ParseCpuCounters() of the first line and of those of the cores; a line  *)
(* of nothing but zeros is passed over.                                    *)
Line(idle, busy) == [idle |-> idle, total |-> idle + busy]

InOrder(cores) ==
    LET places == 1..Cardinality(cores)
    IN  CHOOSE s \in [places -> cores] : \A i, j \in places : i < j => s[i] < s[j]

LinesOf(cores, count) ==
    LET perCore == InOrder(cores)
    IN  <<Line(SumFunction([c \in Cores |-> count[c].idle]),
               SumFunction([c \in Cores |-> count[c].busy]))>>
        \o [i \in 1..Cardinality(cores) |-> Line(count[perCore[i]].idle, count[perCore[i]].busy)]

Lines(count) == LinesOf({c \in online : stat[c].idle + stat[c].busy > 0}, count)

(* UsageRatio(): the difference of two unsigned counters, and a clamp.     *)
UsageRatio(old, cur) ==
    LET total == cur.total - old.total
        idle  == (cur.idle - old.idle) % 2^Width
    IN  IF cur.total <= old.total THEN [busy |-> 0, of |-> 1]
        ELSE [busy |-> IF idle > total THEN 0 ELSE total - idle, of |-> total]

(* Sample(): no ratios the first time, nor when the number of lines changed*)
Sample ==
    /\ usage' = IF Len(prev) # Len(Lines(stat)) THEN <<>>
                ELSE [i \in DOMAIN prev |-> UsageRatio(prev[i], Lines(stat)[i])]
    /\ prev' = Lines(stat)
    /\ before' = stat /\ moved' = FALSE
    /\ spent' = IF moved THEN <<>>
                ELSE Lines([c \in Cores |-> [idle |-> stat[c].idle - before[c].idle,
                                             busy |-> stat[c].busy - before[c].busy]])
    /\ UNCHANGED <<clock, stat, online>>

(* The kernel: a jiffy passes; a core comes or goes; waiting is uncounted. *)
Jiffy(working) ==
    /\ clock < MaxTime /\ clock' = clock + 1
    /\ stat' = [c \in Cores |->
          IF c \notin online THEN stat[c]
          ELSE IF c \in working THEN [stat[c] EXCEPT !.busy = @ + 1]
          ELSE [stat[c] EXCEPT !.idle = @ + 1]]
    /\ UNCHANGED <<online, prev, usage, before, moved, spent>>

Plug(cores) ==
    /\ cores # online /\ cores # {}
    /\ online' = cores /\ moved' = TRUE
    /\ UNCHANGED <<clock, stat, prev, usage, before, spent>>

Uncount(c) ==
    /\ c \in online /\ stat[c].idle > 1
    /\ stat' = [stat EXCEPT ![c].idle = @ - 1]
    /\ moved' = TRUE
    /\ UNCHANGED <<clock, online, prev, usage, before, spent>>

HostNext ==
    \/ Sample
    \/ \E working \in SUBSET online : Jiffy(working)
    \/ \E cores \in SUBSET Cores : Plug(cores)
    \/ \E c \in Cores : Uncount(c)

(***************************************************************************)
(* However the counters wrap, go back or change places, a ratio is between *)
(* nothing and one; and while no core came or went and nothing was taken   *)
(* back, each is the share of its own core's time, since the sample before.*)
(***************************************************************************)
LoadIsMeasured ==
    /\ \A i \in DOMAIN usage : usage[i].busy \in 0..usage[i].of
    /\ usage # <<>> /\ spent # <<>> =>
          \A i \in DOMAIN usage :
              usage[i].busy * spent[i].total = (spent[i].total - spent[i].idle) * usage[i].of

=============================================================================
