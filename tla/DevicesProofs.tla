----------------------------- MODULE DevicesProofs -----------------------------
(***************************************************************************)
(* Proofs about what is nearest to the devices: the resources of lpio's    *)
(* objects, the frames of its SBUS receiver, the field bus of the farm, and*)
(* the load of the host.                                                   *)
(***************************************************************************)
EXTENDS MCDevices, FiniteSetTheorems, SequenceTheorems, WellFoundedInduction, TLAPS

(***************************************************************************)
(* The least element of a set of naturals: by WFMin, which takes no        *)
(* operator, and so is open to the provers.                                *)
(***************************************************************************)
LEMMA LeastExists ==
    ASSUME NEW T \in SUBSET Nat, T # {}
    PROVE  \E x \in T : \A y \in T : x =< y
  <1>1. \E x \in T : \A y \in T : ~(<<y, x>> \in OpToRel(<, Nat))
    BY WFMin, NatLessThanWellFounded, Zenon
  <1>2. PICK x \in T : \A y \in T : ~(<<y, x>> \in OpToRel(<, Nat))
    BY <1>1
  <1>3. \A y \in T : ~(y < x)
    BY <1>2, Zenon DEF OpToRel
  <1>4. \A y \in T : x =< y
    BY <1>3
  <1> QED BY <1>4

LEMMA LeastNatural ==
    ASSUME NEW T \in SUBSET Nat, T # {}
    PROVE  Min(T) \in T
  BY LeastExists DEF Min

-----------------------------------------------------------------------------
(* lpio                                                                    *)

DeviceRecords ==
    [state : {"closed", "open"}, path : BOOLEAN, fd : Files \cup {Free},
     chip : Files \cup {Free}, exported : BOOLEAN, direction : Directions,
     config : [period : Times \cup {0}, duty : Times \cup {0}, enabled : BOOLEAN]]

Channel ==
    [exported : BOOLEAN, period : Times \cup {0}, duty : Times \cup {0}, enabled : BOOLEAN,
     stuck : BOOLEAN]

LpioTypes ==
    /\ deviceClass \in Classes
    /\ device \in [Objects -> DeviceRecords]
    /\ file \in [Files -> Uses \cup {Free}]
    /\ pwm \in Channel

(***************************************************************************)
(* ResourcesFollowState counts; these say which descriptors they are.      *)
(***************************************************************************)
HeldBy(r) == {r.fd, r.chip} \ {Free}

HasWhatItNeeds(r, files) ==
    LET opened == r.state = "open" IN
    /\ r.fd # Free <=> opened /\ deviceClass \in FdClasses \cup {"GPIO"}
    /\ r.chip # Free <=> opened /\ deviceClass = "GPIO"
    /\ r.chip # Free => r.chip # r.fd
    /\ r.exported <=> opened /\ deviceClass = "PWM"
    /\ deviceClass = "GPIO" /\ opened =>
          files[r.fd] = [use |-> "line", direction |-> r.direction]

HeldByOne == \A o, p \in Objects : o # p => Held(o) \cap Held(p) = {}

UsedIsHeld == \A f \in Files : file[f] # Free <=> \E o \in Objects : f \in Held(o)

(* The channel is exported, and that nobody refused to take it back.       *)
Out(channel) == channel.exported /\ ~channel.stuck

ExportedIsHeld == Out(pwm) => \E o \in Objects : device[o].exported

LpioInv ==
    /\ LpioTypes
    /\ \A o \in Objects : HasWhatItNeeds(device[o], file)
    /\ HeldByOne
    /\ UsedIsHeld
    /\ ExportedIsHeld

LEMMA CountedRight == LpioInv => ResourcesFollowState
  <1> SUFFICES ASSUME LpioInv PROVE ResourcesFollowState
    OBVIOUS
  <1>1. ASSUME NEW o \in Objects
        PROVE  Cardinality(Held(o)) = IF Open(o) THEN Needs ELSE 0
    <2> DEFINE fd == device[o].fd
               chip == device[o].chip
    <2>1. HasWhatItNeeds(device[o], file)
      BY DEF LpioInv
    <2>2. deviceClass \in Classes
      BY DEF LpioInv, LpioTypes
    <2>3. CASE Open(o) /\ deviceClass = "GPIO"
      <3>1. Held(o) = {fd} \cup {chip} /\ chip \notin {fd}
        BY <2>1, <2>3 DEF HasWhatItNeeds, Held, Open
      <3> HIDE DEF fd, chip
      <3>2. IsFiniteSet({fd}) /\ Cardinality({fd}) = 1
        BY FS_Singleton
      <3>3. Cardinality({fd} \cup {chip}) = Cardinality({fd}) + 1
        BY <3>1, <3>2, FS_AddElement
      <3>4. Needs = 2
        BY <2>3 DEF Needs
      <3>5. Cardinality(Held(o)) = 2
        BY <3>1, <3>2, <3>3
      <3> QED BY <2>3, <3>4, <3>5
    <2>4. CASE Open(o) /\ deviceClass \in FdClasses
      <3>1. Held(o) = {fd} /\ deviceClass # "GPIO"
        BY <2>1, <2>4 DEF HasWhatItNeeds, Held, FdClasses, Open
      <3> QED BY <2>4, <3>1, FS_Singleton DEF Needs
    <2>5. CASE ~Open(o) \/ deviceClass \notin FdClasses \cup {"GPIO"}
      <3>1. Held(o) = {}
        BY <2>1, <2>5 DEF HasWhatItNeeds, Held, Open
      <3> QED BY <2>5, <3>1, FS_EmptySet DEF Needs
    <2> QED BY <2>3, <2>4, <2>5
  <1>2. ASSUME NEW f \in Files
        PROVE  Cardinality({o \in Objects : f \in Held(o)}) = IF file[f] = Free THEN 0 ELSE 1
    <2>1. CASE file[f] = Free
      <3>1. {o \in Objects : f \in Held(o)} = {}
        BY <2>1 DEF LpioInv, UsedIsHeld
      <3> QED BY <2>1, <3>1, FS_EmptySet
    <2>2. CASE file[f] # Free
      <3>1. PICK p \in Objects : f \in Held(p)
        BY <2>2 DEF LpioInv, UsedIsHeld
      <3>2. {o \in Objects : f \in Held(o)} = {p}
        BY <3>1 DEF LpioInv, HeldByOne
      <3> QED BY <2>2, <3>2, FS_Singleton
    <2> QED BY <2>1, <2>2
  <1>3. ASSUME NEW o \in Objects
        PROVE  /\ device[o].exported <=> Open(o) /\ deviceClass = "PWM"
               /\ deviceClass = "GPIO" /\ Open(o) =>
                     file[device[o].fd] = [use |-> "line", direction |-> device[o].direction]
    BY DEF LpioInv, HasWhatItNeeds, Open
  <1> QED BY <1>1, <1>2, <1>3 DEF ResourcesFollowState, LpioInv, ExportedIsHeld, Out

LEMMA InitLpioInv == LpioInit => LpioInv
  <1> SUFFICES ASSUME LpioInit PROVE LpioInv
    OBVIOUS
  <1>1. deviceClass \in Classes /\ pwm \in Channel /\ ~pwm.exported
    BY DEF LpioInit, Channel
  <1>2. ASSUME NEW o \in Objects
        PROVE  /\ device[o] \in DeviceRecords
               /\ device[o].state = "closed" /\ ~device[o].exported
               /\ device[o].fd = Free /\ device[o].chip = Free
    <2>1. device[o] \in
              [state : {"closed"}, path : {TRUE}, fd : {Free}, chip : {Free}, exported : {FALSE},
               direction : Directions,
               config : [period : Times \cup {0}, duty : Times \cup {0}, enabled : BOOLEAN]]
      <3> DEFINE Dirs == IF deviceClass = "GPIO" THEN Directions ELSE {"input"}
                 Configs == IF deviceClass = "PWM" THEN Settings
                            ELSE {[period |-> 0, duty |-> 0, enabled |-> FALSE]}
      <3>1. Dirs \subseteq Directions
        BY DEF Directions
      <3>2. Configs \subseteq [period : Times \cup {0}, duty : Times \cup {0}, enabled : BOOLEAN]
        <4>1. [period |-> 0, duty |-> 0, enabled |-> FALSE]
                  \in [period : Times \cup {0}, duty : Times \cup {0}, enabled : BOOLEAN]
          OBVIOUS
        <4>2. Settings \subseteq
                  [period : Times \cup {0}, duty : Times \cup {0}, enabled : BOOLEAN]
          BY DEF Settings
        <4> HIDE DEF Settings
        <4> QED BY <4>1, <4>2
      <3>3. device[o] \in
                [state : {"closed"}, path : {TRUE}, fd : {Free}, chip : {Free}, exported : {FALSE},
                 direction : Dirs, config : Configs]
        BY DEF LpioInit
      <3> HIDE DEF Dirs, Configs
      <3> QED BY <3>1, <3>2, <3>3
    <2> QED BY <2>1 DEF DeviceRecords
  <1>3. device \in [Objects -> DeviceRecords]
    BY <1>2 DEF LpioInit
  <1>4. file \in [Files -> Uses \cup {Free}] /\ \A f \in Files : file[f] = Free
    BY DEF LpioInit
  <1>5. \A o \in Objects : Held(o) = {}
    BY <1>2 DEF Held
  <1>6. \A o \in Objects : HasWhatItNeeds(device[o], file)
    BY <1>2 DEF HasWhatItNeeds
  <1> QED BY <1>1, <1>2, <1>3, <1>4, <1>5, <1>6
      DEF LpioInv, LpioTypes, HeldByOne, UsedIsHeld, ExportedIsHeld, Out

(***************************************************************************)
(* One object takes the members r, and the descriptors change with it: it  *)
(* keeps some of its own, closes the others, and opens free ones.          *)
(***************************************************************************)
FilesFollow(o, r) ==
    \A f \in Files :
        /\ f \in HeldBy(r) => file'[f] # Free /\ (f \in Held(o) \/ file[f] = Free)
        /\ f \in Held(o) \ HeldBy(r) => file'[f] = Free
        /\ f \notin HeldBy(r) \cup Held(o) => file'[f] = file[f]

ObjectTakes(o, r) ==
    /\ device' = [device EXCEPT ![o] = r]
    /\ r \in DeviceRecords
    /\ file' \in [Files -> Uses \cup {Free}]
    /\ pwm' \in Channel
    /\ FilesFollow(o, r)
    /\ HasWhatItNeeds(r, file')
    /\ Out(pwm') => r.exported \/ (Out(pwm) /\ ~device[o].exported)

LEMMA TakingKeepsInv ==
    ASSUME LpioInv, UNCHANGED deviceClass,
           NEW o \in Objects, NEW r, ObjectTakes(o, r)
    PROVE  LpioInv'
  <1>1. device \in [Objects -> DeviceRecords] /\ file \in [Files -> Uses \cup {Free}]
    BY DEF LpioInv, LpioTypes
  <1>2. /\ device' = [device EXCEPT ![o] = r] /\ r \in DeviceRecords
        /\ file' \in [Files -> Uses \cup {Free}] /\ pwm' \in Channel
    BY DEF ObjectTakes
  <1>3. device'[o] = r /\ \A p \in Objects \ {o} : device'[p] = device[p]
    BY <1>1, <1>2
  <1>4. LpioTypes'
    BY <1>1, <1>2 DEF LpioInv, LpioTypes
  <1>5. /\ Held(o)' = HeldBy(r)
        /\ \A p \in Objects \ {o} : Held(p)' = Held(p)
    BY <1>3 DEF Held, HeldBy
  <1>6. HeldBy(r) \subseteq Files /\ \A p \in Objects : Held(p) \subseteq Files
    BY <1>1, <1>2 DEF DeviceRecords, HeldBy, Held
  <1>7. \A p \in Objects \ {o} : \A f \in Held(p) :
            f \notin Held(o) /\ f \notin HeldBy(r) /\ file'[f] = file[f]
    BY <1>2, <1>6 DEF LpioInv, HeldByOne, UsedIsHeld, ObjectTakes, FilesFollow
  <1>8. ASSUME NEW p \in Objects
        PROVE  HasWhatItNeeds(device[p], file)'
    <2>1. CASE p = o
      BY <2>1, <1>3 DEF ObjectTakes, HasWhatItNeeds
    <2>2. CASE p # o
      <3>1. HasWhatItNeeds(device[p], file)
        BY DEF LpioInv
      <3>2. device[p].fd # Free => file'[device[p].fd] = file[device[p].fd]
        BY <2>2, <1>7 DEF Held
      <3> QED BY <2>2, <1>3, <3>1, <3>2 DEF HasWhatItNeeds
    <2> QED BY <2>1, <2>2
  <1>9. HeldByOne'
    BY <1>5, <1>7 DEF LpioInv, HeldByOne
  <1>10. ASSUME NEW f \in Files
         PROVE  file'[f] # Free <=> \E p \in Objects : f \in Held(p)'
    <2>1. CASE f \in HeldBy(r)
      BY <2>1, <1>5 DEF ObjectTakes, FilesFollow
    <2>2. CASE f \notin HeldBy(r) /\ f \in Held(o)
      <3>1. file'[f] = Free
        BY <2>2 DEF ObjectTakes, FilesFollow
      <3> QED BY <2>2, <3>1, <1>5, <1>7
    <2>3. CASE f \notin HeldBy(r) /\ f \notin Held(o)
      <3>1. file'[f] = file[f]
        BY <2>3 DEF ObjectTakes, FilesFollow
      <3> QED BY <2>3, <3>1, <1>5 DEF LpioInv, UsedIsHeld
    <2> QED BY <2>1, <2>2, <2>3
  <1>11. ExportedIsHeld'
    BY <1>3 DEF LpioInv, ExportedIsHeld, ObjectTakes
  <1> QED BY <1>4, <1>8, <1>9, <1>10, <1>11 DEF LpioInv, UsedIsHeld

(***************************************************************************)
(* What a request of the line and a store of the channel's file leave.     *)
(***************************************************************************)
LEMMA UsesAreSome == \A use \in Uses : use # Free
  BY LpioAssumption

LEMMA FreeIsThere ==
    ASSUME NEW fs \in [Files -> Uses \cup {Free}], {f \in Files : fs[f] = Free} # {}
    PROVE  Min({f \in Files : fs[f] = Free}) \in Files
           /\ fs[Min({f \in Files : fs[f] = Free})] = Free
  <1> DEFINE T == {f \in Files : fs[f] = Free}
  <1>1. T \in SUBSET Nat
    BY LpioAssumption
  <1> HIDE DEF T
  <1>2. T # {} => Min(T) \in T
    BY <1>1, LeastNatural
  <1> QED BY <1>2 DEF T

LineUse(direction) == [use |-> "line", direction |-> direction]

LEMMA LineGiven ==
    ASSUME NEW fs \in [Files -> Uses \cup {Free}], NEW direction \in Directions,
           NEW files \in requestLine(fs, direction)
    PROVE  /\ LineOf(files) \in Files
           /\ fs[LineOf(files)] = Free
           /\ LineUse(direction) \in Uses
           /\ files = [fs EXCEPT ![LineOf(files)] = LineUse(direction)]
  <1> DEFINE l == Min({f \in Files : fs[f] = Free})
  <1>1. ~LineTaken(fs) /\ files = [fs EXCEPT ![l] = LineUse(direction)]
        /\ {f \in Files : fs[f] = Free} # {}
    BY DEF requestLine, LineUse
  <1>2. l \in Files /\ fs[l] = Free
    BY <1>1, FreeIsThere
  <1> HIDE DEF l
  <1>3. LineUse(direction) \in Uses /\ LineUse(direction).use = "line"
    BY DEF LineUse, Uses
  <1>4. files[l] # Free /\ files[l].use = "line"
    BY <1>1, <1>2, <1>3, UsesAreSome
  <1>5. \A f \in Files : files[f] # Free /\ files[f].use = "line" => f = l
    BY <1>1, <1>2 DEF LineTaken
  <1>6. LineOf(files) = l
    BY <1>2, <1>4, <1>5 DEF LineOf
  <1> QED BY <1>1, <1>2, <1>3, <1>6

LEMMA StoreFacts ==
    /\ \A channel \in Channel, value \in Times \cup {0} :
          /\ Store(channel, "period", value) \in Channel
          /\ Store(channel, "duty", value) \in Channel
          /\ Out(Store(channel, "period", value)) <=> Out(channel)
          /\ Out(Store(channel, "duty", value)) <=> Out(channel)
    /\ \A channel \in Channel, value \in BOOLEAN :
          /\ Store(channel, "enabled", value) \in Channel
          /\ Out(Store(channel, "enabled", value)) <=> Out(channel)
  <1>1. ASSUME NEW channel \in Channel, NEW value \in Times \cup {0}
        PROVE  /\ [channel EXCEPT !["period"] = value] \in Channel
               /\ [channel EXCEPT !["duty"] = value] \in Channel
               /\ Out([channel EXCEPT !["period"] = value]) <=> Out(channel)
               /\ Out([channel EXCEPT !["duty"] = value]) <=> Out(channel)
    BY DEF Channel, Out
  <1>2. ASSUME NEW channel \in Channel, NEW value \in BOOLEAN
        PROVE  /\ [channel EXCEPT !["enabled"] = value] \in Channel
               /\ Out([channel EXCEPT !["enabled"] = value]) <=> Out(channel)
    BY DEF Channel, Out
  <1> QED BY <1>1, <1>2 DEF Store

(***************************************************************************)
(* The operations of one object.                                           *)
(***************************************************************************)
LEMMA InvFacts ==
    ASSUME LpioInv, NEW o \in Objects
    PROVE  /\ device \in [Objects -> DeviceRecords] /\ device[o] \in DeviceRecords
           /\ file \in [Files -> Uses \cup {Free}] /\ pwm \in Channel
           /\ Held(o) = HeldBy(device[o]) /\ Held(o) \subseteq Files
           /\ \A f \in Held(o) : file[f] # Free
           /\ HasWhatItNeeds(device[o], file)
  BY DEF LpioInv, LpioTypes, UsedIsHeld, Held, HeldBy, DeviceRecords

(* What leaves the descriptors where they are.                             *)
LEMMA SameDescriptors ==
    ASSUME LpioInv, NEW o \in Objects, NEW r \in DeviceRecords,
           r.fd = device[o].fd, r.chip = device[o].chip, file' = file
    PROVE  FilesFollow(o, r) /\ file' \in [Files -> Uses \cup {Free}]
  <1>1. HeldBy(r) = Held(o)
    BY DEF HeldBy, Held
  <1> QED BY <1>1, InvFacts DEF FilesFollow

LEMMA StutterKeepsInv == LpioInv /\ UNCHANGED lpioVars => LpioInv'
  <1> SUFFICES ASSUME LpioInv, UNCHANGED lpioVars PROVE LpioInv'
    OBVIOUS
  <1>1. deviceClass' = deviceClass /\ device' = device /\ file' = file /\ pwm' = pwm
    BY DEF lpioVars
  <1>2. \A o \in Objects : Held(o)' = Held(o)
    BY <1>1 DEF Held
  <1>3. LpioTypes'
    BY <1>1 DEF LpioInv, LpioTypes
  <1>4. ASSUME NEW o \in Objects PROVE HasWhatItNeeds(device[o], file)'
    <2>1. HasWhatItNeeds(device[o], file)
      BY DEF LpioInv
    <2> QED BY <1>1, <2>1 DEF HasWhatItNeeds
  <1>5. HeldByOne'
    BY <1>2 DEF LpioInv, HeldByOne
  <1>6. UsedIsHeld'
    BY <1>1, <1>2 DEF LpioInv, UsedIsHeld
  <1>7. ExportedIsHeld'
    BY <1>1 DEF LpioInv, ExportedIsHeld, Out
  <1> QED BY <1>3, <1>4, <1>5, <1>6, <1>7 DEF LpioInv

LEMMA OpensFdKeepsInv ==
    ASSUME LpioInv, UNCHANGED <<deviceClass, pwm>>, NEW o \in Objects,
           deviceClass \in FdClasses, ~Open(o), OpensFd(o)
    PROVE  LpioInv'
  <1>1. PICK f : f = Min(Unused)
    OBVIOUS
  <1> DEFINE r == [device[o] EXCEPT !.fd = f, !.state = "open"]
  <1>2. f \in Files /\ file[f] = Free /\ f # Free
    BY <1>1, InvFacts, FreeIsThere, LpioAssumption DEF OpensFd, Unused
  <1>3. /\ device' = [device EXCEPT ![o] = r]
        /\ file' = [file EXCEPT ![f] = For("device")]
    BY <1>1, InvFacts DEF OpensFd
  <1>4. For("device") \in Uses /\ For("device") # Free
    BY UsesAreSome DEF For, Uses
  <1>5. /\ r \in DeviceRecords /\ r.fd = f /\ r.state = "open"
        /\ r.chip = device[o].chip /\ r.exported = device[o].exported
    BY <1>2, InvFacts DEF DeviceRecords
  <1>6. deviceClass \notin {"GPIO", "PWM"}
    BY DEF FdClasses
  <1>7. Held(o) = {} /\ r.chip = Free /\ ~r.exported
    BY <1>5, <1>6, InvFacts DEF HasWhatItNeeds, Held, Open
  <1>8. HeldBy(r) = {f}
    BY <1>2, <1>5, <1>7 DEF HeldBy
  <1>9. file' \in [Files -> Uses \cup {Free}] /\ FilesFollow(o, r)
    BY <1>2, <1>3, <1>4, <1>7, <1>8, InvFacts DEF FilesFollow
  <1>10. HasWhatItNeeds(r, file')
    BY <1>2, <1>5, <1>6, <1>7 DEF HasWhatItNeeds
  <1>11. pwm' \in Channel /\ (Out(pwm') => Out(pwm) /\ ~device[o].exported)
    BY <1>5, <1>7, InvFacts
  <1> HIDE DEF r
  <1>12. ObjectTakes(o, r)
    BY <1>3, <1>5, <1>9, <1>10, <1>11 DEF ObjectTakes
  <1> QED BY <1>12, TakingKeepsInv

(* The path of a bus, and the direction of a line that is not requested.   *)
LEMMA ClosedChangesKeepInv ==
    ASSUME LpioInv, UNCHANGED <<deviceClass, file, pwm>>, NEW o \in Objects,
           \/ device' = [device EXCEPT ![o].path = TRUE]
           \/ /\ ~Open(o)
              /\ \E direction \in Directions :
                    device' = [device EXCEPT ![o].direction = direction]
    PROVE  LpioInv'
  <1>1. PICK r \in DeviceRecords :
            /\ device' = [device EXCEPT ![o] = r]
            /\ r.fd = device[o].fd /\ r.chip = device[o].chip
            /\ r.state = device[o].state /\ r.exported = device[o].exported
            /\ Open(o) => r.direction = device[o].direction
    <2>1. CASE device' = [device EXCEPT ![o].path = TRUE]
      <3> DEFINE s == [device[o] EXCEPT !.path = TRUE]
      <3>1. /\ s \in DeviceRecords
            /\ s.fd = device[o].fd /\ s.chip = device[o].chip
            /\ s.state = device[o].state /\ s.exported = device[o].exported
            /\ s.direction = device[o].direction
        BY InvFacts DEF DeviceRecords
      <3>2. device' = [device EXCEPT ![o] = s]
        BY <2>1
      <3> HIDE DEF s
      <3> QED BY <3>1, <3>2
    <2>2. ASSUME NEW direction \in Directions, ~Open(o),
                 device' = [device EXCEPT ![o].direction = direction]
          PROVE  \E r \in DeviceRecords :
                    /\ device' = [device EXCEPT ![o] = r]
                    /\ r.fd = device[o].fd /\ r.chip = device[o].chip
                    /\ r.state = device[o].state /\ r.exported = device[o].exported
                    /\ Open(o) => r.direction = device[o].direction
      <3> DEFINE s == [device[o] EXCEPT !.direction = direction]
      <3>1. /\ s \in DeviceRecords
            /\ s.fd = device[o].fd /\ s.chip = device[o].chip
            /\ s.state = device[o].state /\ s.exported = device[o].exported
        BY InvFacts DEF DeviceRecords
      <3>2. device' = [device EXCEPT ![o] = s]
        BY <2>2
      <3> HIDE DEF s
      <3> QED BY <2>2, <3>1, <3>2
    <2> QED BY <2>1, <2>2
  <1>2. HasWhatItNeeds(r, file')
    BY <1>1, InvFacts DEF HasWhatItNeeds, Open
  <1>3. ObjectTakes(o, r)
    BY <1>1, <1>2, InvFacts, SameDescriptors DEF ObjectTakes
  <1> QED BY <1>3, TakingKeepsInv

LEMMA OneWireOpensKeepsInv ==
    ASSUME LpioInv, UNCHANGED <<deviceClass, pwm>>, NEW o \in Objects,
           deviceClass = "OneWire", OneWire_open(o)
    PROVE  LpioInv'
  <1>1. CASE UNCHANGED device
    BY <1>1, StutterKeepsInv DEF OneWire_open, lpioVars
  <1>2. CASE device' = [device EXCEPT ![o].state = "open"]
    <2> DEFINE r == [device[o] EXCEPT !.state = "open"]
    <2>1. device' = [device EXCEPT ![o] = r] /\ file' = file
      BY <1>2 DEF OneWire_open
    <2>2. /\ r \in DeviceRecords /\ r.fd = device[o].fd /\ r.chip = device[o].chip
          /\ r.state = "open" /\ r.exported = device[o].exported
      BY InvFacts DEF DeviceRecords
    <2> HIDE DEF r
    <2>3. HasWhatItNeeds(r, file')
      BY <2>2, InvFacts DEF HasWhatItNeeds, FdClasses
    <2>4. ObjectTakes(o, r)
      BY <2>1, <2>2, <2>3, InvFacts, SameDescriptors DEF ObjectTakes
    <2> QED BY <2>4, TakingKeepsInv
  <1> QED BY <1>1, <1>2 DEF OneWire_open

(***************************************************************************)
(* The line of GPIO: requested by open(), and anew by setDirection().      *)
(***************************************************************************)
LEMMA GPIOOpensKeepsInv ==
    ASSUME LpioInv, UNCHANGED <<deviceClass, pwm>>, NEW o \in Objects,
           deviceClass = "GPIO", GPIO_open(o)
    PROVE  LpioInv'
  <1>1. CASE Refused
    BY <1>1, StutterKeepsInv DEF Refused, lpioVars
  <1>2. CASE ~Refused
    <2>1. PICK c, mid, direction, files, l :
              /\ c = Min(Unused) /\ Unused # {} /\ ~Open(o)
              /\ mid = [file EXCEPT ![c] = For("chip")]
              /\ direction = device[o].direction
              /\ files \in requestLine(mid, direction)
              /\ l = LineOf(files) /\ file' = files
              /\ device' = [device EXCEPT ![o].state = "open", ![o].chip = c, ![o].fd = l]
      BY <1>2 DEF GPIO_open
    <2> DEFINE r == [device[o] EXCEPT !.state = "open", !.chip = c, !.fd = l]
    <2>2. c \in Files /\ file[c] = Free /\ For("chip") \in Uses /\ For("chip") # Free
      BY <2>1, InvFacts, FreeIsThere, UsesAreSome DEF Unused, For, Uses
    <2>3. mid \in [Files -> Uses \cup {Free}] /\ mid[c] # Free
          /\ \A f \in Files \ {c} : mid[f] = file[f]
      BY <2>1, <2>2, InvFacts
    <2>4. direction \in Directions
      BY <2>1, InvFacts DEF DeviceRecords
    <2>5. /\ l \in Files /\ mid[l] = Free
          /\ LineUse(direction) \in Uses
          /\ file' = [mid EXCEPT ![l] = LineUse(direction)]
      <3>1. files \in requestLine(mid, direction) /\ l = LineOf(files) /\ file' = files
        BY <2>1
      <3>2. mid \in [Files -> Uses \cup {Free}]
        BY <2>3
      <3>3. /\ LineOf(files) \in Files /\ mid[LineOf(files)] = Free
            /\ LineUse(direction) \in Uses
            /\ files = [mid EXCEPT ![LineOf(files)] = LineUse(direction)]
        BY <2>4, <3>1, <3>2, LineGiven
      <3> QED BY <3>1, <3>3
    <2>6. l # c /\ file[l] = Free /\ l # Free /\ c # Free
      BY <2>2, <2>3, <2>5, LpioAssumption
    <2>7. /\ r \in DeviceRecords /\ r.fd = l /\ r.chip = c /\ r.state = "open"
          /\ r.exported = device[o].exported /\ r.direction = direction
      <3>1. device[o] \in DeviceRecords /\ device[o].direction = direction
        BY <2>1, InvFacts
      <3>2. l \in Files \cup {Free} /\ c \in Files \cup {Free}
        BY <2>2, <2>5
      <3>3. r \in DeviceRecords
        BY <3>1, <3>2 DEF DeviceRecords
      <3> QED BY <3>1, <3>3 DEF DeviceRecords
    <2>8. device' = [device EXCEPT ![o] = r]
      BY <2>1, InvFacts
    <2> HIDE DEF r
    <2>9. Held(o) = {} /\ HeldBy(r) = {l, c} /\ ~device[o].exported
      BY <2>1, <2>6, <2>7, InvFacts DEF HasWhatItNeeds, HeldBy, Open
    <2>10. file' \in [Files -> Uses \cup {Free}] /\ FilesFollow(o, r)
      <3>1. file' \in [Files -> Uses \cup {Free}]
        BY <2>3, <2>5
      <3>2. file'[l] # Free /\ file'[c] # Free
        BY <2>2, <2>3, <2>5, <2>6, UsesAreSome
      <3>3. \A f \in Files \ {l, c} : file'[f] = file[f]
        BY <2>3, <2>5
      <3> QED BY <2>2, <2>6, <2>9, <3>1, <3>2, <3>3 DEF FilesFollow
    <2>11. HasWhatItNeeds(r, file')
      BY <2>3, <2>5, <2>6, <2>7, <2>9 DEF HasWhatItNeeds, LineUse
    <2>12. ObjectTakes(o, r)
      BY <2>7, <2>8, <2>9, <2>10, <2>11, InvFacts DEF ObjectTakes
    <2> QED BY <2>12, TakingKeepsInv
  <1> QED BY <1>1, <1>2

LEMMA SetDirectionKeepsInv ==
    ASSUME LpioInv, UNCHANGED <<deviceClass, pwm>>, NEW o \in Objects,
           deviceClass = "GPIO", NEW direction \in Directions, setDirection(o, direction)
    PROVE  LpioInv'
  <1>1. CASE ~Open(o) /\ device' = [device EXCEPT ![o].direction = direction]
             /\ UNCHANGED file
    BY <1>1, ClosedChangesKeepInv
  <1>2. ASSUME Open(o),
               NEW files \in requestLine(Closed(file, {device[o].fd}), direction),
               file' = files,
               device' = [device EXCEPT ![o].fd = LineOf(files), ![o].direction = direction]
        PROVE  LpioInv'
    <2>1. PICK l, released :
              l = LineOf(files) /\ released = Closed(file, {device[o].fd})
      OBVIOUS
    <2> DEFINE r == [device[o] EXCEPT !.fd = l, !.direction = direction]
    <2>2. /\ released \in [Files -> Uses \cup {Free}]
          /\ \A f \in Files : released[f] = IF f = device[o].fd THEN Free ELSE file[f]
      BY <2>1, InvFacts DEF Closed
    <2>3. /\ l \in Files /\ released[l] = Free /\ LineUse(direction) \in Uses
          /\ file' = [released EXCEPT ![l] = LineUse(direction)]
      BY <1>2, <2>1, <2>2, LineGiven
    <2>4. /\ device[o].fd # Free /\ device[o].chip # Free
          /\ device[o].chip # device[o].fd /\ ~device[o].exported
          /\ Held(o) = {device[o].fd, device[o].chip}
      BY <1>2, InvFacts DEF HasWhatItNeeds, Held, Open
    <2>5. l # device[o].chip /\ (l = device[o].fd \/ file[l] = Free) /\ l # Free
      BY <2>2, <2>3, <2>4, InvFacts, LpioAssumption
    <2>6. /\ r \in DeviceRecords /\ r.fd = l /\ r.chip = device[o].chip
          /\ r.state = device[o].state /\ r.exported = device[o].exported
          /\ r.direction = direction
      BY <2>3, InvFacts DEF DeviceRecords
    <2>7. device' = [device EXCEPT ![o] = r]
      BY <1>2, <2>1, InvFacts
    <2> HIDE DEF r
    <2>8. HeldBy(r) = {l, device[o].chip}
      BY <2>4, <2>5, <2>6 DEF HeldBy
    <2>9. file' \in [Files -> Uses \cup {Free}]
      BY <2>2, <2>3
    <2>10. FilesFollow(o, r)
      BY <2>2, <2>3, <2>4, <2>5, <2>8, InvFacts, UsesAreSome DEF FilesFollow
    <2>11. HasWhatItNeeds(r, file')
      BY <1>2, <2>2, <2>3, <2>4, <2>5, <2>6 DEF HasWhatItNeeds, LineUse, Open
    <2>12. ObjectTakes(o, r)
      BY <2>4, <2>6, <2>7, <2>9, <2>10, <2>11, InvFacts DEF ObjectTakes
    <2> QED BY <2>12, TakingKeepsInv
  <1>3. ASSUME Open(o), file' = Closed(file, Held(o)),
               device' = [device EXCEPT ![o].state = "closed", ![o].fd = Free, ![o].chip = Free]
        PROVE  LpioInv'
    <2> DEFINE r == [device[o] EXCEPT !.state = "closed", !.fd = Free, !.chip = Free]
    <2>1. /\ r \in DeviceRecords /\ r.fd = Free /\ r.chip = Free
          /\ r.state = "closed" /\ r.exported = device[o].exported
      BY InvFacts DEF DeviceRecords
    <2>2. device' = [device EXCEPT ![o] = r]
      BY <1>3, InvFacts
    <2> HIDE DEF r
    <2>3. HeldBy(r) = {} /\ ~device[o].exported
      BY <2>1, InvFacts DEF HeldBy, HasWhatItNeeds
    <2>4. file' \in [Files -> Uses \cup {Free}] /\ FilesFollow(o, r)
      BY <1>3, <2>3, InvFacts DEF Closed, FilesFollow
    <2>5. HasWhatItNeeds(r, file')
      BY <2>1, <2>3 DEF HasWhatItNeeds
    <2>6. ObjectTakes(o, r)
      BY <2>1, <2>2, <2>3, <2>4, <2>5, InvFacts DEF ObjectTakes
    <2> QED BY <2>6, TakingKeepsInv
  <1> QED BY <1>1, <1>2, <1>3 DEF setDirection

(***************************************************************************)
(* The channel of PWM.                                                     *)
(***************************************************************************)
LEMMA UnexportFacts ==
    ASSUME NEW channel \in Channel, NEW next \in unexportChannel(channel)
    PROVE  next \in Channel /\ ~Out(next)
  <1>1. CASE next = [channel EXCEPT !.exported = FALSE, !.stuck = FALSE]
    BY <1>1 DEF Channel, Out
  <1>2. CASE next = [channel EXCEPT !.stuck = channel.exported]
    BY <1>2 DEF Channel, Out
  <1> QED BY <1>1, <1>2 DEF unexportChannel

LEMMA ConfigIsStored ==
    ASSUME LpioInv, NEW o \in Objects
    PROVE  /\ device[o].config.period \in Times \cup {0}
           /\ device[o].config.duty \in Times \cup {0}
           /\ device[o].config.enabled \in BOOLEAN
  <1>1. device[o].config \in
            [period : Times \cup {0}, duty : Times \cup {0}, enabled : BOOLEAN]
    BY InvFacts DEF DeviceRecords
  <1> QED BY <1>1

LEMMA PWMOpensKeepsInv ==
    ASSUME LpioInv, UNCHANGED deviceClass, NEW o \in Objects,
           deviceClass = "PWM", PWM_open(o)
    PROVE  LpioInv'
  <1> DEFINE config   == device[o].config
             period   == Store(exportChannel, "period", config.period)
             duty     == Store(period, "duty", config.duty)
             switched == Store(duty, "enabled", config.enabled)
  <1>1. exportChannel \in Channel
    BY InvFacts DEF exportChannel, Channel
  <1>2. period \in Channel
    BY <1>1, ConfigIsStored, StoreFacts
  <1>3. duty \in Channel
    <2> HIDE DEF period
    <2> QED BY <1>2, ConfigIsStored, StoreFacts
  <1>4. switched \in Channel
    <2> HIDE DEF duty
    <2> QED BY <1>3, ConfigIsStored, StoreFacts
  <1>5. \/ /\ pwm' = switched
           /\ device' = [device EXCEPT ![o].state = "open", ![o].exported = TRUE]
        \/ /\ \E channel \in {exportChannel, period, duty} : pwm' \in unexportChannel(channel)
           /\ UNCHANGED device
        \/ UNCHANGED <<pwm, device>>
    BY DEF PWM_open
  <1>6. UNCHANGED file /\ ~Open(o)
    BY DEF PWM_open
  <1> HIDE DEF period, duty, switched
  <1>7. CASE /\ pwm' = switched
             /\ device' = [device EXCEPT ![o].state = "open", ![o].exported = TRUE]
    <2> DEFINE r == [device[o] EXCEPT !.state = "open", !.exported = TRUE]
    <2>1. /\ r \in DeviceRecords /\ r.fd = device[o].fd /\ r.chip = device[o].chip
          /\ r.state = "open" /\ r.exported
      BY InvFacts DEF DeviceRecords
    <2>2. device' = [device EXCEPT ![o] = r]
      BY <1>7, InvFacts
    <2> HIDE DEF r
    <2>3. HasWhatItNeeds(r, file')
      BY <2>1, InvFacts DEF HasWhatItNeeds, FdClasses
    <2>4. ObjectTakes(o, r)
      BY <1>4, <1>6, <1>7, <2>1, <2>2, <2>3, SameDescriptors DEF ObjectTakes
    <2> QED BY <2>4, TakingKeepsInv
  <1>8. CASE /\ \E channel \in {exportChannel, period, duty} : pwm' \in unexportChannel(channel)
             /\ UNCHANGED device
    <2>1. PICK channel \in Channel : pwm' \in unexportChannel(channel)
      BY <1>1, <1>2, <1>3, <1>8
    <2>2. pwm' \in Channel /\ ~Out(pwm')
      BY <2>1, UnexportFacts
    <2> QED BY <1>6, <1>8, <2>2
        DEF LpioInv, LpioTypes, HeldByOne, UsedIsHeld, ExportedIsHeld, HasWhatItNeeds, Held
  <1>9. CASE UNCHANGED <<pwm, device>>
    BY <1>6, <1>9, StutterKeepsInv DEF lpioVars
  <1> QED BY <1>5, <1>7, <1>8, <1>9

LEMMA PWMSetKeepsInv ==
    ASSUME LpioInv, UNCHANGED deviceClass, NEW o \in Objects, NEW attr, NEW value,
           \/ attr \in {"period", "duty"} /\ value \in Times
           \/ attr = "enabled" /\ value \in BOOLEAN,
           PWM_set(o, attr, value)
    PROVE  LpioInv'
  <1> DEFINE r == [device[o] EXCEPT !.config[attr] = value]
  <1>1. /\ Store(pwm, attr, value) \in Channel
        /\ Out(Store(pwm, attr, value)) <=> Out(pwm)
    BY InvFacts, StoreFacts
  <1>2. device[o].config \in
            [period : Times \cup {0}, duty : Times \cup {0}, enabled : BOOLEAN]
    BY InvFacts DEF DeviceRecords
  <1>3. [device[o].config EXCEPT ![attr] = value] \in
            [period : Times \cup {0}, duty : Times \cup {0}, enabled : BOOLEAN]
    BY <1>2
  <1>4. /\ r \in DeviceRecords /\ r.fd = device[o].fd /\ r.chip = device[o].chip
        /\ r.state = device[o].state /\ r.exported = device[o].exported
        /\ r.direction = device[o].direction
    BY <1>3, InvFacts DEF DeviceRecords
  <1>5. device' = [device EXCEPT ![o] = r] /\ file' = file
    BY InvFacts DEF PWM_set
  <1> HIDE DEF r
  <1>6. HasWhatItNeeds(r, file')
    BY <1>4, <1>5, InvFacts DEF HasWhatItNeeds
  <1>7. pwm' = Store(pwm, attr, value)
    BY DEF PWM_set
  <1>8. pwm' \in Channel /\ (Out(pwm') => r.exported \/ (Out(pwm) /\ ~device[o].exported))
    <2>1. pwm' \in Channel /\ (Out(pwm') <=> Out(pwm))
      BY <1>1, <1>7 DEF Out
    <2> QED BY <1>4, <2>1, Zenon
  <1>9. ObjectTakes(o, r)
    BY <1>4, <1>5, <1>6, <1>8, SameDescriptors DEF ObjectTakes
  <1> QED BY <1>9, TakingKeepsInv

LEMMA UnexportedFacts ==
    ASSUME LpioInv, NEW o \in Objects, NEW off, NEW next \in Unexported(o, off)
    PROVE  /\ next \in Channel
           /\ Out(next) => Out(pwm) /\ ~device[o].exported
  <1>1. CASE ~device[o].exported
    BY <1>1, InvFacts DEF Unexported
  <1>2. CASE device[o].exported
    <2>1. PICK channel \in Channel : next \in unexportChannel(channel)
      BY <1>2, InvFacts, StoreFacts DEF Unexported
    <2> QED BY <2>1, UnexportFacts
  <1> QED BY <1>1, <1>2

(***************************************************************************)
(* close(), and the move of one object to another.                         *)
(***************************************************************************)
LEMMA CloseKeepsInv ==
    ASSUME LpioInv, UNCHANGED deviceClass, NEW o \in Objects, close(o)
    PROVE  LpioInv'
  <1>0. PICK off \in BOOLEAN :
            /\ device' = [device EXCEPT ![o] = AfterClose(o, off)]
            /\ pwm' \in Unexported(o, off)
    BY DEF close
  <1>1. PICK r : /\ r = AfterClose(o, off) /\ device' = [device EXCEPT ![o] = r]
                 /\ pwm' \in Unexported(o, off)
    BY <1>0
  <1>2. /\ r \in DeviceRecords /\ r.fd = Free /\ r.chip = Free
        /\ r.state = "closed" /\ ~r.exported
    <2>1. SwitchedOff(o, off) \in DeviceRecords
      <3> DEFINE on == IF off /\ Open(o) /\ device[o].exported /\ pwm.exported THEN FALSE
                       ELSE device[o].config.enabled
      <3>1. on \in BOOLEAN
        BY ConfigIsStored
      <3>2. SwitchedOff(o, off) = [device[o] EXCEPT !.config.enabled = on]
        BY DEF SwitchedOff
      <3> HIDE DEF on
      <3>3. PICK config : config = [device[o].config EXCEPT !.enabled = on]
        OBVIOUS
      <3>4. device[o].config \in
                [period : Times \cup {0}, duty : Times \cup {0}, enabled : BOOLEAN]
        BY InvFacts DEF DeviceRecords
      <3>5. config \in [period : Times \cup {0}, duty : Times \cup {0}, enabled : BOOLEAN]
        BY <3>1, <3>3, <3>4
      <3>6. SwitchedOff(o, off) = [device[o] EXCEPT !.config = config]
        BY <3>2, <3>3
      <3> QED BY <3>5, <3>6, InvFacts DEF DeviceRecords
    <2> QED BY <1>1, <2>1 DEF AfterClose, DeviceRecords
  <1>3. HeldBy(r) = {} /\ HasWhatItNeeds(r, file')
    BY <1>2 DEF HeldBy, HasWhatItNeeds
  <1>4. file' \in [Files -> Uses \cup {Free}] /\ FilesFollow(o, r)
    BY <1>3, InvFacts DEF close, Closed, FilesFollow
  <1>5. ObjectTakes(o, r)
    BY <1>1, <1>2, <1>3, <1>4, UnexportedFacts DEF ObjectTakes, close
  <1> QED BY <1>5, TakingKeepsInv

LEMMA MoveKeepsInv ==
    ASSUME LpioInv, UNCHANGED deviceClass,
           NEW to \in Objects, NEW from \in Objects, move(to, from)
    PROVE  LpioInv'
  <1>1. PICK r : r = [device[from] EXCEPT !.state = "closed", !.path = FALSE,
                          !.fd = Free, !.chip = Free, !.exported = FALSE]
    OBVIOUS
  <1>2. /\ r \in DeviceRecords /\ r.fd = Free /\ r.chip = Free
        /\ r.state = "closed" /\ ~r.exported
    <2>1. device[from] \in DeviceRecords
      BY InvFacts
    <2> QED BY <1>1, <2>1 DEF DeviceRecords
  <1>3. /\ to # from
        /\ device' = [device EXCEPT ![to] = device[from], ![from] = r]
        /\ file' = Closed(file, Held(to)) /\ \E off \in BOOLEAN : pwm' \in Unexported(to, off)
    BY <1>1, InvFacts DEF move
  <1>4. /\ device'[to] = device[from] /\ device'[from] = r
        /\ \A p \in Objects \ {to, from} : device'[p] = device[p]
        /\ device' \in [Objects -> DeviceRecords]
    BY <1>2, <1>3, InvFacts
  <1>5. /\ file' \in [Files -> Uses \cup {Free}]
        /\ \A f \in Files : file'[f] = IF f \in Held(to) THEN Free ELSE file[f]
    BY <1>3, InvFacts DEF Closed
  <1>6. pwm' \in Channel /\ (Out(pwm') => Out(pwm) /\ ~device[to].exported)
    BY <1>3, UnexportedFacts
  <1>7. LpioTypes'
    BY <1>4, <1>5, <1>6 DEF LpioInv, LpioTypes
  <1>8. /\ Held(to)' = Held(from) /\ Held(from)' = {}
        /\ \A p \in Objects \ {to, from} : Held(p)' = Held(p)
    BY <1>2, <1>4 DEF Held
  <1>9. \A p \in Objects \ {to} : \A f \in Held(p) :
            f \in Files /\ f \notin Held(to) /\ file'[f] = file[f]
    BY <1>5, InvFacts DEF LpioInv, HeldByOne
  <1>10. ASSUME NEW p \in Objects
         PROVE  HasWhatItNeeds(device[p], file)'
    <2>1. ASSUME NEW q \in Objects \ {to}
          PROVE  HasWhatItNeeds(device[q], file')
      <3>1. HasWhatItNeeds(device[q], file)
        BY DEF LpioInv
      <3>2. device[q].fd # Free => file'[device[q].fd] = file[device[q].fd]
        BY <1>9 DEF Held
      <3> QED BY <3>1, <3>2 DEF HasWhatItNeeds
    <2>2. HasWhatItNeeds(r, file')
      BY <1>2 DEF HasWhatItNeeds
    <2>3. \/ device'[p] = r
          \/ \E q \in Objects \ {to} : device'[p] = device[q]
      BY <1>3, <1>4
    <2> QED BY <2>1, <2>2, <2>3 DEF HasWhatItNeeds
  <1>11. HeldByOne'
    BY <1>8, <1>9, <1>3 DEF LpioInv, HeldByOne
  <1>12. ASSUME NEW f \in Files
         PROVE  file'[f] # Free <=> \E p \in Objects : f \in Held(p)'
    <2>1. CASE f \in Held(to)
      BY <2>1, <1>5, <1>8, <1>9
    <2>2. CASE f \notin Held(to)
      <3>1. file'[f] # Free <=> \E p \in Objects : f \in Held(p)
        BY <2>2, <1>5 DEF LpioInv, UsedIsHeld
      <3> QED BY <2>2, <3>1, <1>8
    <2> QED BY <2>1, <2>2
  <1>13. ExportedIsHeld'
    <2> SUFFICES ASSUME Out(pwm')
                 PROVE  \E p \in Objects : device'[p].exported
      BY DEF ExportedIsHeld, Out
    <2>1. PICK p \in Objects \ {to} : device[p].exported
      BY <1>6 DEF LpioInv, ExportedIsHeld
    <2> QED BY <2>1, <1>4
  <1> QED BY <1>7, <1>10, <1>11, <1>12, <1>13 DEF LpioInv, UsedIsHeld

-----------------------------------------------------------------------------
LEMMA NextLpioInv == LpioInv /\ [LpioNext]_lpioVars => LpioInv'
  <1> SUFFICES ASSUME LpioInv, [LpioNext]_lpioVars PROVE LpioInv'
    OBVIOUS
  <1>1. CASE UNCHANGED lpioVars
    BY <1>1, StutterKeepsInv
  <1>2. ASSUME LpioNext PROVE LpioInv'
    <2>1. UNCHANGED deviceClass
      BY <1>2 DEF LpioNext
    <2>2. PICK o \in Objects :
              \/ deviceClass = "SerialPort" /\ SerialPort(o)
              \/ deviceClass = "SBUSReader" /\ SBUSReader(o)
              \/ deviceClass = "CANBus" /\ CANBus(o)
              \/ deviceClass = "I2CBus" /\ I2CBus(o)
              \/ deviceClass = "SPIBus" /\ SPIBus(o)
              \/ deviceClass = "RS485" /\ RS485(o)
              \/ deviceClass = "OneWire" /\ OneWire(o)
              \/ deviceClass = "GPIO" /\ GPIO(o)
              \/ deviceClass = "PWM" /\ PWM(o)
      BY <1>2 DEF LpioNext
    <2>3. ASSUME UNCHANGED pwm, Refused PROVE LpioInv'
      BY <2>1, <2>3, StutterKeepsInv DEF Refused, lpioVars
    <2>4. ASSUME UNCHANGED pwm, deviceClass \in FdClasses, ~Open(o), OpensFd(o)
          PROVE  LpioInv'
      BY <2>1, <2>4, OpensFdKeepsInv
    <2>5. ASSUME UNCHANGED pwm, UNCHANGED file, device' = [device EXCEPT ![o].path = TRUE]
          PROVE  LpioInv'
      BY <2>1, <2>5, ClosedChangesKeepInv
    <2>6. ASSUME UNCHANGED pwm, deviceClass = "OneWire", OneWire_open(o) PROVE LpioInv'
      BY <2>1, <2>6, OneWireOpensKeepsInv
    <2>7. ASSUME UNCHANGED pwm, deviceClass = "GPIO", GPIO_open(o) PROVE LpioInv'
      BY <2>1, <2>7, GPIOOpensKeepsInv
    <2>8. ASSUME UNCHANGED pwm, deviceClass = "GPIO",
                 NEW d \in Directions, setDirection(o, d)
          PROVE  LpioInv'
      BY <2>1, <2>8, SetDirectionKeepsInv
    <2>9. ASSUME deviceClass = "PWM", PWM_open(o) PROVE LpioInv'
      BY <2>1, <2>9, PWMOpensKeepsInv
    <2>10. ASSUME NEW v \in Times, PWM_set(o, "period", v) \/ PWM_set(o, "duty", v)
           PROVE  LpioInv'
      BY <2>1, <2>10, PWMSetKeepsInv
    <2>11. ASSUME NEW on \in BOOLEAN, PWM_set(o, "enabled", on) PROVE LpioInv'
      BY <2>1, <2>11, PWMSetKeepsInv
    <2>12. ASSUME close(o) PROVE LpioInv'
      BY <2>1, <2>12, CloseKeepsInv
    <2>13. ASSUME NEW from \in Objects, move(o, from) PROVE LpioInv'
      BY <2>1, <2>13, MoveKeepsInv
    <2>14. CASE deviceClass \in FdClasses
      <3>1. \/ UNCHANGED pwm /\ Refused
            \/ UNCHANGED pwm /\ ~Open(o) /\ OpensFd(o)
            \/ UNCHANGED pwm /\ UNCHANGED file /\ device' = [device EXCEPT ![o].path = TRUE]
            \/ close(o)
            \/ \E from \in Objects : move(o, from)
        BY <2>2, <2>14 DEF FdClasses, SerialPort, SBUSReader, CANBus, I2CBus, SPIBus, RS485,
            Life, SerialPort_open, SBUSReader_open, CANBus_open, I2CBus_open, SPIBus_open,
            RS485_open
      <3> QED BY <2>3, <2>4, <2>5, <2>12, <2>13, <2>14, <3>1
    <2>15. CASE deviceClass = "OneWire"
      BY <2>2, <2>6, <2>12, <2>13, <2>15 DEF OneWire, Life
    <2>16. CASE deviceClass = "GPIO"
      BY <2>2, <2>7, <2>8, <2>12, <2>13, <2>16 DEF GPIO, Life
    <2>17. CASE deviceClass = "PWM"
      BY <2>2, <2>9, <2>10, <2>11, <2>12, <2>13, <2>17 DEF PWM
    <2> QED BY <2>2, <2>14, <2>15, <2>16, <2>17 DEF FdClasses
  <1> QED BY <1>1, <1>2

(***************************************************************************)
(* Whatever is opened, closed, moved or refused, in any order and for any  *)
(* number of objects: an open object has the descriptors its class needs,  *)
(* a closed one has none, every descriptor that is open is held by exactly *)
(* one object, and an exported channel by one that says so.                *)
(***************************************************************************)
THEOREM ResourcesAreTracked == LpioSpec => []ResourcesFollowState
  <1>1. LpioInit => LpioInv
    BY InitLpioInv
  <1>2. LpioInv /\ [LpioNext]_lpioVars => LpioInv'
    BY NextLpioInv
  <1>3. LpioInv => ResourcesFollowState
    BY CountedRight
  <1> QED BY <1>1, <1>2, <1>3, PTL DEF LpioSpec

-----------------------------------------------------------------------------
(* SBUSReader                                                              *)

(***************************************************************************)
(* Where the k-th byte of the frame after q whole frames is on the line.   *)
(***************************************************************************)
LEMMA Places ==
    ASSUME NEW q \in Nat, NEW k \in 1..25
    PROVE  /\ (25 * q + k - 1) \div 25 = q /\ (25 * q + k - 1) % 25 = k - 1
           /\ (25 * q) \div 25 = q /\ (25 * q) % 25 = 0
           /\ (25 * q + 25) \div 25 = q + 1 /\ (25 * q + 25) % 25 = 0
           /\ k < 25 => (25 * q + k) \div 25 = q
  OBVIOUS

LEMMA HeaderAndFooter ==
    ASSUME NEW frame \in Frames
    PROVE  /\ OnTheWire[frame] = [k \in 1..25 |-> OnTheWire[frame][k]]
           /\ OnTheWire[frame][1] = 15 /\ OnTheWire[frame][25] = 0
  <1>1. OnTheWire[frame] = Packed(frame)
    BY DEF OnTheWire
  <1>2. /\ Packed(frame) = [k \in 1..25 |-> Packed(frame)[k]]
        /\ Packed(frame)[1] = 15 /\ Packed(frame)[25] = 0
    BY DEF Packed, kSbusFrameBytes
  <1> QED BY <1>1, <1>2

LEMMA ByteAt ==
    ASSUME NEW q \in Nat, NEW k \in 1..25
    PROVE  Byte(25 * q + k) = OnTheWire[sent[q + 1]][k]
  <1>1. (25 * q + k - 1) \div 25 = q /\ ((25 * q + k - 1) % 25) + 1 = k
    BY Places
  <1> QED BY <1>1 DEF Byte, kSbusFrameBytes

Wire == {Byte(n) : n \in 1..MaxFrames * kSbusFrameBytes}
FramesRead == [at : Nat, frame : {decodeFrame(bytes) : bytes \in Seq(Wire)}]

SbusTypes ==
    /\ sent \in [1..MaxFrames -> Frames]
    /\ consumed \in 0..MaxFrames * 25
    /\ raw \in Seq(Wire)
    /\ received \in Seq(FramesRead)
    /\ cut \subseteq 1..MaxFrames /\ lost \subseteq 1..MaxFrames

(***************************************************************************)
(* What the reader has of a frame are the last bytes of the line, whether  *)
(* a frame begins there or not.                                            *)
(***************************************************************************)
RawIsLast ==
    raw # <<>> =>
        /\ Len(raw) < 25 /\ Len(raw) =< consumed
        /\ raw[1] = 15
        /\ \A k \in 1..Len(raw) : raw[k] = Byte(consumed - Len(raw) + k)

(* What was returned, frame by frame, lies before that on the line.        *)
IsCut(r, upto) ==
    /\ r.at >= 25 /\ r.at =< upto
    /\ r.frame.raw = [k \in 1..25 |-> Byte(r.at - 25 + k)]
    /\ r.frame.raw[1] = 15 /\ r.frame.raw[25] = 0

Successive(rs) == \A i \in 1..Len(rs) : i > 1 => rs[i].at >= rs[i - 1].at + 25

CutBefore ==
    /\ \A i \in 1..Len(received) : IsCut(received[i], consumed - Len(raw))
    /\ Successive(received)

(* A frame that is over was returned; one that is not is being read from   *)
(* its first byte on: but for those cut off or lost.                       *)
Kept(q) == q \notin cut /\ q \notin lost

Caught == \A q \in 1..MaxFrames : 25 * q =< consumed /\ Kept(q) =>
              \E i \in 1..Len(received) : received[i].at = 25 * q

Current == \A q \in 1..MaxFrames : 25 * (q - 1) < consumed /\ consumed < 25 * q /\ Kept(q) =>
              Len(raw) = consumed - 25 * (q - 1)

CutBegun == \A q \in cut : 25 * (q - 1) < consumed

(* In step with the frames, the reader begins where a frame begins.        *)
Steady ==
    /\ lost = {}
    /\ \A i \in 1..Len(received) :
          \E p \in 1..MaxFrames : received[i].at = 25 * p /\ p \notin cut
    /\ raw # <<>> =>
          \E p \in 1..MaxFrames : 25 * (p - 1) = consumed - Len(raw) /\ p \notin cut

SbusInv ==
    /\ SbusTypes /\ RawIsLast /\ CutBefore
    /\ Caught /\ Current /\ CutBegun
    /\ InStep => Steady

LEMMA AtIsNat ==
    ASSUME SbusTypes, NEW i \in 1..Len(received)
    PROVE  received[i].at \in Nat
  <1>1. received[i] \in FramesRead
    BY DEF SbusTypes
  <1> QED BY <1>1 DEF FramesRead

LEMMA CutUpTo ==
    ASSUME NEW r, NEW upto, IsCut(r, upto)
    PROVE  r.at =< upto
  BY DEF IsCut

LEMMA CutLater ==
    ASSUME NEW r, NEW from, NEW upto, IsCut(r, from), r.at =< upto
    PROVE  IsCut(r, upto)
  BY DEF IsCut

LEMMA SbusInvInit == SbusInit => SbusInv
  <1> SUFFICES ASSUME SbusInit PROVE SbusInv
    OBVIOUS
  <1>1. SbusTypes
    <2>1. consumed \in 0..MaxFrames * 25
      BY SbusAssumption DEF SbusInit
    <2>2. raw \in Seq(Wire) /\ received \in Seq(FramesRead)
      BY DEF SbusInit
    <2> QED BY <2>1, <2>2 DEF SbusInit, SbusTypes
  <1>2. raw = <<>> /\ consumed = 0 /\ Len(received) = 0 /\ cut = {} /\ lost = {}
    BY DEF SbusInit
  <1>3. RawIsLast /\ CutBefore /\ CutBegun /\ Steady
    BY <1>2 DEF RawIsLast, CutBefore, Successive, CutBegun, Steady
  <1>4. Caught /\ Current
    BY <1>2, SbusAssumption DEF Caught, Current
  <1> QED BY <1>1, <1>3, <1>4 DEF SbusInv

(* The header and the footer of the p-th frame on the line.                *)
LEMMA FrameEnds ==
    ASSUME SbusTypes, NEW p \in 1..MaxFrames
    PROVE  Byte(25 * (p - 1) + 1) = 15 /\ Byte(25 * p) = 0
  <1> USE SbusAssumption
  <1>1. PICK q \in Nat : q = p - 1 /\ q + 1 = p
    OBVIOUS
  <1>2. sent[q + 1] \in Frames
    BY <1>1 DEF SbusTypes
  <1>3. Byte(25 * q + 1) = 15 /\ Byte(25 * q + 25) = 0
    <2>1. Byte(25 * q + 1) = OnTheWire[sent[q + 1]][1]
      BY ByteAt
    <2>2. Byte(25 * q + 25) = OnTheWire[sent[q + 1]][25]
      BY ByteAt
    <2> QED BY <1>2, <2>1, <2>2, HeaderAndFooter
  <1>4. 25 * q + 25 = 25 * p
    BY <1>1
  <1> QED BY <1>1, <1>3, <1>4

(* A byte of a frame in which nothing looks like a header.                 *)
LEMMA NoOtherHeader ==
    ASSUME SbusTypes, NEW p \in 1..MaxFrames, NEW k \in 2..25,
           \A i \in DOMAIN sent : Unmistakable(sent[i])
    PROVE  Byte(25 * (p - 1) + k) # 15
  <1> USE SbusAssumption
  <1>1. PICK q \in Nat : q = p - 1 /\ q + 1 = p
    OBVIOUS
  <1>2. Byte(25 * q + k) = OnTheWire[sent[q + 1]][k]
    BY ByteAt
  <1>3. Unmistakable(sent[q + 1])
    BY <1>1 DEF SbusTypes
  <1> QED BY <1>1, <1>2, <1>3 DEF Unmistakable, kSbusFrameBytes

(* Where on the line the byte after the first n is.                        *)
LEMMA NextByte ==
    ASSUME NEW n \in 0..MaxFrames * 25 - 1
    PROVE  \E p \in 1..MaxFrames, k \in 1..25 : n + 1 = 25 * (p - 1) + k
  <1> USE SbusAssumption
  <1>1. n \div 25 \in Nat /\ (n % 25) + 1 \in 1..25 /\ n + 1 = 25 * (n \div 25) + ((n % 25) + 1)
    OBVIOUS
  <1>2. PICK q \in Nat, k \in 1..25 : q = n \div 25 /\ k = (n % 25) + 1 /\ n + 1 = 25 * q + k
    BY <1>1
  <1>3. q + 1 \in 1..MaxFrames /\ n + 1 = 25 * ((q + 1) - 1) + k
    BY <1>2
  <1> QED BY <1>3

LEMMA SearchesKeepsInv == SbusInv /\ Searches => SbusInv'
  <1> SUFFICES ASSUME SbusInv, Searches PROVE SbusInv'
    OBVIOUS
  <1> USE SbusAssumption
  <1>0. SbusTypes
    BY DEF SbusInv
  <1>1. PICK n \in Nat : n = consumed /\ n \in 0..MaxFrames * 25 - 1
    BY <1>0 DEF SbusTypes, Searches, kSbusFrameBytes
  <1>2. /\ raw = <<>> /\ consumed' = n + 1 /\ n + 1 \in 1..MaxFrames * 25
        /\ raw' = IF Byte(n + 1) = 15 THEN <<15>> ELSE <<>>
        /\ UNCHANGED <<sent, received, cut, lost>>
    BY <1>1 DEF Searches
  <1>3. Wire' = Wire /\ FramesRead' = FramesRead /\ Byte(n + 1) \in Wire
        /\ \A m : Byte(m)' = Byte(m)
    BY <1>2 DEF Wire, FramesRead, Byte, kSbusFrameBytes
  <1>4. SbusTypes'
    <2>1. raw' \in Seq(Wire)
      BY <1>2, <1>3
    <2>2. consumed' \in 0..MaxFrames * 25
      BY <1>2
    <2> QED BY <1>2, <1>3, <2>1, <2>2 DEF SbusInv, SbusTypes
  <1>5. PICK l \in 0..1 : Len(raw') = l /\ (l = 1 <=> Byte(n + 1) = 15) /\ (l = 1 <=> raw' # <<>>)
    BY <1>2
  <1>6. RawIsLast'
    <2>1. CASE Byte(n + 1) = 15
      <3>1. raw' = <<15>> /\ Len(raw') = 1 /\ raw'[1] = 15
        BY <1>2, <2>1
      <3>2. consumed' - Len(raw') + 1 = n + 1 /\ Len(raw') < 25 /\ Len(raw') =< consumed'
        BY <1>2, <3>1
      <3>3. raw'[1] = Byte(n + 1)'
        BY <1>3, <2>1, <3>1
      <3>4. ASSUME NEW k \in 1..Len(raw') PROVE raw'[k] = Byte(consumed - Len(raw) + k)'
        <4>1. k = 1
          BY <3>1
        <4> QED BY <3>2, <3>3, <4>1
      <3> QED BY <3>1, <3>2, <3>4 DEF RawIsLast
    <2>2. CASE Byte(n + 1) # 15
      BY <1>2, <2>2 DEF RawIsLast
    <2> QED BY <2>1, <2>2
  <1>7. CutBefore'
    <2>1. ASSUME NEW i \in 1..Len(received) PROVE IsCut(received[i], consumed - Len(raw))'
      <3>1. IsCut(received[i], consumed - Len(raw)) /\ Len(raw) = 0
        BY <1>2 DEF SbusInv, CutBefore
      <3>2. received[i].at \in Nat /\ received[i].at =< consumed - Len(raw)
        BY <1>0, <3>1, AtIsNat, CutUpTo
      <3>3. received[i].at =< consumed' - Len(raw')
        BY <1>1, <1>2, <1>5, <3>1, <3>2
      <3> QED BY <1>2, <1>3, <3>1, <3>3 DEF IsCut
    <2> QED BY <1>2, <2>1 DEF SbusInv, CutBefore, Successive
  <1>8. ASSUME NEW q \in 1..MaxFrames, 25 * (q - 1) < n, n < 25 * q PROVE ~Kept(q)
    <2>1. Kept(q) => 0 = n - 25 * (q - 1)
      BY <1>1, <1>2, <1>8 DEF SbusInv, Current
    <2> QED BY <1>1, <1>8, <2>1
  <1>9. Caught'
    <2> SUFFICES ASSUME NEW q \in 1..MaxFrames, 25 * q =< n + 1, Kept(q)
                 PROVE  \E i \in 1..Len(received) : received[i].at = 25 * q
      BY <1>2 DEF Caught, Kept
    <2>1. CASE 25 * q =< n
      BY <1>1, <2>1 DEF SbusInv, Caught
    <2>2. CASE 25 * q > n
      <3>1. 25 * (q - 1) < n /\ n < 25 * q
        BY <1>1, <2>2
      <3> QED BY <1>8, <3>1
    <2> QED BY <1>1, <2>1, <2>2
  <1>10. Current'
    <2> SUFFICES ASSUME NEW q \in 1..MaxFrames, 25 * (q - 1) < n + 1, n + 1 < 25 * q, Kept(q)
                 PROVE  l = n + 1 - 25 * (q - 1)
      BY <1>2, <1>5 DEF Current, Kept
    <2>1. n = 25 * (q - 1)
      <3> SUFFICES ASSUME 25 * (q - 1) # n PROVE FALSE
        OBVIOUS
      <3>1. 25 * (q - 1) < n /\ n < 25 * q
        BY <1>1
      <3> QED BY <1>8, <3>1
    <2>2. Byte(n + 1) = 15
      BY <1>0, <2>1, FrameEnds
    <2> QED BY <1>5, <2>1, <2>2
  <1>11. CutBegun'
    <2>1. ASSUME NEW q \in cut PROVE 25 * (q - 1) < n + 1
      <3>1. 25 * (q - 1) < n /\ q \in 1..MaxFrames
        BY <1>0, <1>1 DEF SbusInv, CutBegun, SbusTypes
      <3> QED BY <1>1, <3>1
    <2> QED BY <1>2, <2>1 DEF CutBegun
  <1>12. ASSUME InStep' PROVE Steady'
    <2>1. InStep /\ Steady
      BY <1>2, <1>12 DEF InStep, Unmistakable, SbusInv
    <2>2. ASSUME raw' # <<>>
          PROVE  \E p \in 1..MaxFrames : 25 * (p - 1) = n /\ p \notin cut
      <3>1. PICK p \in 1..MaxFrames, k \in 1..25 : n + 1 = 25 * (p - 1) + k
        BY <1>1, NextByte
      <3>2. CASE k = 1
        <4>1. 25 * (p - 1) = n
          BY <1>1, <3>1, <3>2
        <4>2. p \notin cut
          <5>1. p \in cut => 25 * (p - 1) < n
            BY <1>1 DEF SbusInv, CutBegun
          <5> QED BY <1>1, <4>1, <5>1
        <4> QED BY <4>1, <4>2
      <3>3. CASE k # 1
        <4>1. 25 * (p - 1) < n /\ n < 25 * p
          BY <1>1, <3>1, <3>3
        <4>2. p \in cut
          BY <1>8, <2>1, <4>1 DEF Kept, Steady
        <4>3. \A i \in DOMAIN sent : Unmistakable(sent[i])
          BY <2>1, <4>2 DEF InStep
        <4>4. k \in 2..25
          BY <3>3
        <4>5. Byte(n + 1) # 15
          BY <1>0, <3>1, <4>3, <4>4, NoOtherHeader
        <4> QED BY <1>2, <2>2, <4>5
      <3> QED BY <3>2, <3>3
    <2>3. raw' # <<>> => n = consumed' - Len(raw')
      BY <1>1, <1>2, <1>5
    <2> QED BY <1>2, <2>1, <2>2, <2>3 DEF Steady
  <1> QED BY <1>4, <1>6, <1>7, <1>9, <1>10, <1>11, <1>12 DEF SbusInv

(***************************************************************************)
(* What a piece leaves, whether it completes the 25 bytes or not: l bytes  *)
(* were there, n have come, b is where they begin.                         *)
(***************************************************************************)
Within(n, l, c, b) ==
    /\ l \in 1..24 /\ l + n \in 2..25 /\ b \in Nat
    /\ c = b + l /\ b + (l + n) =< MaxFrames * 25

LastBytes(bytes, n, l, b) ==
    /\ bytes \in Seq(Wire) /\ Len(bytes) = l + n /\ bytes[1] = 15
    /\ \A k \in 1..l + n : bytes[k] = Byte(b + k)

LEMMA LengthsFit ==
    ASSUME NEW l \in Nat, NEW c \in Nat, NEW b \in Int, NEW n \in 1..25, b = c - l,
           l # 0, l < 25, l =< c, n =< 25 - l
    PROVE  l \in 1..24 /\ b \in Nat /\ l + n \in 2..25 /\ c = b + l
  OBVIOUS

LEMMA Behind ==
    ASSUME NEW S, NEW s \in Seq(S), NEW t \in Seq(S),
           NEW k \in 1..Len(s) + Len(t), k > Len(s)
    PROVE  (s \o t)[k] = t[k - Len(s)]
  OBVIOUS

LEMMA ByElement ==
    ASSUME NEW S, NEW s \in Seq(S), Len(s) = 25
    PROVE  s = [k \in 1..25 |-> s[k]]
  OBVIOUS

LEMMA PieceIsLast ==
    ASSUME SbusInv, NEW n \in 1..25, ReadsRest(n),
           NEW l \in Nat, l = Len(raw), NEW c \in Nat, c = consumed, NEW b \in Int, b = c - l,
           NEW bytes, bytes = raw \o Piece(n)
    PROVE  /\ Within(n, l, c, b) /\ consumed' = b + (l + n)
           /\ LastBytes(bytes, n, l, b)
  <1> USE SbusAssumption
  <1>1. raw # <<>> /\ n =< 25 - l /\ c + n =< MaxFrames * 25 /\ consumed' = c + n
    BY DEF ReadsRest, kSbusFrameBytes
  <1>2. raw \in Seq(Wire)
    BY DEF SbusInv, SbusTypes
  <1>3. l # 0 /\ l < 25 /\ l =< c /\ raw[1] = 15
    <2>1. Len(raw) # 0
      BY <1>1, <1>2
    <2>2. Len(raw) < 25 /\ Len(raw) =< consumed /\ raw[1] = 15
      BY <1>1 DEF SbusInv, RawIsLast
    <2> QED BY <2>1, <2>2
  <1>4. l \in 1..24 /\ b \in Nat /\ l + n \in 2..25 /\ c = b + l
    BY <1>1, <1>3, LengthsFit
  <1>5. consumed' = b + (l + n) /\ b + (l + n) =< MaxFrames * 25
    BY <1>1, <1>4
  <1>6. Piece(n) \in Seq(Wire) /\ Len(Piece(n)) = n /\ \A k \in 1..n : Piece(n)[k] = Byte(c + k)
    <2>1. ASSUME NEW k \in 1..n PROVE Byte(c + k) \in Wire
      <3>1. c + k \in 1..MaxFrames * 25
        BY <1>1
      <3> QED BY <3>1 DEF Wire, kSbusFrameBytes
    <2>2. Piece(n) = [k \in 1..n |-> Byte(c + k)]
      BY DEF Piece
    <2> QED BY <2>1, <2>2
  <1>7. bytes \in Seq(Wire) /\ Len(bytes) = l + n /\ bytes[1] = 15
    BY <1>2, <1>3, <1>6
  <1>8. ASSUME NEW k \in 1..l + n PROVE bytes[k] = Byte(b + k)
    <2>1. CASE k =< l
      <3>1. k \in 1..Len(raw) /\ bytes[k] = raw[k]
        BY <2>1, <1>2, <1>6
      <3>2. raw[k] = Byte(consumed - Len(raw) + k)
        BY <1>1, <3>1 DEF SbusInv, RawIsLast
      <3> QED BY <3>1, <3>2
    <2>2. CASE k > l
      <3>1. k - l \in 1..n
        BY <2>2
      <3>2. bytes[k] = Piece(n)[k - l]
        BY <2>2, <1>2, <1>6, Behind
      <3>3. Piece(n)[k - l] = Byte(c + (k - l))
        BY <3>1, <1>6
      <3>4. c + (k - l) = b + k
        OBVIOUS
      <3> QED BY <3>2, <3>3, <3>4
    <2>3. k =< l \/ k > l
      OBVIOUS
    <2> QED BY <2>1, <2>2, <2>3
  <1> QED BY <1>4, <1>5, <1>7, <1>8 DEF Within, LastBytes

LEMMA ReadsRestKeepsInv ==
    ASSUME SbusInv, NEW n \in 1..kSbusFrameBytes, ReadsRest(n)
    PROVE  SbusInv'
  <1> USE SbusAssumption
  <1>0. SbusTypes
    BY DEF SbusInv
  <1>l. PICK l \in Nat, c \in Nat : l = Len(raw) /\ c = consumed
    BY <1>0 DEF SbusTypes
  <1>b. PICK b \in Int : b = c - l
    OBVIOUS
  <1>y. PICK bytes : bytes = raw \o Piece(n)
    OBVIOUS
  <1>1. l = Len(raw) /\ c = consumed /\ b = consumed - l /\ b = c - l /\ bytes = raw \o Piece(n)
    BY <1>l, <1>b, <1>y
  <1>n. n \in 1..25
    BY DEF kSbusFrameBytes
  <1>p. Within(n, l, c, b) /\ consumed' = b + (l + n) /\ LastBytes(bytes, n, l, b)
    BY <1>1, <1>n, PieceIsLast, Zenon
  <1>2. /\ l \in 1..24 /\ l + n \in 2..25 /\ b \in Nat
        /\ c = b + l /\ consumed' = b + (l + n) /\ b + (l + n) =< MaxFrames * 25
    BY <1>p DEF Within
  <1>s. /\ bytes \in Seq(Wire) /\ Len(bytes) = l + n /\ bytes[1] = 15
        /\ \A k \in 1..l + n : bytes[k] = Byte(b + k)
    BY <1>p DEF LastBytes
  <1>3. n \in 1..25 /\ c \in Nat
    BY <1>n
  <1>4. /\ UNCHANGED <<sent, cut>> /\ lost' = lost \cup BeginWithin(n) /\ raw # <<>>
        /\ IF l + n < 25
           THEN raw' = bytes /\ UNCHANGED received
           ELSE /\ raw' = <<>>
                /\ received' = IF bytes[25] # 0 THEN received
                               ELSE Append(received, [at |-> consumed', frame |-> decodeFrame(bytes)])
    BY <1>1, <1>s DEF ReadsRest, kSbusFrameBytes
  <1>5. Wire' = Wire /\ FramesRead' = FramesRead /\ \A m : Byte(m)' = Byte(m)
    BY <1>4 DEF Wire, FramesRead, Byte, kSbusFrameBytes
  <1>6. ASSUME NEW q \in 1..MaxFrames, c =< 25 * (q - 1), 25 * (q - 1) < b + (l + n)
        PROVE  q \in lost'
    <2>1. 25 * (q - 1) \in c..c + n - 1
      BY <1>2, <1>3, <1>6
    <2>2. q \in BeginWithin(n)
      BY <1>1, <2>1 DEF BeginWithin, kSbusFrameBytes
    <2> QED BY <1>4, <2>2
  <1>7. ASSUME NEW q \in 1..MaxFrames, 25 * (q - 1) < b + (l + n), c < 25 * q, Kept(q)'
        PROVE  b = 25 * (q - 1)
    <2>1. 25 * (q - 1) < c
      BY <1>3, <1>6, <1>7 DEF Kept
    <2>2. Kept(q)
      BY <1>4, <1>7 DEF Kept
    <2>3. l = c - 25 * (q - 1)
      BY <1>1, <1>7, <2>1, <2>2 DEF SbusInv, Current
    <2> QED BY <1>2, <1>3, <2>3
  <1>8. lost' \subseteq 1..MaxFrames /\ consumed' \in 0..MaxFrames * 25
    <2>1. consumed' \in 0..MaxFrames * 25
      BY <1>2
    <2> QED BY <1>0, <1>4, <2>1 DEF BeginWithin, SbusTypes
  <1>9. CutBegun'
    <2>1. ASSUME NEW q \in cut PROVE 25 * (q - 1) < b + (l + n)
      <3>1. 25 * (q - 1) < c /\ q \in 1..MaxFrames
        BY <1>0, <1>1 DEF SbusInv, CutBegun, SbusTypes
      <3> QED BY <1>2, <1>3, <3>1
    <2> QED BY <1>2, <1>4, <2>1 DEF CutBegun
  <1>10. ASSUME InStep'
         PROVE  /\ Steady /\ lost' = {}
                /\ \E p \in 1..MaxFrames : 25 * (p - 1) = b /\ p \notin cut
    <2>1. Steady
      BY <1>4, <1>10 DEF InStep, Unmistakable, SbusInv
    <2>2. PICK p \in 1..MaxFrames : 25 * (p - 1) = b /\ p \notin cut
      BY <1>1, <1>4, <2>1 DEF Steady
    <2>3. ASSUME NEW q \in BeginWithin(n) PROVE FALSE
      <3>1. q \in 1..MaxFrames /\ c =< 25 * (q - 1) /\ 25 * (q - 1) =< c + n - 1
        BY <1>1, <1>3, <2>3 DEF BeginWithin, kSbusFrameBytes
      <3>2. 25 * (p - 1) < 25 * (q - 1) /\ 25 * (q - 1) < 25 * (p - 1) + 25
        BY <1>2, <1>3, <2>2, <3>1
      <3> QED BY <2>2, <3>1, <3>2
    <2>4. lost' = {}
      BY <1>4, <2>1, <2>3 DEF Steady
    <2> QED BY <2>1, <2>2, <2>4
  <1>11. ASSUME NEW r, NEW upto, IsCut(r, upto) PROVE IsCut(r, upto)'
    BY <1>5, <1>11 DEF IsCut
  <1>12. PICK m \in Nat : m = Len(received)
    BY <1>0 DEF SbusTypes
  <1>13. ASSUME NEW i \in 1..m
         PROVE  IsCut(received[i], b) /\ received[i].at \in Nat /\ received[i].at =< b
    <2>1. IsCut(received[i], consumed - Len(raw))
      BY <1>12 DEF SbusInv, CutBefore
    <2> QED BY <1>0, <1>1, <1>12, <2>1, AtIsNat, CutUpTo
  <1>14. CASE l + n < 25
    <2>1. raw' = bytes /\ received' = received /\ consumed' - Len(raw') = b
      BY <1>2, <1>4, <1>14, <1>s
    <2>2. SbusTypes'
      BY <1>0, <1>4, <1>5, <1>8, <1>s, <2>1 DEF SbusTypes
    <2>3. RawIsLast'
      <3>1. /\ Len(raw') < 25 /\ Len(raw') =< consumed' /\ raw'[1] = 15
            /\ Len(raw') = l + n
        BY <1>2, <1>14, <1>s, <2>1
      <3>2. ASSUME NEW k \in 1..l + n PROVE raw'[k] = Byte(b + k)'
        BY <1>5, <1>s, <2>1
      <3> QED BY <2>1, <3>1, <3>2 DEF RawIsLast
    <2>4. CutBefore'
      <3>1. ASSUME NEW i \in 1..m PROVE IsCut(received[i], consumed - Len(raw))'
        <4>1. PICK r : r = received[i] /\ r = received'[i]
          BY <2>1
        <4>2. IsCut(r, b)
          BY <1>13, <4>1
        <4>3. IsCut(r, b)'
          BY <1>11, <4>2
        <4> QED BY <2>1, <4>1, <4>3
      <3> QED BY <1>12, <2>1, <3>1 DEF SbusInv, CutBefore, Successive
    <2>5. Caught'
      <3> SUFFICES ASSUME NEW q \in 1..MaxFrames, 25 * q =< b + (l + n), Kept(q)'
                   PROVE  \E i \in 1..Len(received) : received[i].at = 25 * q
        BY <1>2, <2>1 DEF Caught
      <3>1. CASE 25 * q =< c
        BY <1>1, <1>4, <3>1 DEF SbusInv, Caught, Kept
      <3>2. CASE 25 * q > c
        <4>1. 25 * (q - 1) < b + (l + n) /\ c < 25 * q
          BY <1>2, <1>3, <3>2
        <4>2. b = 25 * (q - 1)
          BY <1>7, <4>1
        <4> QED BY <1>2, <1>14, <4>2
      <3> QED BY <1>3, <3>1, <3>2
    <2>6. Current'
      <3> SUFFICES ASSUME NEW q \in 1..MaxFrames, 25 * (q - 1) < b + (l + n),
                          b + (l + n) < 25 * q, Kept(q)'
                   PROVE  l + n = b + (l + n) - 25 * (q - 1)
        BY <1>2, <1>s, <2>1 DEF Current
      <3>1. c < 25 * q
        BY <1>2, <1>3
      <3>2. b = 25 * (q - 1)
        BY <1>7, <3>1
      <3> QED BY <1>2, <1>3, <3>2
    <2>7. ASSUME InStep' PROVE Steady'
      BY <1>4, <1>10, <2>1, <2>7 DEF Steady
    <2> QED BY <1>9, <2>2, <2>3, <2>4, <2>5, <2>6, <2>7 DEF SbusInv
  <1>15. CASE l + n = 25
    <2>1. raw' = <<>> /\ consumed' = b + 25 /\ consumed' - Len(raw') = b + 25 /\ b + 25 \in Nat
      BY <1>2, <1>4, <1>15
    <2>2. PICK rec : rec = [at |-> b + 25, frame |-> decodeFrame(bytes)]
      OBVIOUS
    <2>3. rec.at = b + 25 /\ rec.frame.raw = bytes /\ rec \in FramesRead
      BY <1>s, <2>1, <2>2 DEF decodeFrame, FramesRead
    <2>4. received' = IF bytes[25] # 0 THEN received ELSE Append(received, rec)
      BY <1>4, <1>15, <2>1, <2>2
    <2>5. received' \in Seq(FramesRead)
      BY <1>0, <2>3, <2>4 DEF SbusTypes
    <2>6. ASSUME NEW i \in 1..m PROVE i \in 1..Len(received') /\ received'[i] = received[i]
      BY <1>0, <1>12, <2>3, <2>4 DEF SbusTypes
    <2>7. ASSUME NEW i \in 1..Len(received'), i \notin 1..m
          PROVE  i = m + 1 /\ received'[i] = rec /\ bytes[25] = 0
      BY <1>0, <1>12, <2>3, <2>4, <2>7 DEF SbusTypes
    <2>8. bytes[25] = 0 => m + 1 \in 1..Len(received') /\ received'[m + 1] = rec
      BY <1>0, <1>12, <2>3, <2>4 DEF SbusTypes
    <2>9. SbusTypes'
      BY <1>0, <1>4, <1>5, <1>8, <2>1, <2>5 DEF SbusTypes
    <2>10. RawIsLast'
      BY <2>1 DEF RawIsLast
    <2>11. bytes[25] = 0 => IsCut(rec, b + 25)'
      <3>1. bytes = [k \in 1..25 |-> Byte(b + 25 - 25 + k)']
        <4>1. bytes = [k \in 1..25 |-> bytes[k]]
          BY <1>15, <1>s, ByElement
        <4>2. ASSUME NEW k \in 1..25 PROVE bytes[k] = Byte(b + 25 - 25 + k)'
          <5>1. b + 25 - 25 + k = b + k
            BY <1>2
          <5> QED BY <1>5, <1>15, <1>s, <5>1
        <4> QED BY <4>1, <4>2
      <3>2. b + 25 >= 25 /\ b + 25 =< b + 25
        BY <1>2
      <3> QED BY <1>s, <2>3, <3>1, <3>2 DEF IsCut
    <2>12. CutBefore'
      <3>1. ASSUME NEW i \in 1..Len(received') PROVE IsCut(received[i], consumed - Len(raw))'
        <4>1. CASE i \in 1..m
          <5>1. PICK r : r = received[i] /\ r = received'[i]
            BY <2>6, <4>1
          <5>2. IsCut(r, b + 25)
            <6>1. IsCut(r, b) /\ r.at \in Nat /\ r.at =< b
              BY <1>13, <4>1, <5>1
            <6>2. r.at =< b + 25
              BY <6>1
            <6> QED BY <6>1, <6>2, CutLater
          <5>3. IsCut(r, b + 25)'
            BY <1>11, <5>2
          <5> QED BY <2>1, <5>1, <5>3
        <4>2. CASE i \notin 1..m
          BY <2>1, <2>7, <2>11, <4>2
        <4> QED BY <4>1, <4>2
      <3>2. ASSUME NEW i \in 1..Len(received'), i > 1
            PROVE  received'[i].at >= received'[i - 1].at + 25
        <4>1. CASE i \in 1..m
          <5>1. i - 1 \in 1..m
            BY <3>2, <4>1
          <5>2. received[i].at >= received[i - 1].at + 25
            BY <1>12, <3>2, <4>1 DEF SbusInv, CutBefore, Successive
          <5> QED BY <2>6, <4>1, <5>1, <5>2
        <4>2. CASE i \notin 1..m
          <5>1. i = m + 1 /\ received'[i] = rec
            BY <2>7, <4>2
          <5>2. i - 1 \in 1..m
            BY <3>2, <5>1
          <5>3. received[i - 1].at =< b /\ received[i - 1].at \in Nat
            BY <1>13, <5>2
          <5>4. received'[i - 1] = received[i - 1]
            BY <2>6, <5>2
          <5>5. PICK x \in Nat : x = received[i - 1].at /\ x =< b
            BY <5>3
          <5>6. received'[i].at = b + 25 /\ received'[i - 1].at = x
            BY <2>3, <5>1, <5>4, <5>5
          <5>7. b + 25 >= x + 25
            BY <5>5
          <5> QED BY <5>6, <5>7
        <4> QED BY <4>1, <4>2
      <3> QED BY <3>1, <3>2 DEF CutBefore, Successive
    <2>13. Caught'
      <3> SUFFICES ASSUME NEW q \in 1..MaxFrames, 25 * q =< b + 25, Kept(q)'
                   PROVE  \E i \in 1..Len(received') : received'[i].at = 25 * q
        BY <2>1 DEF Caught
      <3>1. CASE 25 * q =< c
        <4>1. PICK i \in 1..m : received[i].at = 25 * q
          BY <1>1, <1>4, <1>12, <3>1 DEF SbusInv, Caught, Kept
        <4> QED BY <2>6, <4>1
      <3>2. CASE 25 * q > c
        <4>1. 25 * (q - 1) < b + (l + n) /\ c < 25 * q
          BY <1>2, <1>3, <1>15, <3>2
        <4>2. b = 25 * (q - 1)
          BY <1>7, <4>1
        <4>3. b + 25 = 25 * q
          BY <1>2, <4>2
        <4>4. bytes[25] = Byte(b + 25)
          BY <1>15, <1>s
        <4>5. bytes[25] = 0
          BY <1>0, <4>3, <4>4, FrameEnds
        <4> QED BY <2>3, <2>8, <4>3, <4>5
      <3> QED BY <1>3, <3>1, <3>2
    <2>14. Current'
      <3> SUFFICES ASSUME NEW q \in 1..MaxFrames, 25 * (q - 1) < b + 25, b + 25 < 25 * q, Kept(q)'
                   PROVE  FALSE
        BY <2>1 DEF Current
      <3>1. c < 25 * q /\ 25 * (q - 1) < b + (l + n)
        BY <1>2, <1>3, <1>15
      <3>2. b = 25 * (q - 1)
        BY <1>7, <3>1
      <3> QED BY <1>2, <3>2
    <2>15. ASSUME InStep' PROVE Steady'
      <3>1. PICK p \in 1..MaxFrames : 25 * (p - 1) = b /\ p \notin cut
        BY <1>10, <2>15
      <3>2. rec.at = 25 * p
        BY <1>2, <2>3, <3>1
      <3>3. ASSUME NEW i \in 1..Len(received')
            PROVE  \E o \in 1..MaxFrames : received'[i].at = 25 * o /\ o \notin cut
        <4>1. CASE i \in 1..m
          BY <1>10, <1>12, <2>6, <2>15, <4>1 DEF Steady
        <4>2. CASE i \notin 1..m
          BY <2>7, <3>1, <3>2, <4>2
        <4> QED BY <4>1, <4>2
      <3> QED BY <1>4, <1>10, <2>1, <2>15, <3>3 DEF Steady
    <2> QED BY <1>9, <2>9, <2>10, <2>12, <2>13, <2>14, <2>15 DEF SbusInv
  <1> QED BY <1>2, <1>14, <1>15

LEMMA GivesUpKeepsInv == SbusInv /\ GivesUp => SbusInv'
  <1> SUFFICES ASSUME SbusInv, GivesUp PROVE SbusInv'
    OBVIOUS
  <1> USE SbusAssumption
  <1>0. SbusTypes
    BY DEF SbusInv
  <1>1. PICK l \in Nat, c \in Nat : l = Len(raw) /\ c = consumed
    BY <1>0 DEF SbusTypes
  <1>2. l \in 1..24 /\ c \in Nat /\ l =< c /\ c \in 1..MaxFrames * 25
    <2>1. raw # <<>> /\ raw \in Seq(Wire) /\ Len(raw) \in Nat /\ Len(raw) # 0
      BY <1>0 DEF SbusTypes, GivesUp
    <2>2. Len(raw) < 25 /\ Len(raw) =< consumed
      BY <2>1 DEF SbusInv, RawIsLast
    <2>3. c =< MaxFrames * 25
      BY <1>0, <1>1 DEF SbusTypes
    <2>4. l # 0 /\ l < 25 /\ l =< c
      BY <1>1, <2>1, <2>2
    <2> QED BY <2>3, <2>4
  <1>3. PICK g \in 1..MaxFrames : /\ g = (c - 1) \div 25 + 1
                                  /\ 25 * (g - 1) < c /\ c =< 25 * g
    <2>1. PICK p \in 1..MaxFrames, k \in 1..25 : (c - 1) + 1 = 25 * (p - 1) + k
      <3>1. c - 1 \in 0..MaxFrames * 25 - 1
        BY <1>2
      <3> QED BY <3>1, NextByte
    <2>2. PICK q \in Nat : q = p - 1
      OBVIOUS
    <2>3. (25 * q + k - 1) \div 25 = q /\ c - 1 = 25 * q + k - 1
      BY <1>2, <2>1, <2>2, Places
    <2>4. p = (c - 1) \div 25 + 1
      BY <2>2, <2>3
    <2> QED BY <1>2, <2>1, <2>4
  <1>4. raw' = <<>> /\ cut' = cut \cup {g} /\ UNCHANGED <<sent, consumed, received, lost>>
    BY <1>1, <1>3 DEF GivesUp, kSbusFrameBytes
  <1>5. Wire' = Wire /\ FramesRead' = FramesRead /\ \A m : Byte(m)' = Byte(m)
    BY <1>4 DEF Wire, FramesRead, Byte, kSbusFrameBytes
  <1>6. SbusTypes' /\ RawIsLast'
    BY <1>0, <1>4, <1>5 DEF SbusTypes, RawIsLast
  <1>7. ASSUME NEW i \in 1..Len(received)
        PROVE  /\ IsCut(received[i], consumed - Len(raw)) /\ received[i].at \in Nat
               /\ received[i].at =< c - l
    <2>1. IsCut(received[i], consumed - Len(raw))
      BY DEF SbusInv, CutBefore
    <2> QED BY <1>0, <1>1, <2>1, AtIsNat, CutUpTo
  <1>8. CutBefore'
    <2>1. ASSUME NEW i \in 1..Len(received) PROVE IsCut(received[i], consumed - Len(raw))'
      <3>1. received[i].at =< consumed' - Len(raw')
        BY <1>1, <1>2, <1>4, <1>7
      <3> QED BY <1>4, <1>5, <1>7, <3>1 DEF IsCut
    <2> QED BY <1>4, <2>1 DEF SbusInv, CutBefore, Successive
  <1>9. Caught'
    BY <1>4 DEF SbusInv, Caught, Kept
  <1>10. Current'
    <2> SUFFICES ASSUME NEW q \in 1..MaxFrames, 25 * (q - 1) < c, c < 25 * q, q \notin cut'
                 PROVE  FALSE
      BY <1>1, <1>4 DEF Current, Kept
    <2>1. q = g
      BY <1>2, <1>3
    <2> QED BY <1>4, <2>1
  <1>11. CutBegun'
    BY <1>1, <1>3, <1>4 DEF SbusInv, CutBegun
  <1>12. ASSUME InStep' PROVE Steady'
    <2>1. Steady
      BY <1>4, <1>12 DEF InStep, Unmistakable, SbusInv
    <2>2. ASSUME NEW i \in 1..Len(received)
          PROVE  \E p \in 1..MaxFrames : received[i].at = 25 * p /\ p \notin cut'
      <3>1. PICK p \in 1..MaxFrames : received[i].at = 25 * p /\ p \notin cut
        BY <2>1 DEF Steady
      <3>2. p # g
        BY <1>2, <1>3, <1>7, <3>1
      <3> QED BY <1>4, <3>1, <3>2
    <2> QED BY <1>4, <2>1, <2>2 DEF Steady
  <1> QED BY <1>6, <1>8, <1>9, <1>10, <1>11, <1>12 DEF SbusInv

LEMMA SbusInvImplies == SbusInv => FramesAreSent
  <1> SUFFICES ASSUME SbusInv PROVE FramesAreSent
    OBVIOUS
  <1> USE SbusAssumption
  <1>0. SbusTypes
    BY DEF SbusInv
  <1>1. consumed \in Nat /\ consumed =< MaxFrames * 25 /\ DOMAIN received = 1..Len(received)
        /\ Len(raw) \in Nat
    BY <1>0 DEF SbusTypes
  <1>2. ASSUME NEW i \in DOMAIN received
        PROVE  /\ CutFromTheLine(received[i])
               /\ i > 1 => received[i].at >= received[i - 1].at + 25
    <2>1. /\ IsCut(received[i], consumed - Len(raw)) /\ received[i].at \in Nat
          /\ received[i].at =< consumed - Len(raw)
      BY <1>0, <1>1, AtIsNat, CutUpTo DEF SbusInv, CutBefore
    <2>2. received[i].at >= 25
      BY <2>1 DEF IsCut
    <2>4. received[i].at \in 25..consumed
      BY <1>1, <2>1, <2>2
    <2>3. i > 1 => received[i].at >= received[i - 1].at + 25
      BY <1>1 DEF SbusInv, CutBefore, Successive
    <2> QED BY <2>1, <2>3, <2>4 DEF CutFromTheLine, IsCut, kSbusFrameBytes
  <1>3. ASSUME NEW q \in 1..consumed \div 25, q \notin cut \cup lost
        PROVE  \E i \in DOMAIN received : received[i].at = 25 * q
    <2>1. q \in 1..MaxFrames /\ 25 * q =< consumed
      BY <1>1
    <2> QED BY <1>1, <1>3, <2>1 DEF SbusInv, Caught, Kept
  <1>4. ASSUME InStep
        PROVE  /\ lost = {}
               /\ \A i \in DOMAIN received :
                     received[i].at % 25 = 0 /\ received[i].at \div 25 \notin cut
    <2>1. Steady
      BY <1>4 DEF SbusInv
    <2>2. ASSUME NEW i \in DOMAIN received
          PROVE  received[i].at % 25 = 0 /\ received[i].at \div 25 \notin cut
      <3>1. PICK p \in Nat : received[i].at = 25 * p /\ p \notin cut
        BY <1>1, <2>1 DEF Steady
      <3>2. (25 * p) \div 25 = p /\ (25 * p) % 25 = 0
        BY Places
      <3> QED BY <3>1, <3>2
    <2> QED BY <2>1, <2>2 DEF Steady
  <1> QED BY <1>2, <1>3, <1>4 DEF FramesAreSent, kSbusFrameBytes

(***************************************************************************)
(* Whatever the frames hold, however many, however the reads cut them up   *)
(* and wherever recvFrame() gives up: what it returns is cut from the line *)
(* between a header's byte and a footer's, nothing twice, and no frame is  *)
(* left out but those it gave up in or took for a part of another; unless  *)
(* it gave up and bytes in the frames look like headers, it is never out   *)
(* of step.                                                                *)
(***************************************************************************)
THEOREM FramesComeThrough == SbusSpec => []FramesAreSent
  <1>1. SbusInit => SbusInv
    BY SbusInvInit
  <1>2. SbusInv /\ [SbusNext]_sbusVars => SbusInv'
    <2> SUFFICES ASSUME SbusInv, [SbusNext]_sbusVars PROVE SbusInv'
      OBVIOUS
    <2>1. CASE Searches
      BY <2>1, SearchesKeepsInv
    <2>2. CASE GivesUp
      BY <2>2, GivesUpKeepsInv
    <2>3. ASSUME NEW n \in 1..kSbusFrameBytes, ReadsRest(n) PROVE SbusInv'
      BY <2>3, ReadsRestKeepsInv
    <2>4. CASE UNCHANGED sbusVars
      <3>1. UNCHANGED <<sent, consumed, raw, received, cut, lost>>
        BY <2>4 DEF sbusVars
      <3>2. Wire' = Wire /\ FramesRead' = FramesRead /\ \A m : Byte(m)' = Byte(m)
        BY <3>1 DEF Wire, FramesRead, Byte, kSbusFrameBytes
      <3>3. SbusTypes' /\ RawIsLast'
        BY <3>1, <3>2 DEF SbusInv, SbusTypes, RawIsLast
      <3>4. CutBefore'
        <4>1. ASSUME NEW i \in 1..Len(received) PROVE IsCut(received[i], consumed - Len(raw))'
          BY <3>1, <3>2 DEF SbusInv, CutBefore, IsCut
        <4> QED BY <3>1, <4>1 DEF SbusInv, CutBefore, Successive
      <3>5. Caught' /\ Current' /\ CutBegun'
        BY <3>1 DEF SbusInv, Caught, Current, CutBegun, Kept
      <3>6. InStep' => Steady'
        BY <3>1 DEF SbusInv, InStep, Unmistakable, Steady
      <3> QED BY <3>3, <3>4, <3>5, <3>6 DEF SbusInv
    <2> QED BY <2>1, <2>2, <2>3, <2>4 DEF SbusNext
  <1> QED BY <1>1, <1>2, SbusInvImplies, PTL DEF SbusSpec

-----------------------------------------------------------------------------
(* The field bus: one request at most is under way, and what is on the     *)
(* connection belongs to the step the master is at; what it has read so    *)
(* far are the registers in their order, of samples since the poll began.  *)
Registers == [of : {"measured", "counted", "info"}, channel : Nat, sample : Nat]

Masters == [at : {"poll", "down", "info", "channels", "heartbeat", "publish"},
            asked : BOOLEAN, channels : Seq(Registers), began : Nat, fail_streak : Nat]

IsHalf(r, n) ==
    /\ r.of = (IF n % 2 = 0 THEN "measured" ELSE "counted")
    /\ r.channel = n \div 2 /\ r.sample >= master.began

BusTypes ==
    /\ cli \in [channels : Nat, ui_channel : Nat] /\ cli.ui_channel < cli.channels
    /\ samples \in Nat
    /\ conn = [open |-> conn.open, reset |-> conn.reset, requests |-> conn.requests,
               replies |-> conn.replies]
    /\ master \in Masters

AnswersRequest(r) ==
    master.at = "channels" /\ r.fc = "read" =>
       /\ r.regs \in Seq(Registers) /\ Len(r.regs) = Chunk
       /\ \A i \in 1..Len(r.regs) : IsHalf(r.regs[i], Len(master.channels) + i - 1)

OneAtATime ==
    /\ ~master.asked => conn.requests = <<>> /\ conn.replies = <<>>
    /\ master.asked =>
          /\ master.at \in {"info", "channels", "heartbeat"}
          /\ \/ conn.requests = <<>> /\ conn.replies = <<>>
             \/ conn.requests = <<Request>> /\ conn.replies = <<>>
             \/ /\ conn.requests = <<>> /\ conn.replies = <<Head(conn.replies)>>
                /\ AnswersRequest(Head(conn.replies))

ReadInOrder ==
    master.at \in {"info", "channels", "heartbeat", "publish"} =>
       /\ \A k \in 1..Len(master.channels) : IsHalf(master.channels[k], k - 1)
       /\ master.began <= samples
       /\ master.at = "info" => master.channels = <<>>
       /\ IF master.at \in {"info", "channels"}
          THEN Len(master.channels) < 2 * cli.channels
          ELSE Len(master.channels) >= 2 * cli.channels

BusInv == BusTypes /\ OneAtATime /\ ReadInOrder /\ FieldIsMeasured

LEMMA ChunkIsSome ==
  ASSUME BusTypes, Len(master.channels) < 2 * cli.channels
  PROVE  Chunk \in Nat \ {0} /\ Remaining \in Nat /\ Chunk <= Remaining
  <1>1. Len(master.channels) \in Nat /\ cli.channels \in Nat
    BY DEF BusTypes, Masters
  <1>2. Remaining = 2 * cli.channels - Len(master.channels)
    BY <1>1 DEF Remaining, ChannelBlockCount, kChannelStride
  <1> QED BY <1>1, <1>2, BusAssumption DEF Chunk

LEMMA HalfIsHalf ==
  ASSUME BusTypes, master.began <= samples, NEW n \in Nat
  PROVE  Half(n) \in Registers /\ IsHalf(Half(n), n)
  <1>1. n \div 2 \in Nat
    OBVIOUS
  <1> QED BY <1>1 DEF BusTypes, Masters, Half, IsHalf, Registers, kChannelStride

LEMMA BusStart == BusInit => BusInv
  <1> SUFFICES ASSUME BusInit PROVE BusInv
    OBVIOUS
  <1>1. BusTypes
    <2>1. cli \in [channels : Nat, ui_channel : Nat] /\ cli.ui_channel < cli.channels
      BY BusAssumption DEF BusInit
    <2>2. master \in Masters
      <3>1. <<>> \in Seq(Registers) /\ 0 \in Nat /\ FALSE \in BOOLEAN
        OBVIOUS
      <3>2. master \in [at : {"poll", "down"}, asked : {FALSE}, channels : {<<>>}, began : {0},
                        fail_streak : {0}]
        BY DEF BusInit
      <3> QED BY <3>1, <3>2 DEF Masters
    <2> QED BY <2>1, <2>2 DEF BusInit, BusTypes, Masters, NoConnection
  <1>2. master.at \in {"poll", "down"} /\ ~master.asked
    BY DEF BusInit
  <1>3. FieldIsMeasured
    BY DEF BusInit, FieldIsMeasured
  <1> QED BY <1>1, <1>2, <1>3 DEF BusInit, BusInv, OneAtATime, ReadInOrder, NoConnection

(* The card's steps.                                                       *)
LEMMA ServingKeeps == BusInv /\ ServeOneRequest => BusInv'
  <1> SUFFICES ASSUME BusInv, ServeOneRequest PROVE BusInv'
    OBVIOUS
  <1>0. PICK answer : answer = HandlePdu(Head(conn.requests))
    OBVIOUS
  <1>1. /\ conn.requests # <<>>
        /\ conn' = [conn EXCEPT !.requests = Tail(@), !.replies = Append(@, answer)]
        /\ UNCHANGED <<cli, samples, master, published>>
    BY <1>0 DEF ServeOneRequest
  <1>2. master.asked /\ conn.requests = <<Request>> /\ conn.replies = <<>>
    BY <1>1 DEF BusInv, OneAtATime
  <1>3. answer = HandlePdu(Request)
    BY <1>0, <1>2
  <1>4. /\ conn' = [open |-> conn.open, reset |-> conn.reset, requests |-> <<>>,
                   replies |-> <<answer>>]
    <2>1. Tail(conn.requests) = <<>> /\ Append(conn.replies, answer) = <<answer>>
      BY <1>2
    <2> QED BY <1>1, <2>1 DEF BusInv, BusTypes, Masters
  <1>5. BusTypes'
    BY <1>1, <1>4 DEF BusInv, BusTypes, Masters
  <1>6. AnswersRequest(answer)
    <2> SUFFICES ASSUME master.at = "channels", answer.fc = "read"
                 PROVE  /\ answer.regs \in Seq(Registers) /\ Len(answer.regs) = Chunk
                        /\ \A i \in 1..Len(answer.regs) :
                              IsHalf(answer.regs[i], Len(master.channels) + i - 1)
      BY DEF AnswersRequest
    <2>1. Len(master.channels) < 2 * cli.channels /\ master.began <= samples /\ BusTypes
      BY DEF BusInv, ReadInOrder
    <2>2. Chunk \in Nat /\ Len(master.channels) \in Nat
      BY <2>1, ChunkIsSome DEF BusTypes, Masters
    <2>3. Request = [op |-> "read", start |-> Len(master.channels), quantity |-> Chunk]
      BY DEF Request
    <2>4. answer.regs = [i \in 1..Chunk |-> Half(Len(master.channels) + i - 1)]
      BY <1>3, <2>3 DEF HandlePdu
    <2>5. \A i \in 1..Chunk : LET h == Half(Len(master.channels) + i - 1)
                               IN  h \in Registers /\ IsHalf(h, Len(master.channels) + i - 1)
      BY <2>1, <2>2, HalfIsHalf
    <2>6. answer.regs \in Seq(Registers) /\ Len(answer.regs) = Chunk
      <3>1. PICK n \in Nat : n = Chunk
        BY <2>2
      <3>2. PICK regs : regs = answer.regs
        OBVIOUS
      <3>3. regs = [i \in 1..n |-> Half(Len(master.channels) + i - 1)]
        BY <2>4, <3>1, <3>2
      <3>4. \A i \in 1..n : Half(Len(master.channels) + i - 1) \in Registers
        BY <2>5, <3>1
      <3>5. DOMAIN regs = 1..n /\ regs \in [1..n -> Registers]
        BY <3>3, <3>4
      <3>6. regs \in Seq(Registers)
        BY <3>5
      <3>7. Len(regs) = n
        BY <3>5, <3>6
      <3> QED BY <3>1, <3>2, <3>6, <3>7
    <2>7. \A i \in 1..Len(answer.regs) : IsHalf(answer.regs[i], Len(master.channels) + i - 1)
      BY <2>4, <2>5, <2>6
    <2> QED BY <2>6, <2>7
  <1>7. OneAtATime'
    <2>1. conn'.requests = <<>> /\ conn'.replies = <<answer>> /\ Head(conn'.replies) = answer
      BY <1>4
    <2>2. AnswersRequest(answer)'
      BY <1>1, <1>6 DEF AnswersRequest, IsHalf, Chunk, Remaining
    <2>3. AnswersRequest(Head(conn.replies))'
      BY <2>1, <2>2 DEF AnswersRequest, IsHalf, Chunk, Remaining
    <2> QED BY <1>1, <1>2, <2>1, <2>3 DEF BusInv, OneAtATime
  <1>8. ReadInOrder' /\ FieldIsMeasured'
    BY <1>1 DEF BusInv, ReadInOrder, IsHalf, FieldIsMeasured
  <1> QED BY <1>5, <1>7, <1>8 DEF BusInv

LEMMA CardKeeps ==
  BusInv /\ (CardSamples \/ Accept \/ ServesNoMore \/ CardDown \/ CardUp) => BusInv'
  <1> SUFFICES ASSUME BusInv, CardSamples \/ Accept \/ ServesNoMore \/ CardDown \/ CardUp
               PROVE  BusInv'
    OBVIOUS
  <1>1. /\ UNCHANGED <<cli, master, published>> /\ samples' \in Nat /\ samples' >= samples
        /\ samples \in Nat
    BY DEF BusInv, BusTypes, Masters, CardSamples, Accept, ServesNoMore, CardDown, CardUp
  <1>2. conn' = conn \/ conn' = [conn EXCEPT !.reset = TRUE, !.requests = <<>>]
    BY DEF CardSamples, Accept, ServesNoMore, CardDown, CardUp
  <1>3. /\ conn' = [open |-> conn'.open, reset |-> conn'.reset, requests |-> conn'.requests,
                    replies |-> conn'.replies]
        /\ conn'.requests \in {<<>>, conn.requests} /\ conn'.replies = conn.replies
    BY <1>2 DEF BusInv, BusTypes, Masters
  <1>4. BusTypes'
    BY <1>1, <1>3 DEF BusInv, BusTypes, Masters
  <1>5. OneAtATime'
    <2>1. AnswersRequest(Head(conn.replies)) => AnswersRequest(Head(conn.replies))'
      BY <1>1, <1>3 DEF AnswersRequest, IsHalf, Chunk, Remaining
    <2>2. Request' = Request
      BY <1>1 DEF Request, Chunk, Remaining
    <2> QED BY <1>1, <1>3, <2>1, <2>2 DEF BusInv, OneAtATime
  <1>6. ReadInOrder'
    BY <1>1 DEF BusInv, BusTypes, Masters, ReadInOrder, IsHalf
  <1>7. FieldIsMeasured'
    BY <1>1 DEF BusInv, FieldIsMeasured
  <1> QED BY <1>4, <1>5, <1>6, <1>7 DEF BusInv

(* The master's steps.  Those that leave nothing on the connection and go  *)
(* back to polling, or down, have nothing to keep.                         *)
IsEmpty(c) ==
    c = [open |-> c.open, reset |-> c.reset, requests |-> <<>>, replies |-> <<>>]

LEMMA ReplyIsLast ==
  ASSUME BusInv, Answers
  PROVE  /\ master.at \in {"info", "channels", "heartbeat"}
         /\ conn.requests = <<>> /\ conn.replies = <<Reply>> /\ AnswersRequest(Reply)
  BY DEF BusInv, OneAtATime, Answers, Reply

LEMMA ReplyTaken ==
  ASSUME BusInv, Answers, conn' = [conn EXCEPT !.replies = Tail(@)]
  PROVE  IsEmpty(conn')
  <1>1. conn.requests = <<>> /\ conn.replies = <<Reply>>
    BY ReplyIsLast
  <1>2. Tail(conn.replies) = <<>>
    BY <1>1
  <1> QED BY <1>1, <1>2 DEF BusInv, BusTypes, Masters, IsEmpty

LEMMA StaysTyped ==
  ASSUME BusTypes, IsEmpty(conn'), master' \in Masters, cli' = cli, samples' = samples,
         ~master'.asked
  PROVE  BusTypes' /\ OneAtATime'
  <1>1. conn' = [open |-> conn'.open, reset |-> conn'.reset, requests |-> conn'.requests,
                 replies |-> conn'.replies]
        /\ conn'.requests = <<>> /\ conn'.replies = <<>>
    BY DEF IsEmpty
  <1>2. BusTypes'
    BY <1>1 DEF BusTypes, Masters
  <1> QED BY <1>1, <1>2 DEF OneAtATime

LEMMA PollIsOver ==
  ASSUME BusInv, IsEmpty(conn'), master' \in Masters, UNCHANGED <<cli, samples, published>>,
         ~master'.asked, master'.at \in {"poll", "down"}
  PROVE  BusInv'
  <1>1. BusTypes' /\ OneAtATime'
    BY StaysTyped DEF BusInv
  <1>2. ReadInOrder' /\ FieldIsMeasured'
    BY DEF BusInv, ReadInOrder, FieldIsMeasured
  <1> QED BY <1>1, <1>2 DEF BusInv

LEMMA BeginKeeps == BusInv /\ (Connect \/ Polls \/ MasterUp) => BusInv'
  <1> SUFFICES ASSUME BusInv, Connect \/ Polls \/ MasterUp PROVE BusInv'
    OBVIOUS
  <1>1. /\ UNCHANGED <<cli, samples, published>> /\ samples \in Nat /\ BusTypes
        /\ master.at \in {"poll", "down"} /\ master \in Masters
    BY DEF BusInv, BusTypes, Connect, Polls, MasterUp, Masters
  <1>2. ~master.asked /\ IsEmpty(conn)
    BY <1>1 DEF BusInv, BusTypes, Masters, OneAtATime, IsEmpty
  <1>3. IsEmpty(conn')
    BY <1>2 DEF Connect, Polls, MasterUp, NoConnection, IsEmpty
  <1>4. CASE MasterUp
    <2>1. master' \in Masters /\ ~master'.asked /\ master'.at = "poll"
      BY <1>1, <1>2, <1>4 DEF MasterUp, Masters
    <2> QED BY <1>1, <1>3, <2>1, PollIsOver
  <1>5. CASE Connect \/ Polls
    <2>1. /\ master'.at = "info" /\ ~master'.asked /\ master'.channels = <<>>
          /\ master'.began = samples /\ master' \in Masters
      <3>1. <<>> \in Seq(Registers)
        OBVIOUS
      <3>2. PICK streak \in Nat : master' = [at |-> "info", asked |-> FALSE, channels |-> <<>>,
                                             began |-> samples, fail_streak |-> streak]
        <4>1. CASE Connect
          <5>1. master' = [at |-> "info", asked |-> master.asked, channels |-> <<>>,
                           began |-> samples, fail_streak |-> 0]
            BY <1>1, <4>1 DEF Connect, BeginsPoll, Masters
          <5> QED BY <1>1, <1>2, <5>1 DEF Masters
        <4>2. CASE Polls
          BY <1>1, <1>2, <4>2 DEF Polls, BeginsPoll, Masters
        <4> QED BY <1>5, <4>1, <4>2
      <3> QED BY <1>1, <3>1, <3>2 DEF Masters
    <2>2. BusTypes' /\ OneAtATime'
      BY <1>1, <1>3, <2>1, StaysTyped
    <2>3. ReadInOrder'
      <3>1. Len(master'.channels) = 0 /\ 0 < 2 * cli.channels
        BY <1>1, <2>1 DEF BusTypes, Masters
      <3> QED BY <1>1, <2>1, <3>1 DEF ReadInOrder
    <2>4. FieldIsMeasured'
      BY <1>1 DEF BusInv, FieldIsMeasured
    <2> QED BY <2>2, <2>3, <2>4 DEF BusInv
  <1> QED BY <1>4, <1>5

LEMMA AskKeeps == BusInv /\ Asks => BusInv'
  <1> SUFFICES ASSUME BusInv, Asks PROVE BusInv'
    OBVIOUS
  <1>1. /\ UNCHANGED <<cli, samples, published>> /\ master \in Masters /\ BusTypes
        /\ conn.requests = <<>> /\ conn.replies = <<>>
        /\ master.at \in {"info", "channels", "heartbeat"}
        /\ master' = [master EXCEPT !.asked = TRUE]
    BY DEF BusInv, BusTypes, OneAtATime, Asks, Masters
  <1>2. /\ master' \in Masters /\ master'.asked /\ master'.at = master.at
        /\ master'.channels = master.channels /\ master'.began = master.began
    BY <1>1 DEF Masters
  <1>3. Request' = Request
    BY <1>1, <1>2 DEF Request, Chunk, Remaining
  <1>4. /\ conn' = [open |-> conn'.open, reset |-> conn'.reset, requests |-> conn'.requests,
                    replies |-> conn'.replies]
        /\ conn'.requests \in {<<>>, <<Request>>} /\ conn'.replies = <<>>
    <2>1. Append(conn.requests, Request) = <<Request>>
      BY <1>1
    <2> QED BY <1>1, <2>1 DEF Asks, BusTypes, Masters
  <1>5. BusTypes'
    BY <1>1, <1>2, <1>4 DEF BusTypes, Masters
  <1>6. OneAtATime'
    BY <1>1, <1>2, <1>3, <1>4 DEF OneAtATime
  <1>7. ReadInOrder'
    BY <1>1, <1>2 DEF BusInv, ReadInOrder, IsHalf
  <1>8. FieldIsMeasured'
    BY <1>1 DEF BusInv, FieldIsMeasured
  <1> QED BY <1>5, <1>6, <1>7, <1>8 DEF BusInv

LEMMA FailureKeeps == BusInv /\ (NoAnswer \/ BadAnswer \/ MasterDown) => BusInv'
  <1> SUFFICES ASSUME BusInv, NoAnswer \/ BadAnswer \/ MasterDown PROVE BusInv'
    OBVIOUS
  <1>1. UNCHANGED <<cli, samples, published>> /\ master \in Masters /\ BusTypes
    BY DEF BusInv, BusTypes, NoAnswer, PollFails, BadAnswer, MasterDown, Masters
  <1>2. Close => IsEmpty(conn')
    BY DEF Close, NoConnection, IsEmpty
  <1>3. CASE MasterDown
    <2>1. <<>> \in Seq(Registers)
      OBVIOUS
    <2>2. master' \in Masters /\ ~master'.asked /\ master'.at = "down"
      BY <1>3, <2>1 DEF MasterDown, Masters
    <2> QED BY <1>1, <1>2, <1>3, <2>2, PollIsOver DEF MasterDown
  <1>4. CASE BadAnswer
    <2>1. master' \in Masters /\ ~master'.asked /\ master'.at = "poll"
      <3>1. master' = [at |-> "poll", asked |-> FALSE, channels |-> master.channels,
                       began |-> master.began, fail_streak |-> master.fail_streak + 1]
        BY <1>1, <1>4 DEF BadAnswer, Masters
      <3>2. /\ master.channels \in Seq(Registers) /\ master.began \in Nat
            /\ master.fail_streak + 1 \in Nat
        BY <1>1 DEF Masters
      <3> QED BY <3>1, <3>2 DEF Masters
    <2>2. IsEmpty(conn')
      BY <1>2, <1>4, ReplyTaken DEF BadAnswer
    <2> QED BY <1>1, <2>1, <2>2, PollIsOver
  <1>5. CASE NoAnswer /\ master.at # "heartbeat"
    <2>1. master' \in Masters /\ ~master'.asked /\ master'.at = "poll" /\ Close
      <3>1. /\ master' = [at |-> "poll", asked |-> FALSE, channels |-> master.channels,
                          began |-> master.began, fail_streak |-> master.fail_streak + 1]
            /\ Close
        BY <1>1, <1>5 DEF NoAnswer, PollFails, Masters
      <3>2. /\ master.channels \in Seq(Registers) /\ master.began \in Nat
            /\ master.fail_streak + 1 \in Nat
        BY <1>1 DEF Masters
      <3> QED BY <3>1, <3>2 DEF Masters
    <2> QED BY <1>1, <1>2, <2>1, PollIsOver
  <1>6. CASE NoAnswer /\ master.at = "heartbeat"
    <2>1. /\ master' \in Masters /\ ~master'.asked /\ master'.at = "publish" /\ Close
          /\ master'.channels = master.channels /\ master'.began = master.began
      BY <1>1, <1>6 DEF NoAnswer, Masters
    <2>2. BusTypes' /\ OneAtATime'
      BY <1>1, <1>2, <2>1, StaysTyped
    <2>3. ReadInOrder' /\ FieldIsMeasured'
      BY <1>1, <1>6, <2>1 DEF BusInv, ReadInOrder, IsHalf, FieldIsMeasured
    <2> QED BY <2>2, <2>3 DEF BusInv
  <1> QED BY <1>3, <1>4, <1>5, <1>6

LEMMA AnswerKeeps == BusInv /\ (InfoAnswered \/ HeartbeatAnswered) => BusInv'
  <1> SUFFICES ASSUME BusInv, InfoAnswered \/ HeartbeatAnswered PROVE BusInv'
    OBVIOUS
  <1>1. /\ UNCHANGED <<cli, samples, published>> /\ master \in Masters /\ BusTypes
        /\ IsEmpty(conn')
    BY ReplyTaken DEF BusInv, BusTypes, InfoAnswered, HeartbeatAnswered, Takes, Masters
  <1>2. /\ master' \in Masters /\ ~master'.asked
        /\ master'.channels = master.channels /\ master'.began = master.began
        /\ \/ master.at = "info" /\ master'.at = "channels"
           \/ master.at = "heartbeat" /\ master'.at = "publish"
    BY <1>1 DEF InfoAnswered, HeartbeatAnswered, Takes, Masters
  <1>3. BusTypes' /\ OneAtATime'
    BY <1>1, <1>2, StaysTyped
  <1>4. ReadInOrder' /\ FieldIsMeasured'
    BY <1>1, <1>2 DEF BusInv, ReadInOrder, IsHalf, FieldIsMeasured
  <1> QED BY <1>3, <1>4 DEF BusInv

(* A chunk that has come is the next of the registers.                     *)
LEMMA ChunkKeeps == BusInv /\ ChunkAnswered => BusInv'
  <1> SUFFICES ASSUME BusInv, ChunkAnswered PROVE BusInv'
    OBVIOUS
  <1>1. /\ UNCHANGED <<cli, samples, published>> /\ master \in Masters /\ BusTypes
        /\ IsEmpty(conn') /\ Answers /\ master.at = "channels" /\ Reply.fc = "read"
    BY ReplyTaken DEF BusInv, BusTypes, ChunkAnswered, Takes, Masters
  <1>2. PICK regs : regs = Reply.regs
    OBVIOUS
  <1>3. /\ regs \in Seq(Registers)
        /\ \A i \in 1..Len(regs) : IsHalf(regs[i], Len(master.channels) + i - 1)
    BY <1>1, <1>2, ReplyIsLast DEF AnswersRequest
  <1>4. PICK read : read = master.channels \o regs
    OBVIOUS
  <1>5. /\ read \in Seq(Registers) /\ Len(read) = Len(master.channels) + Len(regs)
        /\ master.channels \in Seq(Registers)
    BY <1>1, <1>3, <1>4 DEF Masters
  <1>6. \A k \in 1..Len(read) : IsHalf(read[k], k - 1)
    <2> SUFFICES ASSUME NEW k \in 1..Len(read) PROVE IsHalf(read[k], k - 1)
      OBVIOUS
    <2>1. CASE k <= Len(master.channels)
      <3>1. read[k] = master.channels[k] /\ k \in 1..Len(master.channels)
        BY <1>3, <1>4, <1>5, <2>1
      <3> QED BY <1>1, <3>1 DEF BusInv, ReadInOrder
    <2>2. CASE k > Len(master.channels)
      <3>1. PICK i \in 1..Len(regs) : i = k - Len(master.channels)
        <4>1. Len(regs) \in Nat /\ Len(master.channels) \in Nat
          BY <1>3, <1>5
        <4>2. k \in Int /\ k - Len(master.channels) \in 1..Len(regs)
          BY <1>5, <2>2, <4>1
        <4> QED BY <4>2
      <3>2. read[k] = regs[i] /\ Len(master.channels) + i - 1 = k - 1
        BY <1>3, <1>4, <1>5, <2>2, <3>1
      <3> QED BY <1>3, <3>2
    <2> QED BY <1>5, <2>1, <2>2
  <1>7. /\ master' \in Masters /\ ~master'.asked
        /\ master'.channels = read /\ master'.began = master.began
        /\ IF Len(read) < 2 * cli.channels THEN master'.at = "channels"
                                           ELSE master'.at = "heartbeat"
    <2>1. ChannelBlockCount(cli.channels) = 2 * cli.channels
      BY <1>1 DEF ChannelBlockCount, kChannelStride, BusTypes, Masters
    <2>2. master' = IF Len(read) < 2 * cli.channels
                    THEN [master EXCEPT !.asked = FALSE, !.channels = read]
                    ELSE [master EXCEPT !.asked = FALSE, !.channels = read,
                                        !.at = "heartbeat", !.fail_streak = 0]
      BY <1>2, <1>4, <2>1 DEF ChunkAnswered, Takes
    <2> QED BY <1>1, <1>5, <2>2 DEF Masters
  <1>8. BusTypes' /\ OneAtATime'
    BY <1>1, <1>7, StaysTyped
  <1>9. ReadInOrder'
    <2>1. master.began <= samples
      BY <1>1 DEF BusInv, ReadInOrder
    <2>2. (\A k \in 1..Len(master.channels) : IsHalf(master.channels[k], k - 1))'
      BY <1>6, <1>7 DEF IsHalf
    <2>3. cli' = cli /\ samples' = samples
      BY <1>1
    <2>4. CASE Len(read) < 2 * cli.channels
      BY <1>7, <2>1, <2>2, <2>3, <2>4 DEF ReadInOrder
    <2>5. CASE ~(Len(read) < 2 * cli.channels)
      <3>1. Len(read) >= 2 * cli.channels
        BY <1>1, <1>5, <2>5 DEF BusTypes, Masters
      <3> QED BY <1>7, <2>1, <2>2, <2>3, <2>5, <3>1 DEF ReadInOrder
    <2> QED BY <2>4, <2>5
  <1>10. FieldIsMeasured'
    BY <1>1 DEF BusInv, FieldIsMeasured
  <1> QED BY <1>8, <1>9, <1>10 DEF BusInv

(* What is published begins with the ui_channel's measurements.            *)
LEMMA PublishKeeps == BusInv /\ Publishes => BusInv'
  <1> SUFFICES ASSUME BusInv, Publishes PROVE BusInv'
    OBVIOUS
  <1>1. /\ UNCHANGED <<cli, samples, conn>> /\ master \in Masters /\ BusTypes
        /\ master.at = "publish" /\ ~master.asked /\ IsEmpty(conn')
    BY DEF BusInv, BusTypes, OneAtATime, Publishes, Masters, IsEmpty
  <1>2. master' \in Masters /\ ~master'.asked /\ master'.at = "poll"
    <2>1. <<>> \in Seq(Registers)
      OBVIOUS
    <2> QED BY <1>1, <2>1 DEF Publishes, Masters
  <1>3. BusTypes' /\ OneAtATime'
    BY <1>1, <1>2, StaysTyped
  <1>4. ReadInOrder'
    BY <1>2 DEF ReadInOrder
  <1>5. FieldIsMeasured'
    <2>1. PICK n \in Nat : n = 2 * cli.ui_channel
      BY <1>1 DEF BusTypes, Masters
    <2>2. /\ DecodeChannel(cli.ui_channel) = SubSeq(master.channels, n + 1, n + 2)
          /\ n + 2 <= Len(master.channels) /\ master.channels \in Seq(Registers)
      <3>1. Len(master.channels) >= 2 * cli.channels
        BY <1>1 DEF BusInv, ReadInOrder
      <3>2. n + 2 <= 2 * cli.channels /\ cli.channels \in Nat /\ cli.ui_channel \in Nat
        BY <1>1, <2>1 DEF BusTypes, Masters
      <3>3. master.channels \in Seq(Registers) /\ Len(master.channels) \in Nat
        BY <1>1 DEF Masters
      <3>4. cli.ui_channel * 2 + 1 = n + 1 /\ (cli.ui_channel + 1) * 2 = n + 2
        BY <2>1, <3>2
      <3>5. DecodeChannel(cli.ui_channel) = SubSeq(master.channels, n + 1, n + 2)
        BY <3>4 DEF DecodeChannel, kChannelStride
      <3>6. n + 2 <= Len(master.channels)
        <4>1. 2 * cli.channels \in Nat
          BY <3>2
        <4> QED BY <2>1, <3>1, <3>2, <3>3, <4>1
      <3> QED BY <3>3, <3>5, <3>6
    <2>3. DecodeChannel(cli.ui_channel)[1] = master.channels[n + 1]
      <3>1. PICK s \in Seq(Registers) : s = master.channels
        BY <2>2
      <3>2. Len(s) \in Nat /\ n + 1 \in 1..Len(s) /\ n + 2 \in 1..Len(s)
        <4>1. Len(s) \in Nat
          BY <3>1
        <4>2. n + 2 <= Len(s)
          BY <2>2, <3>1
        <4> QED BY <2>1, <4>1, <4>2
      <3>3. SubSeq(s, n + 1, n + 2)[1] = s[n + 1]
        <4>1. /\ n + 1 \in Int /\ n + 2 \in Int /\ (n + 2) - (n + 1) + 1 = 2
              /\ (n + 1) + 1 - 1 = n + 1
          BY <2>1
        <4>2. \A i \in (n + 1)..(n + 2) : s[i] \in Registers
          BY <2>1, <3>1, <3>2
        <4>3. \A i \in 1..((n + 2) - (n + 1) + 1) : SubSeq(s, n + 1, n + 2)[i] = s[(n + 1) + i - 1]
          BY <4>1, <4>2, SubSeqProperties
        <4>4. 1 \in 1..((n + 2) - (n + 1) + 1)
          BY <4>1
        <4> QED BY <4>1, <4>3, <4>4
      <3> QED BY <2>2, <3>1, <3>3
    <2>4. IsHalf(master.channels[n + 1], n)
      <3>1. n + 1 \in 1..Len(master.channels) /\ (n + 1) - 1 = n
        <4>1. Len(master.channels) \in Nat
          BY <2>2
        <4>2. n + 2 <= Len(master.channels)
          BY <2>2
        <4> QED BY <2>1, <4>1, <4>2
      <3> QED BY <1>1, <3>1 DEF BusInv, ReadInOrder
    <2>5. n % 2 = 0 /\ n \div 2 = cli.ui_channel
      BY <1>1, <2>1 DEF BusTypes, Masters
    <2>6. published' = <<[began |-> master.began, block |-> DecodeChannel(cli.ui_channel)]>>
      BY DEF Publishes
    <2> QED BY <1>1, <2>3, <2>4, <2>5, <2>6 DEF FieldIsMeasured, IsHalf
  <1> QED BY <1>3, <1>4, <1>5 DEF BusInv

LEMMA BusStep == BusInv /\ [BusNext]_busVars => BusInv'
  <1>1. BusInv /\ UNCHANGED busVars => BusInv'
    BY DEF busVars, BusInv, BusTypes, Masters, OneAtATime, AnswersRequest, Request, Chunk,
           Remaining, ReadInOrder, IsHalf, FieldIsMeasured
  <1> QED BY <1>1, ServingKeeps, CardKeeps, BeginKeeps, AskKeeps, FailureKeeps, AnswerKeeps,
             ChunkKeeps, PublishKeeps
          DEF BusNext, CardRuns, MasterRuns

(* Whatever the reads, the time outs and the reconnections of the          *)
(* agri_station_demo's card and master were, what is published as a        *)
(* channel's measurements was measured there, after the poll began: for    *)
(* any number of channels, any size of a read, and any number of failures. *)
THEOREM FieldMeasurements == BusSpec => []FieldIsMeasured
  <1>1. BusInv => FieldIsMeasured
    BY DEF BusInv
  <1> QED BY <1>1, BusStart, BusStep, PTL DEF BusSpec

-----------------------------------------------------------------------------
(***************************************************************************)
(* The load of the host.  Its aggregate line adds up counters over any     *)
(* number of cores.  The library's inductions take an operator; a set of   *)
(* naturals that has 0 and every next one serves as well.                  *)
(***************************************************************************)
LEMMA AllNaturals ==
    ASSUME NEW T \in SUBSET Nat, 0 \in T, \A n \in T : n + 1 \in T
    PROVE  T = Nat
  <1> SUFFICES ASSUME T # Nat PROVE FALSE
    OBVIOUS
  <1>1. PICK x \in Nat \ T : \A y \in Nat \ T : x <= y
    BY LeastExists
  <1>2. x - 1 \in Nat /\ x - 1 \in T
    BY <1>1
  <1> QED BY <1>1, <1>2

(* The sums of f over the parts of S, an element at a time: what           *)
(* SumFunction is defined by.                                              *)
Some(s) == CHOOSE x \in s : TRUE
Sums(f, S) ==
    CHOOSE g : g = [s \in SUBSET S |->
                      IF s = {} THEN 0 ELSE f[Some(s)] + g[s \ {Some(s)}]]

LEMMA SumIsOfSums ==
    ASSUME NEW f
    PROVE  SumFunction(f) = Sums(f, DOMAIN f)[DOMAIN f]
  BY DEF SumFunction, SumFunctionOnSet, FoldFunctionOnSet, MapThenFoldSet, Sums, Some

(* There is such a g: it is made of those for the parts of up to k elements*)
(* (Adds), for every k.                                                    *)
LEMMA SumSteps ==
    ASSUME NEW f, NEW S, IsFiniteSet(S)
    PROVE  \A s \in SUBSET S : Sums(f, S)[s] =
              IF s = {} THEN 0 ELSE f[Some(s)] + Sums(f, S)[s \ {Some(s)}]
  <1> DEFINE Upto(k) == {s \in SUBSET S : Cardinality(s) <= k}
             Adds(g, k) == g = [s \in Upto(k) |->
                                 IF s = {} THEN 0 ELSE f[Some(s)] + g[s \ {Some(s)}]]
             T == {k \in Nat : \E g : Adds(g, k)}
  <1>0. \A s \in SUBSET S :
            IsFiniteSet(s) /\ Cardinality(s) \in Nat /\ (Cardinality(s) = 0 <=> s = {})
    BY FS_Subset, FS_EmptySet, FS_CardinalityType
  <1>1. 0 \in T
    <2>1. \A s \in Upto(0) : s = {}
      BY <1>0
    <2>2. Adds([s \in Upto(0) |-> 0], 0)
      BY <2>1
    <2> QED BY <2>2
  <1>2. ASSUME NEW k \in T PROVE k + 1 \in T
    <2>1. PICK g : Adds(g, k)
      OBVIOUS
    <2> DEFINE h == [s \in Upto(k + 1) |->
                       IF s = {} THEN 0 ELSE f[Some(s)] + g[s \ {Some(s)}]]
    <2>2. \A s \in Upto(k) : s \in Upto(k + 1) /\ h[s] = g[s]
      <3> TAKE s \in Upto(k)
      <3>1. s \in Upto(k + 1)
        BY <1>0
      <3>2. g[s] = IF s = {} THEN 0 ELSE f[Some(s)] + g[s \ {Some(s)}]
        BY <2>1
      <3> QED BY <3>1, <3>2
    <2>3. ASSUME NEW s \in Upto(k + 1), s # {} PROVE s \ {Some(s)} \in Upto(k)
      <3>1. Some(s) \in s
        BY <2>3 DEF Some
      <3>2. Cardinality(s \ {Some(s)}) = Cardinality(s) - 1
        BY <1>0, <3>1, FS_RemoveElement
      <3> QED BY <1>0, <3>2
    <2> HIDE DEF Upto
    <2>4. Adds(h, k + 1)
      <3>1. \A s \in Upto(k + 1) : s # {} => h[s \ {Some(s)}] = g[s \ {Some(s)}]
        BY <2>2, <2>3
      <3> QED BY <3>1
    <2> HIDE DEF h, Adds
    <2> QED BY <2>4
  <1>3. Cardinality(S) \in T
    <2> HIDE DEF T
    <2>1. T \in SUBSET Nat
      BY DEF T
    <2> QED BY <1>0, <1>1, <1>2, <2>1, AllNaturals
  <1>4. Upto(Cardinality(S)) = SUBSET S
    BY FS_Subset
  <1>5. PICK g : Adds(g, Cardinality(S))
    BY <1>3
  <1> HIDE DEF T, Upto
  <1>6. g = [s \in SUBSET S |-> IF s = {} THEN 0 ELSE f[Some(s)] + g[s \ {Some(s)}]]
    BY <1>4, <1>5
  <1> HIDE DEF Adds
  <1>7. Sums(f, S) = [s \in SUBSET S |->
                        IF s = {} THEN 0 ELSE f[Some(s)] + Sums(f, S)[s \ {Some(s)}]]
    BY <1>6, Zenon DEF Sums
  <1>8. PICK r : r = Sums(f, S)
    OBVIOUS
  <1>9. r = [s \in SUBSET S |-> IF s = {} THEN 0 ELSE f[Some(s)] + r[s \ {Some(s)}]]
    BY <1>7, <1>8
  <1>10. \A s \in SUBSET S : r[s] = IF s = {} THEN 0 ELSE f[Some(s)] + r[s \ {Some(s)}]
    BY <1>9
  <1> QED BY <1>8, <1>10

LEMMA SumStep ==
    ASSUME NEW f, NEW S, IsFiniteSet(S), NEW s \in SUBSET S, s # {}
    PROVE  Sums(f, S)[s] = f[Some(s)] + Sums(f, S)[s \ {Some(s)}]
  <1>1. \A t \in SUBSET S : Sums(f, S)[t] =
           IF t = {} THEN 0 ELSE f[Some(t)] + Sums(f, S)[t \ {Some(t)}]
    BY SumSteps, Zenon
  <1> QED BY <1>1

LEMMA SumOfNone ==
    ASSUME NEW f, NEW S, IsFiniteSet(S)
    PROVE  Sums(f, S)[{}] = 0
  BY SumSteps

LEMMA SomeIsIn ==
    ASSUME NEW s, s # {}
    PROVE  Some(s) \in s
  BY DEF Some

(* Sums over one set take its elements in one order, whatever is summed up.*)
Difference(h, g, f, S) ==
    \A c \in S : f[c] \in Int /\ g[c] \in Int /\ h[c] = g[c] - f[c]

LEMMA SumsDiffer ==
    ASSUME NEW S, IsFiniteSet(S), NEW f, NEW g, NEW h, Difference(h, g, f, S)
    PROVE  /\ Sums(f, S)[S] \in Int
           /\ Sums(g, S)[S] \in Int
           /\ Sums(h, S)[S] =
                 Sums(g, S)[S] - Sums(f, S)[S]
  <1> DEFINE Agrees(s) == /\ Sums(f, S)[s] \in Int /\ Sums(g, S)[s] \in Int
                          /\ Sums(h, S)[s] = Sums(g, S)[s] - Sums(f, S)[s]
             T == {k \in Nat : \A s \in SUBSET S : Cardinality(s) = k => Agrees(s)}
  <1>0. \A s \in SUBSET S :
            IsFiniteSet(s) /\ Cardinality(s) \in Nat /\ (Cardinality(s) = 0 <=> s = {})
    BY FS_Subset, FS_EmptySet, FS_CardinalityType
  <1>1. Agrees({})
    BY SumOfNone
  <1> HIDE DEF Agrees
  <1>2. ASSUME NEW s \in SUBSET S, s # {}, Agrees(s \ {Some(s)})
        PROVE  Agrees(s)
    <2>1. Sums(f, S)[s] = f[Some(s)] + Sums(f, S)[s \ {Some(s)}]
      BY <1>2, SumStep
    <2>2. Sums(g, S)[s] = g[Some(s)] + Sums(g, S)[s \ {Some(s)}]
      BY <1>2, SumStep
    <2>3. Sums(h, S)[s] = h[Some(s)] + Sums(h, S)[s \ {Some(s)}]
      BY <1>2, SumStep
    <2>4. Some(s) \in S
      BY <1>2, SomeIsIn
    <2>5. /\ f[Some(s)] \in Int /\ g[Some(s)] \in Int
          /\ h[Some(s)] = g[Some(s)] - f[Some(s)]
      BY <2>4 DEF Difference
    <2> QED BY <1>2, <2>1, <2>2, <2>3, <2>5 DEF Agrees
  <1>3. 0 \in T
    BY <1>0, <1>1
  <1>4. ASSUME NEW k \in T PROVE k + 1 \in T
    <2> SUFFICES ASSUME NEW s \in SUBSET S, Cardinality(s) = k + 1 PROVE Agrees(s)
      OBVIOUS
    <2>1. s # {} /\ Some(s) \in s /\ s \ {Some(s)} \in SUBSET S
      BY <1>0, SomeIsIn
    <2>2. Cardinality(s \ {Some(s)}) = k
      BY <1>0, <2>1, FS_RemoveElement
    <2>3. Agrees(s \ {Some(s)})
      BY <2>1, <2>2
    <2> QED BY <1>2, <2>1, <2>3
  <1>5. Agrees(S)
    <2>1. T \in SUBSET Nat
      OBVIOUS
    <2> HIDE DEF T
    <2>2. T = Nat
      BY <1>3, <1>4, <2>1, AllNaturals
    <2> QED BY <1>0, <2>2 DEF T
  <1> QED BY <1>5 DEF Agrees

(* A sum of what is at most M each.                                        *)
LEMMA SumIsBounded ==
    ASSUME NEW S, IsFiniteSet(S), NEW M \in Nat, NEW f \in [S -> 0..M]
    PROVE  Sums(f, S)[S] \in 0..(Cardinality(S) * M)
  <1> DEFINE Bounded(s) == Sums(f, S)[s] \in 0..(Cardinality(s) * M)
             T == {k \in Nat : \A s \in SUBSET S : Cardinality(s) = k => Bounded(s)}
  <1>0. \A s \in SUBSET S :
            IsFiniteSet(s) /\ Cardinality(s) \in Nat /\ (Cardinality(s) = 0 <=> s = {})
    BY FS_Subset, FS_EmptySet, FS_CardinalityType
  <1>1. 0 \in T
    <2>1. Sums(f, S)[{}] = 0 /\ Cardinality({}) = 0
      BY SumOfNone, FS_EmptySet
    <2> QED BY <1>0, <2>1
  <1>2. ASSUME NEW k \in T PROVE k + 1 \in T
    <2> SUFFICES ASSUME NEW s \in SUBSET S, Cardinality(s) = k + 1 PROVE Bounded(s)
      OBVIOUS
    <2>0. s # {} /\ Some(s) \in s /\ s \ {Some(s)} \in SUBSET S
      BY <1>0, SomeIsIn
    <2>1. Sums(f, S)[s] = f[Some(s)] + Sums(f, S)[s \ {Some(s)}]
      BY <2>0, SumStep
    <2>2. Cardinality(s \ {Some(s)}) = k
      BY <1>0, <2>0, FS_RemoveElement
    <2>3. Sums(f, S)[s \ {Some(s)}] \in 0..(k * M)
      BY <2>0, <2>2
    <2>4. f[Some(s)] \in 0..M
      BY <2>0
    <2>5. k * M \in Nat /\ (k + 1) * M = k * M + M
      OBVIOUS
    <2> QED BY <2>1, <2>3, <2>4, <2>5
  <1>3. Bounded(S)
    <2>1. T \in SUBSET Nat
      OBVIOUS
    <2> HIDE DEF T
    <2>2. T = Nat
      BY <1>1, <1>2, <2>1, AllNaturals
    <2> HIDE DEF Bounded
    <2> QED BY <1>0, <2>2 DEF T
  <1> QED BY <1>3

(* What fits into a counter.                                               *)
LEMMA WidthFacts ==
    /\ 2^Width \in Nat /\ 2^Width > 0
    /\ Cardinality(Cores) * (MaxTime + 1) \in 0..(2^Width - 1)
    /\ MaxTime + 1 \in 0..(2^Width - 1)
  <1>1. PICK n \in Nat : n = Cardinality(Cores) /\ n > 0
    BY HostAssumption, FS_CardinalityType, FS_EmptySet
  <1>2. PICK t \in Nat : t = MaxTime + 1
    BY HostAssumption
  <1>3. PICK w \in Nat : w = 2^Width
    BY HostAssumption
  <1>4. n * t \in Nat /\ n * t < w
    BY <1>1, <1>2, <1>3, HostAssumption
  <1>5. n - 1 \in Nat /\ (n - 1) * t \in Nat /\ n * t = (n - 1) * t + t
    BY <1>1, <1>2
  <1>6. n * t \in 0..(w - 1) /\ t \in 0..(w - 1) /\ w > 0
    BY <1>3, <1>4, <1>5
  <1> QED BY <1>1, <1>2, <1>3, <1>6

(* What two sums over the cores have to do with that of the differences.   *)
LEMMA SumOfDifferences ==
    ASSUME NEW a \in [Cores -> Nat], NEW b \in [Cores -> Nat], NEW d \in [Cores -> Int],
           \A c \in Cores : a[c] <= b[c] /\ b[c] <= MaxTime + 1 /\ d[c] = b[c] - a[c]
    PROVE  /\ SumFunction(a) \in Nat /\ SumFunction(b) \in Nat
           /\ SumFunction(d) = SumFunction(b) - SumFunction(a)
           /\ SumFunction(d) \in 0..(2^Width - 1)
  <1>1. IsFiniteSet(Cores) /\ MaxTime + 1 \in Nat
    BY HostAssumption
  <1>2. /\ SumFunction(a) = Sums(a, Cores)[Cores] /\ SumFunction(b) = Sums(b, Cores)[Cores]
        /\ SumFunction(d) = Sums(d, Cores)[Cores]
    BY SumIsOfSums
  <1>3. Difference(d, b, a, Cores)
    BY DEF Difference
  <1>4. Sums(d, Cores)[Cores] = Sums(b, Cores)[Cores] - Sums(a, Cores)[Cores]
    BY <1>1, <1>3, SumsDiffer
  <1>5. /\ a \in [Cores -> 0..(MaxTime + 1)] /\ b \in [Cores -> 0..(MaxTime + 1)]
        /\ d \in [Cores -> 0..(MaxTime + 1)]
    BY <1>1
  <1>6. /\ Sums(a, Cores)[Cores] \in 0..(Cardinality(Cores) * (MaxTime + 1))
        /\ Sums(b, Cores)[Cores] \in 0..(Cardinality(Cores) * (MaxTime + 1))
        /\ Sums(d, Cores)[Cores] \in 0..(Cardinality(Cores) * (MaxTime + 1))
    BY <1>1, <1>5, SumIsBounded
  <1>7. PICK w \in Nat : w = 2^Width
    BY WidthFacts
  <1>8. PICK m \in 0..(w - 1) : m = Cardinality(Cores) * (MaxTime + 1)
    BY <1>7, WidthFacts
  <1> QED BY <1>2, <1>4, <1>6, <1>7, <1>8

(* A set of naturals is put in order by how many of it are not greater.    *)
LEMMA OrderExists ==
    ASSUME NEW S \in SUBSET Nat, IsFiniteSet(S)
    PROVE  InOrder(S) \in [1..Cardinality(S) -> S]
  <1> DEFINE n == Cardinality(S)
             Upto(c) == {d \in S : d <= c}
             rank == [c \in S |-> Cardinality(Upto(c))]
  <1>0. /\ n \in Nat /\ IsFiniteSet(1..n) /\ Cardinality(1..n) = n
        /\ \A c \in S : IsFiniteSet(Upto(c)) /\ Upto(c) \in SUBSET S /\ c \in Upto(c)
    <2>1. n \in Nat
      BY FS_CardinalityType
    <2>2. IsFiniteSet(1..n) /\ Cardinality(1..n) = n
      BY <2>1, FS_Interval
    <2>3. \A c \in S : Upto(c) \in SUBSET S /\ c \in Upto(c)
      OBVIOUS
    <2> HIDE DEF Upto
    <2>4. \A c \in S : IsFiniteSet(Upto(c))
      BY <2>3, FS_Subset
    <2> QED BY <2>1, <2>2, <2>3, <2>4
  <1>1. ASSUME NEW c \in S PROVE Cardinality(Upto(c)) \in 1..n
    <2>1. Cardinality(Upto(c)) \in Nat /\ Cardinality(Upto(c)) <= n /\ Cardinality(Upto(c)) # 0
      BY <1>0, FS_Subset, FS_CardinalityType, FS_EmptySet
    <2> QED BY <1>0, <2>1
  <1>2. ASSUME NEW c \in S, NEW d \in S, c < d
        PROVE  Cardinality(Upto(c)) < Cardinality(Upto(d))
    <2>0. c \in Nat /\ d \in Nat
      OBVIOUS
    <2>1. Upto(c) \in SUBSET Upto(d) /\ d \in Upto(d) /\ d \notin Upto(c)
      <3>1. ASSUME NEW e \in S, e <= c PROVE e <= d
        <4>1. e \in Nat
          OBVIOUS
        <4> QED BY <1>2, <2>0, <3>1, <4>1
      <3>2. d <= d /\ ~(d <= c)
        BY <1>2, <2>0
      <3> QED BY <3>1, <3>2
    <2> HIDE DEF Upto
    <2>2. /\ Cardinality(Upto(c)) <= Cardinality(Upto(d))
          /\ Cardinality(Upto(c)) # Cardinality(Upto(d))
      BY <1>0, <2>1, FS_Subset
    <2> QED BY <1>0, <1>1, <2>2
  <1> HIDE DEF Upto
  <1>3. rank \in [S -> 1..n]
    BY <1>1
  <1>4. \A c, d \in S : rank[c] = rank[d] => c = d
    <2> SUFFICES ASSUME NEW c \in S, NEW d \in S, c # d PROVE rank[c] # rank[d]
      OBVIOUS
    <2>1. c < d \/ d < c
      OBVIOUS
    <2>2. rank[c] \in 1..n /\ rank[d] \in 1..n
      BY <1>3
    <2>3. rank[c] < rank[d] \/ rank[d] < rank[c]
      BY <1>2, <2>1
    <2> QED BY <2>2, <2>3
  <1>5. \A i \in 1..n : \E c \in S : rank[c] = i
    <2>1. rank \in Injection(S, 1..n)
      BY <1>3, <1>4 DEF Injection, IsInjective
    <2>2. rank \in Surjection(S, 1..n)
      BY <1>0, <2>1, FS_Injection
    <2> QED BY <2>2 DEF Surjection
  <1>6. PICK q \in [1..n -> S] : \A i \in 1..n : rank[q[i]] = i
    <2> DEFINE q == [i \in 1..n |-> CHOOSE c \in S : rank[c] = i]
    <2>1. \A i \in 1..n : q[i] \in S /\ rank[q[i]] = i
      BY <1>5
    <2> QED BY <2>1
  <1>7. \A i, j \in 1..n : i < j => q[i] < q[j]
    <2> SUFFICES ASSUME NEW i \in 1..n, NEW j \in 1..n, i < j, ~(q[i] < q[j])
                 PROVE  FALSE
      OBVIOUS
    <2>1. rank[q[i]] = i /\ rank[q[j]] = j /\ q[i] \in S /\ q[j] \in S
      BY <1>6
    <2>2. q[j] < q[i] \/ q[i] = q[j]
      <3>1. q[i] \in Nat /\ q[j] \in Nat
        BY <2>1
      <3> QED BY <3>1
    <2>3. q[j] < q[i] => rank[q[j]] < rank[q[i]]
      BY <1>2, <2>1
    <2> QED BY <2>1, <2>2, <2>3
  <1>8. \E s \in [1..n -> S] : \A i, j \in 1..n : i < j => s[i] < s[j]
    BY <1>7
  <1> QED BY <1>8, Zenon DEF InOrder

-----------------------------------------------------------------------------
Counters == [Cores -> [idle : Nat, busy : Nat]]
LineTypes == [idle : Nat, total : Nat]

(* The lines of the cores of S: that of all first, then each core's.       *)
LEMMA LinesAre ==
    ASSUME NEW S \in SUBSET Cores, NEW count \in Counters,
           SumFunction([c \in Cores |-> count[c].idle]) \in Nat,
           SumFunction([c \in Cores |-> count[c].busy]) \in Nat
    PROVE  /\ Cardinality(S) \in Nat
           /\ LinesOf(S, count) \in Seq(LineTypes)
           /\ Len(LinesOf(S, count)) = Cardinality(S) + 1
           /\ LinesOf(S, count)[1] = Line(SumFunction([c \in Cores |-> count[c].idle]),
                                          SumFunction([c \in Cores |-> count[c].busy]))
           /\ \A i \in 2..Cardinality(S) + 1 :
                 /\ InOrder(S)[i - 1] \in Cores
                 /\ LinesOf(S, count)[i] = Line(count[InOrder(S)[i - 1]].idle,
                                                count[InOrder(S)[i - 1]].busy)
  <1> DEFINE n == Cardinality(S)
             all == Line(SumFunction([c \in Cores |-> count[c].idle]),
                         SumFunction([c \in Cores |-> count[c].busy]))
             each == [i \in 1..n |-> Line(count[InOrder(S)[i]].idle, count[InOrder(S)[i]].busy)]
  <1>1. IsFiniteSet(S) /\ S \in SUBSET Nat /\ n \in Nat
    BY HostAssumption, FS_Subset, FS_CardinalityType
  <1>2. InOrder(S) \in [1..n -> S]
    BY <1>1, OrderExists
  <1>3. all \in LineTypes
    BY DEF Line, LineTypes
  <1>4. \A i \in 1..n : InOrder(S)[i] \in Cores /\ each[i] \in LineTypes
    BY <1>2 DEF Counters, Line, LineTypes
  <1> HIDE DEF all
  <1>5. each \in Seq(LineTypes) /\ Len(each) = n
    BY <1>1, <1>4
  <1>6. LinesOf(S, count) = <<all>> \o each
    BY DEF LinesOf, all
  <1>7. \A i \in 1..n : each[i] = Line(count[InOrder(S)[i]].idle, count[InOrder(S)[i]].busy)
    OBVIOUS
  <1> HIDE DEF each
  <1>8. <<all>> \in Seq(LineTypes) /\ Len(<<all>>) = 1 /\ <<all>>[1] = all
    BY <1>3
  <1>9. /\ <<all>> \o each \in Seq(LineTypes) /\ Len(<<all>> \o each) = n + 1
        /\ (<<all>> \o each)[1] = all
        /\ \A i \in 2..n + 1 : i - 1 \in 1..n /\ (<<all>> \o each)[i] = each[i - 1]
    BY <1>1, <1>5, <1>8
  <1> QED BY <1>1, <1>4, <1>6, <1>7, <1>9 DEF all

(* UsageRatio, of any two lines, and of two between which nothing moved.   *)
LEMMA RatioIsRatio ==
    ASSUME NEW old \in LineTypes, NEW cur \in LineTypes
    PROVE  UsageRatio(old, cur).busy \in 0..UsageRatio(old, cur).of
  <1>1. PICK w \in Nat : w = 2^Width /\ w > 0
    BY WidthFacts
  <1>2. old.total \in Nat /\ cur.total \in Nat /\ (cur.idle - old.idle) \in Int
    BY DEF LineTypes
  <1>3. (cur.idle - old.idle) % w \in Nat
    BY <1>1, <1>2
  <1> QED BY <1>1, <1>2, <1>3 DEF UsageRatio

LEMMA RatioIsShare ==
    ASSUME NEW i0 \in Nat, NEW b0 \in Nat, NEW i1 \in Nat, NEW b1 \in Nat,
           i0 <= i1, b0 <= b1, i1 - i0 \in 0..(2^Width - 1)
    PROVE  LET u == UsageRatio(Line(i0, b0), Line(i1, b1))
               t == Line(i1 - i0, b1 - b0)
           IN  u.busy * t.total = (t.total - t.idle) * u.of
  <1>1. (i1 - i0) % 2^Width = i1 - i0
    <2>1. PICK w \in Nat : w = 2^Width
      BY HostAssumption
    <2>2. PICK i \in Nat : i = i1 - i0 /\ i < w
      BY <2>1
    <2>3. i % w = i
      BY <2>2
    <2> QED BY <2>1, <2>2, <2>3
  <1>2. CASE i1 + b1 <= i0 + b0
    <2>1. UsageRatio(Line(i0, b0), Line(i1, b1)) = [busy |-> 0, of |-> 1]
      BY <1>2 DEF UsageRatio, Line
    <2>2. i1 - i0 = 0 /\ b1 - b0 = 0
      BY <1>2
    <2> QED BY <2>1, <2>2 DEF Line
  <1>3. CASE i1 + b1 > i0 + b0
    <2>1. PICK t \in Nat : t = (i1 + b1) - (i0 + b0) /\ t = (i1 - i0) + (b1 - b0)
      BY <1>3
    <2>2. UsageRatio(Line(i0, b0), Line(i1, b1)) = [busy |-> t - (i1 - i0), of |-> t]
      BY <1>1, <1>3, <2>1 DEF UsageRatio, Line
    <2>3. Line(i1 - i0, b1 - b0) = [idle |-> i1 - i0, total |-> t]
      BY <2>1 DEF Line
    <2> QED BY <2>2, <2>3
  <1> QED BY <1>2, <1>3

-----------------------------------------------------------------------------
Counted(cores, count) == {c \in cores : count[c].idle + count[c].busy > 0}

HostTypes ==
    /\ clock \in 0..MaxTime /\ online \in SUBSET Cores /\ moved \in BOOLEAN
    /\ stat \in Counters /\ before \in Counters
    /\ \A c \in Cores : stat[c].idle <= clock + 1 /\ stat[c].busy <= clock
    /\ \A c \in Cores : before[c].idle <= MaxTime + 1 /\ before[c].busy <= MaxTime + 1
    /\ prev \in Seq(LineTypes)

(* While nothing moved the counters have gone on from the last sample's,   *)
(* whose lines are those of the cores that are there now.                  *)
GoesOn ==
    ~moved => /\ \A c \in Cores : before[c].idle <= stat[c].idle /\ before[c].busy <= stat[c].busy
              /\ prev = <<>> \/ prev = LinesOf(Counted(online, before), before)

HostInv == HostTypes /\ GoesOn /\ LoadIsMeasured

LEMMA HostStart == HostInit => HostInv
  <1> SUFFICES ASSUME HostInit PROVE HostInv
    OBVIOUS
  <1>1. stat \in Counters /\ \A c \in Cores : stat[c].idle \in 0..1 /\ stat[c].busy = 0
    BY DEF HostInit, Counters
  <1>2. HostTypes
    <2>1. clock = 0 /\ MaxTime \in Nat /\ before = stat /\ online = Cores
      BY HostAssumption DEF HostInit
    <2>2. \A c \in Cores : /\ stat[c].idle <= clock + 1 /\ stat[c].busy <= clock
                           /\ before[c].idle <= MaxTime + 1 /\ before[c].busy <= MaxTime + 1
      BY <1>1, <2>1
    <2>3. prev \in Seq(LineTypes) /\ moved \in BOOLEAN
      <3>1. prev = <<>> /\ moved = FALSE
        BY DEF HostInit
      <3>2. <<>> \in Seq(LineTypes)
        OBVIOUS
      <3> QED BY <3>1, <3>2
    <2> QED BY <1>1, <2>1, <2>2, <2>3 DEF HostTypes
  <1>3. GoesOn
    BY <1>1 DEF HostInit, GoesOn, Counters
  <1> QED BY <1>2, <1>3 DEF HostInv, HostInit, LoadIsMeasured

(* The counters of a sample and of what comes after it, line by line.      *)
LEMMA CountersAre ==
    ASSUME HostTypes, NEW c \in Cores
    PROVE  /\ stat[c].idle \in Nat /\ stat[c].busy \in Nat
           /\ before[c].idle \in Nat /\ before[c].busy \in Nat
           /\ stat[c].idle <= MaxTime + 1 /\ stat[c].busy <= MaxTime + 1
  <1>1. stat[c] \in [idle : Nat, busy : Nat] /\ before[c] \in [idle : Nat, busy : Nat]
    BY DEF HostTypes, Counters
  <1>2. clock \in Nat /\ MaxTime \in Nat /\ clock <= MaxTime
    BY HostAssumption DEF HostTypes
  <1>3. stat[c].idle <= clock + 1 /\ stat[c].busy <= clock
    BY DEF HostTypes
  <1> QED BY <1>1, <1>2, <1>3

LEMMA CountersAddUp ==
    ASSUME NEW count \in Counters,
           \A c \in Cores : count[c].idle <= MaxTime + 1 /\ count[c].busy <= MaxTime + 1
    PROVE  /\ SumFunction([c \in Cores |-> count[c].idle]) \in Nat
           /\ SumFunction([c \in Cores |-> count[c].busy]) \in Nat
  <1> DEFINE idle == [c \in Cores |-> count[c].idle]
             busy == [c \in Cores |-> count[c].busy]
             none == [c \in Cores |-> 0]
  <1>1. /\ idle \in [Cores -> Nat] /\ busy \in [Cores -> Nat] /\ none \in [Cores -> Nat]
        /\ \A c \in Cores : idle[c] <= MaxTime + 1 /\ busy[c] <= MaxTime + 1 /\ none[c] = 0
    BY DEF Counters
  <1> HIDE DEF idle, busy, none
  <1>2. \A c \in Cores : idle[c] \in Nat /\ busy[c] \in Nat
    BY <1>1
  <1>3. /\ idle \in [Cores -> Int] /\ busy \in [Cores -> Int]
        /\ \A c \in Cores : none[c] <= idle[c] /\ idle[c] = idle[c] - none[c]
        /\ \A c \in Cores : none[c] <= busy[c] /\ busy[c] = busy[c] - none[c]
    BY <1>1, <1>2
  <1>4. SumFunction(idle) \in Nat
    BY <1>1, <1>3, SumOfDifferences
  <1>5. SumFunction(busy) \in Nat
    BY <1>1, <1>3, SumOfDifferences
  <1> QED BY <1>4, <1>5 DEF idle, busy

(* The sums of what the kernel counted, now and at the last sample.        *)
LEMMA StatAddsUp ==
    ASSUME HostTypes
    PROVE  /\ SumFunction([c \in Cores |-> stat[c].idle]) \in Nat
           /\ SumFunction([c \in Cores |-> stat[c].busy]) \in Nat
           /\ SumFunction([c \in Cores |-> before[c].idle]) \in Nat
           /\ SumFunction([c \in Cores |-> before[c].busy]) \in Nat
  <1>1. stat \in Counters /\ before \in Counters
    BY DEF HostTypes
  <1>2. \A c \in Cores : stat[c].idle <= MaxTime + 1 /\ stat[c].busy <= MaxTime + 1
    BY CountersAre
  <1>3. \A c \in Cores : before[c].idle <= MaxTime + 1 /\ before[c].busy <= MaxTime + 1
    BY DEF HostTypes
  <1> QED BY <1>1, <1>2, <1>3, CountersAddUp

(* What was counted between the last sample and now, of each core and of   *)
(* all, fits into a counter.                                               *)
LEMMA SpentIsDifference ==
    ASSUME HostTypes, NEW diff \in Counters,
           \A c \in Cores : /\ before[c].idle <= stat[c].idle /\ before[c].busy <= stat[c].busy
                            /\ diff[c].idle = stat[c].idle - before[c].idle
                            /\ diff[c].busy = stat[c].busy - before[c].busy
    PROVE  /\ SumFunction([c \in Cores |-> diff[c].idle]) =
                  SumFunction([c \in Cores |-> stat[c].idle])
                    - SumFunction([c \in Cores |-> before[c].idle])
           /\ SumFunction([c \in Cores |-> diff[c].busy]) =
                  SumFunction([c \in Cores |-> stat[c].busy])
                    - SumFunction([c \in Cores |-> before[c].busy])
           /\ SumFunction([c \in Cores |-> diff[c].idle]) \in 0..(2^Width - 1)
           /\ SumFunction([c \in Cores |-> diff[c].idle]) \in Nat
           /\ SumFunction([c \in Cores |-> diff[c].busy]) \in Nat
           /\ \A c \in Cores : stat[c].idle - before[c].idle \in 0..(2^Width - 1)
  <1> DEFINE bi == [c \in Cores |-> before[c].idle]
             bb == [c \in Cores |-> before[c].busy]
             si == [c \in Cores |-> stat[c].idle]
             sb == [c \in Cores |-> stat[c].busy]
             di == [c \in Cores |-> diff[c].idle]
             db == [c \in Cores |-> diff[c].busy]
  <1>1. /\ bi \in [Cores -> Nat] /\ si \in [Cores -> Nat] /\ di \in [Cores -> Int]
        /\ bb \in [Cores -> Nat] /\ sb \in [Cores -> Nat] /\ db \in [Cores -> Int]
    BY DEF HostTypes, Counters
  <1>2. /\ \A c \in Cores : bi[c] <= si[c] /\ si[c] <= MaxTime + 1 /\ di[c] = si[c] - bi[c]
        /\ \A c \in Cores : bb[c] <= sb[c] /\ sb[c] <= MaxTime + 1 /\ db[c] = sb[c] - bb[c]
    BY CountersAre
  <1>3. \A c \in Cores : stat[c].idle - before[c].idle \in 0..(2^Width - 1)
    <2> TAKE c \in Cores
    <2>1. PICK w \in Nat : w = 2^Width
      BY WidthFacts
    <2>2. PICK t \in 0..(w - 1) : t = MaxTime + 1
      BY <2>1, WidthFacts
    <2>3. stat[c].idle - before[c].idle \in 0..t
      BY <2>2, CountersAre
    <2> QED BY <2>1, <2>2, <2>3
  <1> HIDE DEF bi, bb, si, sb, di, db
  <1>4. SumFunction(di) = SumFunction(si) - SumFunction(bi) /\ SumFunction(di) \in 0..(2^Width - 1)
    BY <1>1, <1>2, SumOfDifferences
  <1>5. SumFunction(di) \in Nat
    BY <1>4
  <1>6. SumFunction(db) = SumFunction(sb) - SumFunction(bb) /\ SumFunction(db) \in Nat
    <2>1. SumFunction(db) \in 0..(2^Width - 1)
      BY <1>1, <1>2, SumOfDifferences
    <2>2. SumFunction(db) = SumFunction(sb) - SumFunction(bb)
      BY <1>1, <1>2, SumOfDifferences
    <2> QED BY <2>1, <2>2
  <1> QED BY <1>3, <1>4, <1>5, <1>6 DEF bi, bb, si, sb, di, db

(* Share(l, u): u is the busy share of what the line l says was spent.     *)
Share(l, u) == u.busy * l.total = (l.total - l.idle) * u.of

LEMMA EachIsShare ==
    ASSUME HostTypes, NEW S \in SUBSET Cores, NEW diff \in Counters,
           \A c \in Cores : /\ before[c].idle <= stat[c].idle /\ before[c].busy <= stat[c].busy
                            /\ diff[c].idle = stat[c].idle - before[c].idle
                            /\ diff[c].busy = stat[c].busy - before[c].busy,
           NEW i \in 1..Cardinality(S) + 1
    PROVE  Share(LinesOf(S, diff)[i], UsageRatio(LinesOf(S, before)[i], LinesOf(S, stat)[i]))
  <1>1. stat \in Counters /\ before \in Counters
    BY DEF HostTypes
  <1>2. /\ SumFunction([c \in Cores |-> diff[c].idle]) \in Nat
        /\ SumFunction([c \in Cores |-> diff[c].busy]) \in Nat
    BY SpentIsDifference
  <1>3. \A count \in {before, stat, diff} :
            /\ count \in Counters
            /\ SumFunction([c \in Cores |-> count[c].idle]) \in Nat
            /\ SumFunction([c \in Cores |-> count[c].busy]) \in Nat
    BY <1>1, <1>2, StatAddsUp
  <1>4. \A count \in {before, stat, diff} :
            \A j \in 2..Cardinality(S) + 1 :
                /\ InOrder(S)[j - 1] \in Cores
                /\ LinesOf(S, count)[j] = Line(count[InOrder(S)[j - 1]].idle,
                                              count[InOrder(S)[j - 1]].busy)
    BY <1>3, LinesAre
  <1>5. Cardinality(S) \in Nat
    BY <1>3, LinesAre
  <1>6. CASE i = 1
    <2>1. PICK i0 \in Nat, b0 \in Nat, i1 \in Nat, b1 \in Nat :
             /\ i0 = SumFunction([c \in Cores |-> before[c].idle])
             /\ b0 = SumFunction([c \in Cores |-> before[c].busy])
             /\ i1 = SumFunction([c \in Cores |-> stat[c].idle])
             /\ b1 = SumFunction([c \in Cores |-> stat[c].busy])
      BY StatAddsUp
    <2>2. /\ SumFunction([c \in Cores |-> diff[c].idle]) = i1 - i0
          /\ SumFunction([c \in Cores |-> diff[c].busy]) = b1 - b0
          /\ i1 - i0 \in 0..(2^Width - 1)
      BY <2>1, SpentIsDifference
    <2>3. i0 <= i1 /\ b0 <= b1
      BY <1>2, <2>2
    <2>4. /\ LinesOf(S, before)[1] = Line(i0, b0) /\ LinesOf(S, stat)[1] = Line(i1, b1)
          /\ LinesOf(S, diff)[1] = Line(i1 - i0, b1 - b0)
      BY <1>1, <1>2, <2>1, <2>2, StatAddsUp, LinesAre
    <2> QED BY <1>6, <2>2, <2>3, <2>4, RatioIsShare DEF Share
  <1>7. CASE i # 1
    <2>0. i \in 2..Cardinality(S) + 1
      BY <1>7, <1>5
    <2>1. PICK c \in Cores : c = InOrder(S)[i - 1]
      BY <1>4, <2>0
    <2>2. PICK i0 \in Nat, b0 \in Nat, i1 \in Nat, b1 \in Nat :
             i0 = before[c].idle /\ b0 = before[c].busy /\ i1 = stat[c].idle /\ b1 = stat[c].busy
      BY CountersAre
    <2>3. /\ diff[c].idle = i1 - i0 /\ diff[c].busy = b1 - b0 /\ i0 <= i1 /\ b0 <= b1
      BY <2>2
    <2>4. i1 - i0 \in 0..(2^Width - 1)
      BY <2>2, SpentIsDifference
    <2>5. /\ LinesOf(S, before)[i] = Line(i0, b0) /\ LinesOf(S, stat)[i] = Line(i1, b1)
          /\ LinesOf(S, diff)[i] = Line(i1 - i0, b1 - b0)
      BY <1>4, <2>0, <2>1, <2>2, <2>3
    <2> QED BY <2>3, <2>4, <2>5, RatioIsShare DEF Share
  <1> QED BY <1>6, <1>7

(* While nothing moved a core has a line now if it had one, and there are  *)
(* ratios only if there are as many: so the lines are of the same cores.   *)
LEMMA SampleStep ==
    ASSUME HostInv, Sample
    PROVE  HostInv'
  <1> DEFINE S == Counted(online, stat)
             L == LinesOf(S, stat)
  <1>0. /\ stat \in Counters /\ before \in Counters /\ online \in SUBSET Cores
        /\ S \in SUBSET Cores /\ IsFiniteSet(S)
    <2>1. stat \in Counters /\ before \in Counters /\ online \in SUBSET Cores
      BY DEF HostInv, HostTypes
    <2>2. S \in SUBSET Cores
      BY <2>1 DEF Counted
    <2> QED BY <2>1, <2>2, HostAssumption, FS_Subset
  <1>1. \A count : Lines(count) = LinesOf(S, count)
    BY DEF Lines, Counted
  <1>2. /\ prev' = L /\ before' = stat /\ moved' = FALSE
        /\ UNCHANGED <<clock, stat, online>>
        /\ usage' = IF Len(prev) # Len(L) THEN <<>>
                    ELSE [i \in DOMAIN prev |-> UsageRatio(prev[i], L[i])]
    BY <1>1 DEF Sample
  <1>3. L \in Seq(LineTypes) /\ Len(L) = Cardinality(S) + 1 /\ Cardinality(S) \in Nat
    BY <1>0, StatAddsUp, LinesAre DEF HostInv
  <1> HIDE DEF L
  <1>4. HostTypes'
    <2>1. \A c \in Cores : stat[c].idle <= MaxTime + 1 /\ stat[c].busy <= MaxTime + 1
      BY CountersAre DEF HostInv
    <2> QED BY <1>2, <1>3, <2>1 DEF HostInv, HostTypes
  <1>5. GoesOn'
    <2>1. \A c \in Cores : stat[c].idle <= stat[c].idle /\ stat[c].busy <= stat[c].busy
      BY CountersAre DEF HostInv
    <2>2. prev' = LinesOf(Counted(online', before'), before')
      BY <1>2 DEF L
    <2> QED BY <1>2, <2>1, <2>2 DEF GoesOn
  <1>6. \A i \in DOMAIN usage' : usage'[i].busy \in 0..usage'[i].of
    <2>1. CASE Len(prev) # Len(L)
      BY <1>2, <2>1
    <2>2. CASE Len(prev) = Len(L)
      <3>1. prev \in Seq(LineTypes)
        BY DEF HostInv, HostTypes
      <3>2. \A i \in DOMAIN prev : prev[i] \in LineTypes /\ L[i] \in LineTypes
        BY <1>3, <2>2, <3>1
      <3> QED BY <1>2, <2>2, <3>2, RatioIsRatio
    <2> QED BY <2>1, <2>2
  <1>7. ASSUME usage' # <<>>, spent' # <<>>, NEW i \in DOMAIN usage'
        PROVE  Share(spent'[i], usage'[i])
    <2> DEFINE diff == [c \in Cores |-> [idle |-> stat[c].idle - before[c].idle,
                                         busy |-> stat[c].busy - before[c].busy]]
    <2>1. ~moved /\ spent' = LinesOf(S, diff)
      BY <1>1, <1>7 DEF Sample
    <2>2. \A c \in Cores : before[c].idle <= stat[c].idle /\ before[c].busy <= stat[c].busy
      BY <2>1 DEF HostInv, GoesOn
    <2>3. diff \in Counters
      <3>1. ASSUME NEW c \in Cores
            PROVE  stat[c].idle - before[c].idle \in Nat /\ stat[c].busy - before[c].busy \in Nat
        BY <2>2, CountersAre DEF HostInv
      <3> QED BY <3>1 DEF Counters
    <2>4. \A c \in Cores : /\ diff[c].idle = stat[c].idle - before[c].idle
                           /\ diff[c].busy = stat[c].busy - before[c].busy
      OBVIOUS
    <2> HIDE DEF diff
    <2>5. /\ Len(prev) = Cardinality(S) + 1
          /\ usage' = [j \in DOMAIN prev |-> UsageRatio(prev[j], L[j])]
      BY <1>2, <1>3, <1>7
    <2>6. prev = LinesOf(Counted(online, before), before)
      <3>1. prev # <<>>
        BY <1>3, <2>5
      <3> QED BY <2>1, <3>1 DEF HostInv, GoesOn
    <2>7. Counted(online, before) = S
      <3>1. Counted(online, before) \in SUBSET S
        <4> SUFFICES ASSUME NEW c \in online, before[c].idle + before[c].busy > 0
                     PROVE  stat[c].idle + stat[c].busy > 0
          BY DEF Counted
        <4>1. c \in Cores
          BY <1>0
        <4> QED BY <2>2, <4>1, CountersAre DEF HostInv
      <3>2. Counted(online, before) \in SUBSET Cores
        BY <1>0, <3>1
      <3>3. Len(prev) = Cardinality(Counted(online, before)) + 1
              /\ Cardinality(Counted(online, before)) \in Nat
        BY <1>0, <2>6, <3>2, StatAddsUp, LinesAre DEF HostInv
      <3>4. Cardinality(Counted(online, before)) = Cardinality(S)
        BY <1>3, <2>5, <3>3
      <3> HIDE DEF S
      <3> QED BY <1>0, <3>1, <3>4, FS_Subset
    <2>8. /\ i \in 1..Cardinality(S) + 1
          /\ usage'[i] = UsageRatio(LinesOf(S, before)[i], LinesOf(S, stat)[i])
      <3>1. DOMAIN prev = 1..Cardinality(S) + 1
        <4>1. prev \in Seq(LineTypes)
          BY DEF HostInv, HostTypes
        <4> QED BY <2>5, <4>1
      <3> QED BY <1>7, <2>5, <2>6, <2>7, <3>1 DEF L
    <2> HIDE DEF S
    <2>9. Share(LinesOf(S, diff)[i], UsageRatio(LinesOf(S, before)[i], LinesOf(S, stat)[i]))
      BY <1>0, <2>2, <2>3, <2>4, <2>8, EachIsShare DEF HostInv
    <2> QED BY <2>1, <2>8, <2>9
  <1>8. LoadIsMeasured'
    BY <1>6, <1>7 DEF LoadIsMeasured, Share
  <1> QED BY <1>4, <1>5, <1>8 DEF HostInv

(* Between two samples the counters go on, or something is said to have    *)
(* moved.                                                                  *)
LEMMA KernelStep ==
    ASSUME HostInv, UNCHANGED <<prev, usage, before, spent>>,
           \/ \E working \in SUBSET online : Jiffy(working)
           \/ \E cores \in SUBSET Cores : Plug(cores)
           \/ \E c \in Cores : Uncount(c)
           \/ UNCHANGED hostVars
    PROVE  HostInv'
  <1>1. LoadIsMeasured'
    BY DEF HostInv, LoadIsMeasured
  <1>2. HostTypes /\ GoesOn
    BY DEF HostInv
  <1>3. CASE \E working \in SUBSET online : Jiffy(working)
    <2>1. PICK working \in SUBSET online : Jiffy(working)
      BY <1>3
    <2>2. clock \in Nat /\ MaxTime \in Nat /\ clock' = clock + 1 /\ clock' \in 0..MaxTime
      BY <1>2, <2>1, HostAssumption DEF HostTypes, Jiffy
    <2>3. ASSUME NEW c \in Cores
          PROVE  /\ stat'[c] \in [idle : Nat, busy : Nat]
                 /\ stat[c].idle <= stat'[c].idle /\ stat[c].busy <= stat'[c].busy
                 /\ stat'[c].idle <= clock' + 1 /\ stat'[c].busy <= clock'
      <3>1. /\ stat[c] \in [idle : Nat, busy : Nat]
            /\ stat[c].idle <= clock + 1 /\ stat[c].busy <= clock
        BY <1>2 DEF HostTypes, Counters
      <3>2. \/ stat'[c] = stat[c]
            \/ stat'[c] = [stat[c] EXCEPT !.busy = stat[c].busy + 1]
            \/ stat'[c] = [stat[c] EXCEPT !.idle = stat[c].idle + 1]
        BY <2>1 DEF Jiffy
      <3> QED BY <2>2, <3>1, <3>2
    <2>4. stat' \in Counters
      BY <2>1, <2>3 DEF Jiffy, Counters
    <2>5. HostTypes'
      BY <1>2, <2>1, <2>2, <2>3, <2>4 DEF HostTypes, Jiffy
    <2>6. GoesOn'
      <3> SUFFICES ASSUME ~moved PROVE GoesOn'
        BY <2>1 DEF Jiffy, GoesOn
      <3>1. ASSUME NEW c \in Cores
            PROVE  before'[c].idle <= stat'[c].idle /\ before'[c].busy <= stat'[c].busy
        <4>1. before[c].idle <= stat[c].idle /\ before[c].busy <= stat[c].busy /\ before' = before
          BY <1>2, <2>1 DEF GoesOn, Jiffy
        <4>2. stat'[c].idle \in Nat /\ stat'[c].busy \in Nat
          BY <2>3
        <4> QED BY <1>2, <2>3, <4>1, <4>2, CountersAre
      <3>2. prev' = <<>> \/ prev' = LinesOf(Counted(online', before'), before')
        BY <1>2, <2>1 DEF GoesOn, Jiffy
      <3> QED BY <3>1, <3>2 DEF GoesOn
    <2> QED BY <1>1, <2>5, <2>6 DEF HostInv
  <1>4. CASE \E cores \in SUBSET Cores : Plug(cores)
    BY <1>1, <1>2, <1>4 DEF Plug, HostInv, HostTypes, GoesOn
  <1>5. CASE \E c \in Cores : Uncount(c)
    <2>1. PICK c \in Cores : Uncount(c)
      BY <1>5
    <2>2. /\ stat[c] \in [idle : Nat, busy : Nat] /\ stat[c].idle > 1
          /\ stat[c].idle <= clock + 1 /\ clock \in Nat
      BY <1>2, <2>1, HostAssumption DEF Uncount, HostTypes, Counters
    <2>3. /\ stat' \in Counters /\ \A d \in Cores \ {c} : stat'[d] = stat[d]
          /\ stat'[c].idle = stat[c].idle - 1 /\ stat'[c].busy = stat[c].busy
      <3>1. stat'= [stat EXCEPT ![c] = [stat[c] EXCEPT !.idle = stat[c].idle - 1]]
        BY <2>1 DEF Uncount
      <3>2. [stat[c] EXCEPT !.idle = stat[c].idle - 1] \in [idle : Nat, busy : Nat]
        BY <2>2
      <3> QED BY <1>2, <2>2, <3>1, <3>2 DEF HostTypes, Counters
    <2>4. \A d \in Cores : stat'[d].idle <= clock + 1 /\ stat'[d].busy <= clock
      BY <1>2, <2>2, <2>3 DEF HostTypes
    <2> QED BY <1>1, <1>2, <2>1, <2>3, <2>4 DEF Uncount, HostInv, HostTypes, GoesOn
  <1>6. CASE UNCHANGED hostVars
    BY <1>1, <1>2, <1>6 DEF hostVars, HostInv, HostTypes, GoesOn
  <1> QED BY <1>3, <1>4, <1>5, <1>6

(***************************************************************************)
(* What the field master and host_monitor publish as measured was measured:*)
(* the channels' measurements where and when it is said, and each ratio of *)
(* load is the share of its own core's time, or of all cores', since the   *)
(* sample before, whatever cores came and went and counters went back: for *)
(* any number of channels and of cores.                                    *)
(***************************************************************************)
THEOREM MeasurementsArePublished == DevicesSpec => []PublishedIsMeasured
  <1>1. DevicesInit => BusInv /\ HostInv
    BY BusStart, HostStart DEF DevicesInit
  <1>2. BusInv /\ HostInv
          /\ [DevicesNext]_<<subject, allVars, lpioVars, sbusVars, busVars, stationVars,
                             teleopVars, smartVars, hostVars>>
          => BusInv' /\ HostInv'
    <2> SUFFICES ASSUME BusInv, HostInv, [BusNext]_busVars, [HostNext]_hostVars
                 PROVE  BusInv' /\ HostInv'
      BY DEF DevicesNext
    <2>1. BusInv'
      BY BusStep
    <2>2. HostInv'
      <3>1. CASE Sample
        BY <3>1, SampleStep
      <3>2. CASE \/ \E working \in SUBSET online : Jiffy(working)
                 \/ \E cores \in SUBSET Cores : Plug(cores)
                 \/ \E c \in Cores : Uncount(c)
                 \/ UNCHANGED hostVars
        <4>1. UNCHANGED <<prev, usage, before, spent>>
          BY <3>2 DEF Jiffy, Plug, Uncount, hostVars
        <4> QED BY <3>2, <4>1, KernelStep
      <3> QED BY <3>1, <3>2 DEF HostNext
    <2> QED BY <2>1, <2>2
  <1>3. BusInv /\ HostInv => PublishedIsMeasured
    BY DEF BusInv, HostInv, PublishedIsMeasured
  <1> QED BY <1>1, <1>2, <1>3, PTL DEF DevicesSpec

=============================================================================
