-------------------------------- MODULE Lpio --------------------------------
(***************************************************************************)
(* The device classes of platform/lpio: what the objects hold of the       *)
(* system's resources when they are opened, closed, moved and changed.     *)
(* Two objects of one class share one device.  Every system call may fail; *)
(* an open() that fails throws.  A GPIO line is given to one descriptor at *)
(* a time, a PWM channel is exported by a write to a file of sysfs.        *)
(***************************************************************************)
EXTENDS Integers, FiniteSetsExt

CONSTANTS
    Objects,   \* two objects of the class
    Files,     \* the descriptors a process may have (bound of TLC's runs)
    Free,      \* of a descriptor: not open; of a member: no descriptor
    Times      \* the periods and duty cycles, in nanoseconds

(* What a descriptor may be open for.                                      *)
Directions == {"input", "output"}
Uses == [use : {"device", "chip", "line"}, direction : Directions \cup {"none"}]

ASSUME LpioAssumption == Files \subseteq Nat /\ Free \notin Files \cup Uses

VARIABLES
    deviceClass,   \* the class of the objects
    device,        \* the members of each object
    file,          \* what each descriptor is open for, or Free
    pwm            \* the PWM channel, as sysfs shows it; history: is it stuck,
                   \* an unexport() having been refused and none granted since?

lpioVars == <<deviceClass, device, file, pwm>>

(* A SBUSReader is its SerialPort.                                         *)
FdClasses == {"SerialPort", "SBUSReader", "CANBus", "I2CBus", "SPIBus", "RS485"}
Classes == FdClasses \cup {"GPIO", "PWM", "OneWire"}

Settings == [period : Times, duty : Times, enabled : BOOLEAN]

LpioInit ==
    /\ deviceClass \in Classes
    /\ device \in [Objects ->
          [state : {"closed"}, path : {TRUE}, fd : {Free}, chip : {Free}, exported : {FALSE},
           direction : IF deviceClass = "GPIO" THEN Directions ELSE {"input"},
           config : IF deviceClass = "PWM" THEN Settings
                    ELSE {[period |-> 0, duty |-> 0, enabled |-> FALSE]}]]
    /\ file = [f \in Files |-> Free]
    /\ pwm = [exported |-> FALSE, period |-> 0, duty |-> 0, enabled |-> FALSE, stuck |-> FALSE]

Open(o) == device[o].state = "open"
Unused == {f \in Files : file[f] = Free}
For(use) == [use |-> use, direction |-> "none"]

(* What open() does with a class that has one descriptor: an object whose  *)
(* path was moved away, or that a call refuses, stays as it is, and the    *)
(* descriptor opened on the way is closed again.                           *)
OpensFd(o) ==
    LET f == Min(Unused) IN
    /\ Unused # {} /\ device[o].path
    /\ file' = [file EXCEPT ![f] = For("device")]
    /\ device' = [device EXCEPT ![o].fd = f, ![o].state = "open"]

Refused == UNCHANGED <<device, file>>

SerialPort_open(o) == ~Open(o) /\ (OpensFd(o) \/ Refused)

SBUSReader_open(o) == SerialPort_open(o)

CANBus_open(o) == ~Open(o) /\ (OpensFd(o) \/ Refused)

(* The path of a bus is made anew from its number.                         *)
I2CBus_open(o) ==
    /\ ~Open(o)
    /\ \/ OpensFd(o)
       \/ device' = [device EXCEPT ![o].path = TRUE] /\ UNCHANGED file

(* Mutant: the descriptor stays in the object when the settings fail.      *)
SPIBus_open_keeps(o) ==
    /\ ~Open(o)
    /\ \/ OpensFd(o)
       \/ /\ Unused # {} /\ device[o].path
          /\ file' = [file EXCEPT ![Min(Unused)] = For("device")]
          /\ device' = [device EXCEPT ![o].fd = Min(Unused)]

SPIBus_open(o) == ~Open(o) /\ (OpensFd(o) \/ Refused)

(* open() of an open RS485 sets its mode again, and may throw.             *)
RS485_open(o) == (~Open(o) /\ OpensFd(o)) \/ Refused

OneWire_open(o) ==
    /\ ~Open(o)
    /\ \/ device[o].path /\ device' = [device EXCEPT ![o].state = "open"]
       \/ UNCHANGED device
    /\ UNCHANGED file

----------------------------------------------------------------------------
(* GPIO: a descriptor of the chip, and one of the line.                    *)
LineTaken(files) == \E f \in Files : files[f] # Free /\ files[f].use = "line"

requestLine(files, direction) ==
    IF {f \in Files : files[f] = Free} = {} \/ LineTaken(files) THEN {}
    ELSE {[files EXCEPT ![Min({f \in Files : files[f] = Free})] =
              [use |-> "line", direction |-> direction]]}

LineOf(files) == CHOOSE f \in Files : files[f] # Free /\ files[f].use = "line"

GPIO_open(o) ==
    /\ ~Open(o)
    /\ \/ /\ Unused # {} /\ device[o].path
          /\ \E files \in requestLine([file EXCEPT ![Min(Unused)] = For("chip")],
                                      device[o].direction) :
                /\ file' = files
                /\ device' = [device EXCEPT ![o].state = "open", ![o].chip = Min(Unused),
                                            ![o].fd = LineOf(files)]
       \/ Refused

Closed(files, fds) == [f \in Files |-> IF f \in fds THEN Free ELSE files[f]]
Held(o) == {device[o].fd, device[o].chip} \ {Free}

(* The line is given back before it is requested anew; what cannot be had  *)
(* again closes the object.                                                *)
setDirection(o, direction) ==
    LET released == Closed(file, {device[o].fd}) IN
    \/ ~Open(o) /\ device' = [device EXCEPT ![o].direction = direction] /\ UNCHANGED file
    \/ /\ Open(o)
       /\ \E files \in requestLine(released, direction) :
             /\ file' = files
             /\ device' = [device EXCEPT ![o].fd = LineOf(files), ![o].direction = direction]
    \/ /\ Open(o)
       /\ file' = Closed(file, Held(o))
       /\ device' = [device EXCEPT ![o].state = "closed", ![o].fd = Free, ![o].chip = Free]

----------------------------------------------------------------------------
(* PWM: what the system makes of a write to the channel's files.  A write  *)
(* it refuses goes unnoticed: the stream is checked before it is flushed.  *)
Store(channel, attr, value) ==
    LET next == [channel EXCEPT ![attr] = value] IN
    IF channel.exported /\ next.period > 0 /\ next.duty <= next.period THEN next ELSE channel

exportChannel == [pwm EXCEPT !.exported = TRUE]

(* Whether the write succeeds, nobody asks: the channel may stay exported. *)
unexportChannel(channel) ==
    {[channel EXCEPT !.exported = FALSE, !.stuck = FALSE],
     [channel EXCEPT !.stuck = channel.exported]}

(* The steps of open(): a file that is not there makes it throw at any of  *)
(* them, and try to give the channel back.                                 *)
PWM_open(o) ==
    LET config   == device[o].config
        period   == Store(exportChannel, "period", config.period)
        duty     == Store(period, "duty", config.duty)
        enabled  == Store(duty, "enabled", config.enabled)
    IN
    /\ ~Open(o)
    /\ \/ /\ device[o].path
          /\ pwm' = enabled
          /\ device' = [device EXCEPT ![o].state = "open", ![o].exported = TRUE]
       \/ /\ device[o].path
          /\ \E channel \in {exportChannel, period, duty} : pwm' \in unexportChannel(channel)
          /\ UNCHANGED device
       \/ UNCHANGED <<pwm, device>>
    /\ UNCHANGED file

(* setPeriodNs, setDutyCycleNs, setEnabled of an open object: they throw   *)
(* when the channel's files are gone.                                      *)
PWM_set(o, attr, value) ==
    /\ Open(o) /\ pwm.exported
    /\ pwm' = Store(pwm, attr, value)
    /\ device' = [device EXCEPT ![o].config[attr] = value]
    /\ UNCHANGED file

(* close() switches the output off, if off, and says so in the             *)
(* configuration; when it cannot, the exception goes no further.           *)
SwitchedOff(o, off) ==
    [device[o] EXCEPT !.config.enabled =
        IF off /\ Open(o) /\ device[o].exported /\ pwm.exported THEN FALSE ELSE @]

Unexported(o, off) ==
    IF ~device[o].exported THEN {pwm}
    ELSE unexportChannel(IF off /\ Open(o) THEN Store(pwm, "enabled", FALSE) ELSE pwm)

----------------------------------------------------------------------------
(* close(), and what a destructor leaves to the next object.               *)
AfterClose(o, off) ==
    [SwitchedOff(o, off) EXCEPT !.state = "closed", !.fd = Free, !.chip = Free, !.exported = FALSE]

close(o) ==
    /\ file' = Closed(file, Held(o))
    /\ \E off \in BOOLEAN :
          /\ device' = [device EXCEPT ![o] = AfterClose(o, off)]
          /\ pwm' \in Unexported(o, off)

(* to = std::move(from): to is closed and takes over what from has.        *)
move(to, from) ==
    /\ to # from
    /\ device' = [device EXCEPT
          ![to] = device[from],
          ![from].state = "closed", ![from].path = FALSE,
          ![from].fd = Free, ![from].chip = Free, ![from].exported = FALSE]
    /\ file' = Closed(file, Held(to))
    /\ \E off \in BOOLEAN : pwm' \in Unexported(to, off)

(* The life of an object, of each class.                                   *)
Life(o, opens) ==
    \/ opens /\ UNCHANGED pwm
    \/ close(o)
    \/ \E from \in Objects : move(o, from)

SerialPort(o) == Life(o, SerialPort_open(o))
SBUSReader(o) == Life(o, SBUSReader_open(o))
CANBus(o) == Life(o, CANBus_open(o))
I2CBus(o) == Life(o, I2CBus_open(o))
SPIBus(o) == Life(o, SPIBus_open(o))
RS485(o) == Life(o, RS485_open(o))
OneWire(o) == Life(o, OneWire_open(o))
GPIO(o) == Life(o, GPIO_open(o) \/ \E d \in Directions : setDirection(o, d))

PWM(o) ==
    \/ PWM_open(o)
    \/ \E v \in Times : PWM_set(o, "period", v) \/ PWM_set(o, "duty", v)
    \/ \E on \in BOOLEAN : PWM_set(o, "enabled", on)
    \/ close(o)
    \/ \E from \in Objects : move(o, from)

LpioNext ==
    /\ \E o \in Objects :
          \/ deviceClass = "SerialPort" /\ SerialPort(o)
          \/ deviceClass = "SBUSReader" /\ SBUSReader(o)
          \/ deviceClass = "CANBus" /\ CANBus(o)
          \/ deviceClass = "I2CBus" /\ I2CBus(o)
          \/ deviceClass = "SPIBus" /\ SPIBus(o)
          \/ deviceClass = "RS485" /\ RS485(o)
          \/ deviceClass = "OneWire" /\ OneWire(o)
          \/ deviceClass = "GPIO" /\ GPIO(o)
          \/ deviceClass = "PWM" /\ PWM(o)
    /\ UNCHANGED deviceClass

LpioSpec == LpioInit /\ [][LpioNext]_lpioVars

(***************************************************************************)
(* Destruction and failure give back what was acquired: an open object has *)
(* all its class needs, a closed one nothing, whatever was opened, moved   *)
(* or refused before, and no descriptor is open that no object holds or    *)
(* that two hold.  An open GPIO has the line in the direction it says.  A  *)
(* PWM channel that is exported is the one of an open object, unless sysfs *)
(* refused to take it back, which no object notices.                       *)
(***************************************************************************)
Needs == IF deviceClass = "GPIO" THEN 2 ELSE IF deviceClass \in FdClasses THEN 1 ELSE 0

ResourcesFollowState ==
    /\ \A o \in Objects :
          /\ Cardinality(Held(o)) = IF Open(o) THEN Needs ELSE 0
          /\ device[o].exported <=> Open(o) /\ deviceClass = "PWM"
          /\ deviceClass = "GPIO" /\ Open(o) =>
                file[device[o].fd] = [use |-> "line", direction |-> device[o].direction]
    /\ \A f \in Files : Cardinality({o \in Objects : f \in Held(o)}) = IF file[f] = Free THEN 0 ELSE 1
    /\ pwm.exported => pwm.stuck \/ \E o \in Objects : device[o].exported

=============================================================================
