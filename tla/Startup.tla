------------------------------ MODULE Startup ------------------------------
(***************************************************************************)
(* How the program starts: run.sh checks every device of its configuration  *)
(* with check_device.py before it runs main() of oscLiveMain.c with the     *)
(* devices as arguments; main() can also be run by hand, or asks for its    *)
(* parameters and splits the line with stringSplit().  It creates the       *)
(* bundle buffer, connects the socket, then for each device opens the       *)
(* serial line, makes a message buffer and registers a callback.            *)
(* main() looks for ":" with strtok(), run.sh with cut.  Memory, open() and *)
(* connect() may fail at any time.                                          *)
(* A path is written with the letters of Path, a count with one character.  *)
(***************************************************************************)
EXTENDS StringSplit, OscMessage

CONSTANTS Path,     \* characters that begin the path of a device, "/dev/..."
          Count,    \* the number each character that is a count stands for
          Device,   \* external: what the device at a path sends, and how fast
          Bauds,    \* the baud rates asked for
          BuffSize, \* 256, the read buffer of a device
          MaxFds,   \* MAX_FDS
          Trials    \* how often run.sh tries a device

Colon == ":"

ASSUME CountAssumption ==
  /\ Path \cup DOMAIN Count \cup {Colon} \subseteq Letter
  /\ Path \cap DOMAIN Count = {} /\ Colon \notin Path \cup DOMAIN Count
  /\ \A c \in DOMAIN Count : Count[c] \in Nat
  /\ \A s \in Strings : \A k \in 1 .. Len(s) - 1 :
       ~(s[k] \in DOMAIN Count /\ s[k + 1] \in DOMAIN Count)
\* There is no device at the empty path.
ASSUME DeviceAssumption ==
  /\ \A path \in DOMAIN Device : DOMAIN Device[path] = {"vars", "speed"}
  /\ << >> \notin DOMAIN Device
ASSUME LimitsAssumption ==
  BuffSize \in Nat /\ MaxFds \in Nat \ {0} /\ Trials \in Nat \ {0}

VARIABLES
  via,      \* who gives the parameters: "run.sh", "argv" or "stdin"
  baud,     \* param_baudrate
  stage,    \* "check", "main", "split", "devices", "loop", "exited", "killed"
  checked,  \* how many devices run.sh has found ready
  trials,   \* trials
  socket,   \* the socket is connected and registered
  devices   \* the devices registered: dev_n of them

startVars == <<via, baud, stage, checked, trials, socket, devices>>
allVars == <<vars, startVars>>

\* getBaudRateFromInt() knows them.
Speeds == {0, 50, 75, 110, 134, 150, 200, 300, 600, 1200, 1800, 2400, 4800,
           9600, 19200, 38400, 57600, 115200, 230400}

-----------------------------------------------------------------------------
(* Configuration: /dev/[^:]+:[0-9]{1,2} ?, at least once *)

\* Fault: a count of any length.
AnyCount(c) == c \in DOMAIN Count

ShortCount(c) == c \in DOMAIN Count /\ Count[c] < 100

\* What run.sh takes for an entry and writes to .config: blanks may be part of
\* a path, and none is needed between two devices.
Configurable(s) ==
  LET colons == {k \in 1 .. Len(s) : s[k] = Colon}
      Begins(g) ==
        g = 1 \/ \E c \in colons :
                   g = c + 2 \/ (g = c + 3 /\ s[c + 2] \in Space)
  IN  /\ colons # {}
      /\ \A c \in colons :
           /\ c < Len(s) /\ ShortCount(s[c + 1])
           /\ \E g \in 1 .. c - 1 :
                /\ Begins(g) /\ s[g] \in Path
                /\ (g .. c - 1) \cap colons = {}
           /\ \/ \E d \in colons : d > c
              \/ c + 1 = Len(s)
              \/ c + 2 = Len(s) /\ s[Len(s)] \in Space

StartInit ==
  /\ Init
  /\ baud \in Bauds
  /\ \/ via = "run.sh" /\ Configurable(string) /\ stage = "check"
     \/ via \in {"argv", "stdin"} /\ stage = "main"
  /\ checked = 0 /\ trials = 0
  /\ socket = FALSE /\ devices = << >>

-----------------------------------------------------------------------------
(* run.sh and check_device.py *)

\* cut: the characters up to the next colon.
UpToColon(w, from) ==
  SubSeq(w, from, Min({k \in from .. Len(w) : w[k] = Colon} \cup {Len(w) + 1}) - 1)

devname(w) == UpToColon(w, 1)

\* A line without a colon is its own second field.
inputs(w) == IF devname(w) = w THEN w ELSE UpToColon(w, Len(devname(w)) + 2)

Checking == Words(string)[checked + 1]

\* One run of check_device.py that finds the device in order: it opens the line
\* at the configured speed, and readOneMessage() reads a message of as many
\* variables as configured, which MatchMessage is about.
deviceReady ==
  /\ stage = "check" /\ checked < Len(Words(string))
  /\ devname(Checking) \in DOMAIN Device
  /\ \E c \in DOMAIN Count :
       /\ inputs(Checking) = <<c>>
       /\ Device[devname(Checking)] = [vars |-> Count[c], speed |-> baud]
  /\ checked' = checked + 1 /\ trials' = 0
  /\ UNCHANGED <<vars, via, baud, stage, socket, devices>>

\* Fault: after the last trial the script goes on to the next device.
TrialFailsGoesOn ==
  /\ stage = "check" /\ checked < Len(Words(string))
  /\ devname(Checking) \in DOMAIN Device
  /\ trials' = IF trials + 1 >= Trials THEN 0 ELSE trials + 1
  /\ checked' = IF trials + 1 >= Trials THEN checked + 1 ELSE checked
  /\ UNCHANGED <<vars, via, baud, stage, socket, devices>>

\* Anything else, such as the wrong speed, a number that is none or is not what
\* the device sends, or a message the script was tuned into too late.
trialFails ==
  /\ stage = "check" /\ checked < Len(Words(string))
  /\ devname(Checking) \in DOMAIN Device
  /\ trials' = trials + 1
  /\ stage' = IF trials' >= Trials THEN "exited" ELSE stage
  /\ UNCHANGED <<vars, via, baud, checked, socket, devices>>

notConnected ==
  /\ stage = "check" /\ checked < Len(Words(string))
  /\ stage' = "exited"
  /\ UNCHANGED <<vars, via, baud, checked, trials, socket, devices>>

allReady ==
  /\ stage = "check" /\ checked = Len(Words(string))
  /\ stage' = "main"
  /\ UNCHANGED <<vars, via, baud, checked, trials, socket, devices>>

-----------------------------------------------------------------------------
(* main() *)

\* fscanf() skips blanks and needs one character that is none; stringSplit() gets
\* the rest.
askParameters ==
  /\ stage = "main" /\ via = "stdin"
  /\ \/ \E k \in 1 .. Len(string) :
          /\ string[k] \notin Space
          /\ \A q \in 1 .. k - 1 : string[q] \in Space
          /\ string' = SubSeq(string, k, Len(string))
          /\ stage' = "split"
     \/ /\ \A k \in 1 .. Len(string) : string[k] \in Space
        /\ stage' = "exited" /\ UNCHANGED string
  /\ UNCHANGED <<i, w_start, result, size, pc, via, baud, checked, trials,
                 socket, devices>>

stringSplit ==
  /\ stage = "split"
  /\ Next
  /\ stage' = IF pc' = "failed" THEN "exited" ELSE stage
  /\ UNCHANGED <<via, baud, checked, trials, socket, devices>>

\* param_arduino: the shell has split the arguments of a command.
param_arduino == IF via = "stdin" THEN result ELSE Words(string)

\* No device is no legal use; ring and socket, or the end.
startServer ==
  /\ \/ stage = "main" /\ via # "stdin"
     \/ stage = "split" /\ pc = "done"
  /\ \/ /\ param_arduino # << >>
        /\ socket' = TRUE /\ stage' = "devices"
     \/ socket' = FALSE /\ stage' = "exited"
  /\ UNCHANGED <<vars, via, baud, checked, trials, devices>>

dev_n == Len(devices)

\* strtok(): runs of colons separate, and none is part of a token.
Tokens == Pieces(param_arduino[dev_n + 1], {Colon})

\* atoi(): 0 for what does not begin with a number.
atoi(token) == IF token[1] \in DOMAIN Count THEN Count[token[1]] ELSE 0

\* The device of a turn of the loop: "arduino%d" is numbered with dev_n.
Connected ==
  [name |-> Tokens[1], vars |-> atoi(Tokens[2]), address |-> dev_n, speed |-> baud]

\* connectArduino() opens the path and knows the speed.
CanConnect ==
  /\ Len(Tokens) >= 2
  /\ Tokens[1] \in DOMAIN Device
  /\ baud \in Speeds

\* Fault: a device that finds no slot is left out.
ConnectAnyway ==
  /\ stage = "devices" /\ dev_n < Len(param_arduino)
  /\ \/ /\ CanConnect /\ dev_n < MaxFds
        /\ devices' = Append(devices, Connected)
        /\ UNCHANGED stage
     \/ dev_n >= MaxFds /\ stage' = "loop" /\ UNCHANGED devices
     \/ stage' = "exited" /\ UNCHANGED devices
  /\ UNCHANGED <<vars, via, baud, checked, trials, socket>>

connectDevice ==
  /\ stage = "devices" /\ dev_n < Len(param_arduino)
  /\ \/ /\ CanConnect /\ dev_n < MaxFds
        /\ devices' = Append(devices, Connected)
        /\ UNCHANGED stage
     \/ stage' = "exited" /\ UNCHANGED devices
  /\ UNCHANGED <<vars, via, baud, checked, trials, socket>>

\* createMessageBuffer() finds no memory for itself or for the address and
\* writes to NULL: its assertions are compiled out.
createMessageBufferKills ==
  /\ stage = "devices" /\ dev_n < Len(param_arduino)
  /\ CanConnect
  /\ stage' = "killed"
  /\ UNCHANGED <<vars, via, baud, checked, trials, socket, devices>>

allConnected ==
  /\ stage = "devices" /\ dev_n = Len(param_arduino)
  /\ stage' = "loop"
  /\ UNCHANGED <<vars, via, baud, checked, trials, socket, devices>>

StartNext ==
  \/ deviceReady \/ trialFails \/ notConnected \/ allReady
  \/ askParameters \/ stringSplit \/ startServer
  \/ connectDevice \/ createMessageBufferKills \/ allConnected

StartSpec == StartInit /\ [][StartNext]_allVars

-----------------------------------------------------------------------------
(* Properties *)

\* Every variable has its type.
StartTypeOK ==
  /\ string \in Seq(Letter \cup Space)
  /\ i \in 0 .. Len(string) + 1 /\ w_start \in 0 .. i
  /\ result \in Seq(Seq(Letter)) /\ size \in Nat
  /\ pc \in {"loop", "done", "failed"}
  /\ via \in {"run.sh", "argv", "stdin"} /\ baud \in Bauds
  /\ stage \in {"check", "main", "split", "devices", "loop", "exited", "killed"}
  /\ checked \in Nat /\ trials \in 0 .. Trials /\ socket \in BOOLEAN
  /\ devices \in Seq([name : Seq(Letter), vars : Nat, address : Nat, speed : Bauds])

\* All or nothing: the loop begins only with the socket and with every device of
\* the line, in its order and under its own address, whatever fails on the way
\* and however many devices the registry has room for.
LoopServesAll ==
  stage = "loop" =>
    LET words == Words(string)
    IN  /\ socket
        /\ Len(devices) = Len(words)
        /\ \A k \in 1 .. Len(devices) :
             /\ \E from, to \in 1 .. Len(words[k]) :
                  /\ IsPiece(words[k], {Colon}, from, to)
                  /\ SubSeq(words[k], from, to) = devices[k].name
                  /\ \A q \in 1 .. from - 1 : words[k][q] = Colon
             /\ devices[k].address = k - 1

\* What the script has checked is what the program serves, although they take
\* the entries of the configuration apart in two ways: a device is read with the
\* number of variables and at the speed that it sends with.
ServedAsSent ==
  stage = "loop" /\ via = "run.sh" =>
    \A k \in 1 .. Len(devices) :
      Device[devices[k].name] = [vars |-> devices[k].vars, speed |-> devices[k].speed]

AddressLen(n) == IF n < 10 THEN 8 ELSE 9

\* A device that run.sh lets in has messages that the read buffer holds, and
\* those that matchMessage() looks for are small enough for a bundle, once they
\* are OSC messages.
DevicesFit ==
  stage = "loop" /\ via = "run.sh" =>
    \A k \in 1 .. Len(devices) :
      LET d == devices[k]
      IN  /\ MsgLen(d.vars) <= BuffSize
          /\ d.vars <= MaxVars =>
               /\ MessageFits(AddressLen(d.address), d.vars)
               /\ LayoutIsOsc(AddressLen(d.address), d.vars)

=============================================================================
