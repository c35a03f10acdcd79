------------------------------ MODULE Terminal ------------------------------
(***************************************************************************)
(* The external processes of the host: the search for networks, which       *)
(* src/linuxterminal.cpp runs on a thread of a pool and whose result it     *)
(* queues to the GUI thread, and the script of src/sensors.cpp, whose       *)
(* output is read as it comes.                                              *)
(*                                                                         *)
(* nmcli prints a header and a line for each access point, strongest first. *)
(* The name a line is listed under is its first 18 characters, trimmed: the *)
(* name of the network, or less of a longer one, or with it a part of the   *)
(* next column where all names are short.  NameOf says which lines are      *)
(* listed under one name; what else a list entry shows (strength, security) *)
(* is that of the line it was made of, so an entry is a line here.  A line  *)
(* of the script is a reading of three values.                              *)
(***************************************************************************)
EXTENDS Integers, Sequences, FiniteSets, SequencesExt, Selection

CONSTANTS Header,      \* nmcli's first line
          NetLines,    \* its other lines
          NameOf,      \* the name that a line is listed under
          MaxScans,    \* bound on scans
          Readings,    \* readings of the sensors
          NoReading    \* the values before the first reading

ASSUME TerminalAssumption == Header \notin NetLines /\ NoReading \notin Readings

VARIABLES
    nets,         \* m_nets
    scanning,     \* scans that run: the lines they have read
    found,        \* queued results
    scans,        \* scans started
    output,       \* the script's lines that are not read
    reading,      \* m_temp, m_humidity, m_voc_index
    rivals        \* history: what the scan started last read, and those that ran then

terminalVars == <<nets, scanning, found, scans, output, reading, rivals>>

\* What nmcli may print; nothing if it fails.
Outputs == {<<>>, <<Header>>} \cup {<<Header>> \o lines : lines \in [1 .. 2 -> NetLines]}

-----------------------------------------------------------------------------
\* Mutant: equal names are kept.
NetsWithRepeats(lines) == IF lines = <<>> THEN <<>> ELSE Tail(lines)

\* The first line of each name.
FirstOfEach(lines) ==
    At(lines, {i \in DOMAIN lines : \A j \in 1 .. i - 1 : NameOf[lines[j]] # NameOf[lines[i]]})

\* The lines of nmcli, each name once, without the first line.
NetsOf(lines) == IF lines = <<>> THEN <<>> ELSE Tail(FirstOfEach(lines))

TerminalInit ==
    /\ nets = <<>>
    /\ scanning = {}
    /\ found = <<>>
    /\ scans = 0
    /\ output = <<>>
    /\ reading = NoReading
    /\ rivals = {<<>>}

\* scanNets, to the output of the process.
ScanNets ==
    /\ scans < MaxScans
    /\ scans' = scans + 1
    /\ \E lines \in Outputs :
          /\ scanning' = scanning \cup {[scan |-> scans', lines |-> lines]}
          /\ rivals' = {lines} \cup {s.lines : s \in scanning}
    /\ UNCHANGED <<nets, found, output, reading>>

\* The rest of the function that runs on the pool; two scans end in any order.
ScanDone(s) ==
    /\ s \in scanning
    /\ scanning' = scanning \ {s}
    /\ found' = Append(found, NetsOf(s.lines))
    /\ UNCHANGED <<nets, scans, output, reading, rivals>>

\* Mutant: the list is not emptied.
SetNetsKeeping ==
    /\ found # <<>>
    /\ nets' = nets \o Head(found)
    /\ found' = Tail(found)
    /\ UNCHANGED <<scanning, scans, output, reading, rivals>>

\* The queued call.
SetNets ==
    /\ found # <<>>
    /\ nets' = Head(found)
    /\ found' = Tail(found)
    /\ UNCHANGED <<scanning, scans, output, reading, rivals>>

\* The script prints a line.
Print3 ==
    /\ Len(output) < 2
    /\ \E r \in Readings : output' = Append(output, r)
    /\ UNCHANGED <<nets, scanning, found, scans, reading, rivals>>

\* read_sensor takes all there is; two lines are not three values and are dropped.
ReadSensor ==
    /\ output # <<>>
    /\ reading' = IF Len(output) = 1 THEN output[1] ELSE reading
    /\ output' = <<>>
    /\ UNCHANGED <<nets, scanning, found, scans, rivals>>

TerminalNext ==
    \/ ScanNets \/ SetNets
    \/ \E s \in scanning : ScanDone(s)
    \/ Print3 \/ ReadSensor

TerminalSpec == TerminalInit /\ [][TerminalNext]_terminalVars

-----------------------------------------------------------------------------
\* The list that is to be shown for an output: of each name the first line, which is
\* the strongest, but nothing listed under the header's name.
ShowsScan(list, lines) ==
    ToSet(list) = {lines[i] : i \in {k \in DOMAIN lines :
                       \A j \in 1 .. k - 1 : NameOf[lines[j]] # NameOf[lines[k]]}} \ {Header}

\* The list shown has no name twice and not the header's.  Once nothing runs it is the
\* whole list of the scan that was started last or of one that ran when that was
\* started: those end in any order, and of them the last to end is shown.
LatestScanShown ==
    /\ \A i, j \in DOMAIN nets : NameOf[nets[i]] = NameOf[nets[j]] => i = j
    /\ \A i \in DOMAIN nets : NameOf[nets[i]] # NameOf[Header]
    /\ scanning = {} /\ found = <<>> => \E lines \in rivals : ShowsScan(nets, lines)
=============================================================================
