------------------------------ MODULE ToolRun ------------------------------
(***************************************************************************)
(* A run of a capturing command of gocore or net-probe (live, capture):    *)
(* which outputs it opens for its options, in which order every event      *)
(* reaches them, and what is in the files when the process ends, by        *)
(* itself, by an error or killed.  The source and the engine's queue are   *)
(* the arrival of events; writes to files succeed (PcapFile and JsonlFile  *)
(* are about those that do not).                                           *)
(***************************************************************************)
EXTENDS Naturals, Sequences, FiniteSets, SequencesExt

CONSTANTS Commands,   \* subset of {"gocore live", "net-probe live", "gocore capture",
                      \* "net-probe capture"}
          Loops,      \* the engine's workers; the capture commands are one loop
          Main,       \* that one
          MaxEvents   \* bound on events that are not filtered out

ASSUME ToolConstants ==
  /\ Commands \subseteq {"gocore live", "net-probe live", "gocore capture", "net-probe capture"}
  /\ Main \in Loops /\ MaxEvents \in Nat

VARIABLES command, opts,  \* opts: outputs the user asked for; "console" means no dashboard
          phase,          \* "open", "running", "stopping", "exited"
          open,           \* files that are open
          item, output,   \* per worker: its event and which output to call, or 0
          arrived,
          got,            \* what each output was given
          onDisk,         \* lines of the JSONL output that have left its buffer
          status          \* exit status; 137 when killed
toolVars == <<command, opts, phase, open, item, output, arrived, got, onDisk, status>>
given == <<item, output, arrived, got, onDisk>>

Live == command \in {"gocore live", "net-probe live"}
\* The options a command knows.
Options ==
  CASE command = "gocore live"    -> {"pcap", "jsonl", "console"}
    [] command = "net-probe live" -> {"pcap", "console"}
    [] OTHER                      -> {"pcap"}

\* An output that is there if it was asked for.
Chosen(x) == IF x \in opts THEN <<x>> ELSE <<>>

\* The files it opens before it starts, in order: gocore's runCapture opens none.
Files == IF command = "gocore capture" THEN <<>> ELSE Chosen("pcap") \o Chosen("jsonl")

\* Mutant: the console sink is added first.
LiveSinksConsoleFirst == Chosen("console") \o Chosen("pcap") \o Chosen("jsonl")

\* The sinks of the engine behind the StatsSink and the ring, in the order of AddSink.
LiveSinks == Chosen("pcap") \o Chosen("jsonl") \o Chosen("console")

\* What an event passes: the sinks, or the body of the loop of runCapture.
Outputs == IF Live THEN LiveSinks ELSE <<"console">> \o Files

ToolInit ==
  /\ command \in Commands /\ opts \in SUBSET Options
  /\ phase = "open" /\ open = {} /\ status = 0
  /\ item = [w \in Loops |-> 0] /\ output = [w \in Loops |-> 0] /\ arrived = 0
  /\ got = [x \in {"pcap", "jsonl", "console"} |-> <<>>] /\ onDisk = 0

\* os.Exit: deferred calls do not run, the kernel closes the files.
Exit(code) == phase' = "exited" /\ status' = code /\ open' = {}

\* The next output file is created, or the command gives up.
OpenFile ==
  /\ phase = "open" /\ Cardinality(open) < Len(Files)
  /\ \/ open' = open \cup {Files[Cardinality(open) + 1]} /\ UNCHANGED <<phase, status>>
     \/ Exit(1)
  /\ UNCHANGED <<command, opts, given>>

Start ==
  /\ phase = "open" /\ Cardinality(open) = Len(Files)
  /\ \/ phase' = "running" /\ UNCHANGED <<open, status>>
     \/ Exit(1)
  /\ UNCHANGED <<command, opts, given>>

\* A worker, or the loop, has the next event; after a signal it still gets those queued.
Receive(w) ==
  /\ phase \in {"running", "stopping"} /\ (Live \/ w = Main)
  /\ item[w] = 0 /\ arrived < MaxEvents
  /\ arrived' = arrived + 1
  /\ item' = [item EXCEPT ![w] = arrived + 1] /\ output' = [output EXCEPT ![w] = 1]
  /\ UNCHANGED <<command, opts, phase, open, got, onDisk, status>>

\* One output is called.  The JSONL writer hands full buffers to the file, so any
\* number of its lines may be out.
Deliver(w) ==
  LET x == Outputs[output[w]]
  IN /\ item[w] # 0 /\ output[w] <= Len(Outputs) /\ phase # "exited"
     /\ got' = [got EXCEPT ![x] = Append(@, item[w])]
     /\ onDisk' \in IF x = "jsonl" THEN onDisk..Len(got'[x]) ELSE {onDisk}
     /\ output' = [output EXCEPT ![w] = @ + 1]
     /\ UNCHANGED <<command, opts, phase, open, item, arrived, status>>

Done(w) ==
  /\ item[w] # 0 /\ output[w] > Len(Outputs) /\ phase # "exited"
  /\ item' = [item EXCEPT ![w] = 0] /\ output' = [output EXCEPT ![w] = 0]
  /\ UNCHANGED <<command, opts, phase, open, arrived, got, onDisk, status>>

Signal ==
  /\ phase = "running" /\ phase' = "stopping"
  /\ UNCHANGED <<command, opts, open, given, status>>

\* main returns: Stop has waited for the workers and closed the sinks, or the loop has
\* ended and the deferred calls run.
Return ==
  /\ phase = "stopping" /\ \A w \in Loops : item[w] = 0
  /\ Exit(0) /\ onDisk' = Len(got["jsonl"])
  /\ UNCHANGED <<command, opts, item, output, arrived, got>>

\* A signal that cannot be caught.
KillTool == phase \in {"running", "stopping"} /\ Exit(137) /\ UNCHANGED <<command, opts, given>>

ToolNext ==
  \/ OpenFile \/ Start \/ Signal \/ Return \/ KillTool
  \/ \E w \in Loops : Receive(w) \/ Deliver(w) \/ Done(w)
ToolSpec == ToolInit /\ [][ToolNext]_toolVars

-----------------------------------------------------------------------------
(* Properties *)

\* What a file holds.
Saved(x) == ToSet(IF x = "jsonl" THEN SubSeq(got[x], 1, onDisk) ELSE got[x])

\* The console never shows an event that a live recording lacks, at any moment and
\* however the process ends: of the capture, what the recording may lack is the last
\* event shown.  (The JSONL output has been given it, which does not help if it is killed.)
ConsoleNeverAhead ==
  \A x \in ToSet(Files) :
    LET missing == ToSet(got["console"]) \ ToSet(got[x])
    IN missing = {} \/ (~Live /\ missing = {Last(got["console"])})

\* A command that ends by itself, after a signal at any moment, leaves every event
\* that arrived once in every file it opened, and has shown each once.
NormalExitKeepsAll ==
  phase = "exited" /\ status = 0 =>
    \A x \in ToSet(Outputs) : Saved(x) = 1..arrived /\ Len(got[x]) = arrived

\* Both: a recording keeps up with the console, and is complete after a normal exit.
RecordingKeepsUp == ConsoleNeverAhead /\ NormalExitKeepsAll
=============================================================================
