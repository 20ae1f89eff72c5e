-------------------------- MODULE EpisodeRecorder --------------------------
(* The recorder of a session (YAM_control/training_recorder.py), as the    *)
(* operator process starts and finishes it, and the files it leaves: the   *)
(* manifest, replaced atomically, and samples.jsonl, a line per row.       *)
(*                                                                         *)
(* Rows are told apart by their number only, so the content of a samples   *)
(* file, and with it its SHA-256, is the number of its lines; a torn last  *)
(* line is what a process killed in a write leaves.  A row whose stop      *)
(* check came before finish() is written as if before it: the two steps    *)
(* touch different fields.  A capture that fails changes a counter only.   *)
EXTENDS Integers, FiniteSets

CONSTANTS NumEpisodes,  \* sessions, in the order of their names
          Legacy,       \* those recorded and archived before the dataset had a registry
          MaxRows,      \* rows of one recording
          MaxProcs,     \* operator processes, one after the other
          MaxFaults     \* failures and crashes of anything but the operator process

ASSUME RecorderAssumption ==
    /\ {NumEpisodes, MaxProcs, MaxFaults} \subseteq Nat
    /\ MaxRows \in Nat \ {0}
    /\ Legacy \subseteq 1..NumEpisodes

VARIABLES
    rec,     \* rec[e]: the EpisodeRecorder of e and its thread
    cur,     \* the operator's _training_recorder; 0 when it is None
    proc,    \* the operator process: the owner_pid its manifests carry
    disk,    \* disk[e]: the directory of e
    faults   \* failures so far

recVars == <<rec, cur, proc, disk, faults>>

Episodes == 1..NumEpisodes
Outcomes == {"none", "ended", "superseded", "recorder_process_interrupted", "elsewhere"}

Manifests == [status: {"recording", "finalized", "recording_failed"},
              outcome: Outcomes, rows: Nat, samples: Nat, owner: Nat]
NoManifest == [status |-> "absent"]

\* A recording that ended before: two rows, of an operator process long gone.
OldManifest == [status |-> "finalized", outcome |-> "ended",
                rows |-> MaxRows, samples |-> MaxRows, owner |-> 0]

NewRecorder(pc) == [pc |-> pc, stop |-> FALSE, outcome |-> "none", rows |-> 0,
                    owed |-> 0, trace |-> FALSE]

RecInit ==
    /\ rec = [e \in Episodes |-> NewRecorder(IF e \in Legacy THEN "done" ELSE "none")]
    /\ cur = 0
    /\ proc = 1
    /\ disk = [e \in Episodes |->
                  IF e \in Legacy
                  THEN [dir |-> TRUE, manifest |-> OldManifest, lines |-> MaxRows, torn |-> FALSE]
                  ELSE [dir |-> FALSE, manifest |-> NoManifest, lines |-> 0, torn |-> FALSE]]
    /\ faults = 0

Fault == faults < MaxFaults /\ faults' = faults + 1

\* finish: the first outcome wins.
Finished(r, outcome) ==
    IF r.stop THEN r ELSE [r EXCEPT !.stop = TRUE, !.outcome = outcome]

\* A session is prepared: its recorder replaces the one before it.
StartRecording(e) ==
    /\ rec[e].pc = "none"
    /\ \A x \in Episodes : x < e => rec[x].pc # "none"
    /\ rec' = [x \in Episodes |-> IF x = e THEN NewRecorder("new")
                                  ELSE IF x = cur THEN Finished(rec[x], "superseded")
                                  ELSE rec[x]]
    /\ cur' = e
    /\ UNCHANGED <<proc, disk, faults>>

\* The session ends; a recorder still running gets a thread for its motor trace.
FinishRecording ==
    /\ cur # 0
    /\ ~rec[cur].stop
    /\ rec' = [rec EXCEPT ![cur] = [Finished(@, "ended") EXCEPT !.trace = TRUE]]
    /\ UNCHANGED <<cur, proc, disk, faults>>

\* save_trace: it makes the directory when it is the first to come.
TraceSaved(e) ==
    /\ rec[e].trace
    /\ rec' = [rec EXCEPT ![e].trace = FALSE]
    /\ disk' = [disk EXCEPT ![e].dir = TRUE]
    /\ UNCHANGED <<cur, proc, faults>>

\* _run up to its loop: a directory that is there already ends the recording.
Create(e) ==
    /\ rec[e].pc = "new"
    /\ IF disk[e].dir
       THEN rec' = [rec EXCEPT ![e].pc = "failed"] /\ UNCHANGED disk
       ELSE /\ rec' = [rec EXCEPT ![e].pc = "recording"]
            /\ disk' = [disk EXCEPT ![e] =
                  [dir |-> TRUE, lines |-> 0, torn |-> FALSE,
                   manifest |-> [status |-> "recording", outcome |-> rec[e].outcome,
                                 rows |-> 0, samples |-> 0, owner |-> proc]]]
    /\ UNCHANGED <<cur, proc, faults>>

\* A row is written and flushed, with what an earlier failure left in the buffer.
Capture(e) ==
    /\ rec[e].pc = "recording" /\ ~rec[e].stop
    /\ disk[e].lines + rec[e].owed < MaxRows
    /\ disk' = [disk EXCEPT ![e].lines = @ + rec[e].owed + 1]
    /\ rec' = [rec EXCEPT ![e].rows = @ + 1, ![e].owed = 0]
    /\ UNCHANGED <<cur, proc, faults>>

\* The flush fails (the disk is full): the row is not counted and stays buffered.
WriteFails(e) ==
    /\ rec[e].pc = "recording" /\ ~rec[e].stop
    /\ disk[e].lines + rec[e].owed < MaxRows
    /\ Fault
    /\ rec' = [rec EXCEPT ![e].owed = @ + 1]
    /\ UNCHANGED <<cur, proc, disk>>

\* The end of _run: the file is closed, which flushes it, and the manifest replaced.
Finalize(e) ==
    LET r == rec[e]
        lines == disk[e].lines + r.owed
    IN /\ r.pc = "recording" /\ r.stop
       /\ disk' = [disk EXCEPT ![e].lines = lines,
                               ![e].manifest = [@ EXCEPT !.status = IF r.rows > 0 THEN "finalized"
                                                                    ELSE "recording_failed",
                                                         !.outcome = r.outcome, !.rows = r.rows,
                                                         !.samples = lines]]
       /\ rec' = [rec EXCEPT ![e].pc = "done", ![e].owed = 0]
       /\ UNCHANGED <<cur, proc, faults>>

\* It raises: the failure is known in memory only, the manifest says "recording".
FinalizeFails(e) ==
    /\ rec[e].pc = "recording" /\ rec[e].stop
    /\ Fault
    /\ rec' = [rec EXCEPT ![e].pc = "failed"]
    /\ UNCHANGED <<cur, proc, disk>>

Live(e) == rec[e].pc \in {"new", "recording"}

\* The operator process ends, its daemon threads with it; a write may be cut short.
ProcessEnds ==
    /\ proc < MaxProcs
    /\ proc' = proc + 1
    /\ cur' = 0
    /\ rec' = [e \in Episodes |-> [rec[e] EXCEPT !.pc = IF Live(e) THEN "dead" ELSE @,
                                                 !.owed = 0, !.trace = FALSE]]
    /\ \E cut \in SUBSET {e \in Episodes : rec[e].pc = "recording" /\ ~rec[e].stop} :
          disk' = [e \in Episodes |-> [disk[e] EXCEPT !.torn = @ \/ e \in cut]]
    /\ UNCHANGED faults

RecTypeOK ==
    /\ rec \in [Episodes -> [pc: {"none", "new", "recording", "done", "failed", "dead"},
                             stop: BOOLEAN, outcome: Outcomes, rows: Nat, owed: Nat,
                             trace: BOOLEAN]]
    /\ cur \in Episodes \cup {0}
    /\ proc \in Nat
    /\ disk \in [Episodes -> [dir: BOOLEAN, manifest: Manifests \cup {NoManifest},
                              lines: Nat, torn: BOOLEAN]]
    /\ faults \in Nat

RecorderThread(e) == Create(e) \/ Capture(e) \/ Finalize(e)

RecNext ==
    \/ \E e \in Episodes : \/ StartRecording(e)
                           \/ TraceSaved(e)
                           \/ RecorderThread(e)
                           \/ WriteFails(e)
                           \/ FinalizeFails(e)
    \/ FinishRecording
    \/ ProcessEnds
=============================================================================
