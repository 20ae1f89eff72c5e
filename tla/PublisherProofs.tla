-------------------------- MODULE PublisherProofs --------------------------
(***************************************************************************)
(* What the publishers' dataset promises holds for every number of         *)
(* sessions, rows, operator processes and failures: it is an EpisodeArchive*)
(* and the receipts of both publishers are true of it.                     *)
(*                                                                         *)
(* The inductive invariant says what a commit on its way is worth: one     *)
(* with an older parent is refused, so only those made from the head       *)
(* matter, and what they carry is the head and one episode, sealed.        *)
(***************************************************************************)
EXTENDS Publisher, FiniteSetTheorems, SequenceTheorems, TLAPS

----------------------------------------------------------------------------
(* The invariant.                                                          *)

Entries == [episode: Episodes, data: Data, hash: Hashes]
Written == [status: {"recording", "finalized", "recording_failed"}, outcome: Outcomes,
            rows: 0..MaxRows, samples: 0..MaxRows, owner: Nat]
Heads == [rev: Nat, registry: Seq(Entries),
          archive: [Episodes -> Data \cup {NoData}], catalog: [Episodes -> Data \cup {NoData}]]
TrainingCalls == [by: {"training"}, parent: Nat, awaited: BOOLEAN, ep: Episodes,
                  registry: Seq(Entries), data: Data]
ViewingCalls == [by: {"viewing"}, parent: Nat, awaited: BOOLEAN,
                 catalog: [Episodes -> Data \cup {NoData}]]

Recorders == [pc: {"none", "new", "recording", "done", "failed", "dead"}, stop: BOOLEAN,
              outcome: Outcomes, rows: Nat, owed: Nat, trace: BOOLEAN]
Folders == [dir: BOOLEAN, manifest: Written \cup {NoManifest}, lines: 0..MaxRows, torn: BOOLEAN]
Uploads == [status: {"none", "archived", "uploading", "backoff", "retrying", "uploaded"},
            index: Nat]
Receipts == [status: {"none", "uploaded", "arm_check"}, samples: Nat]
Passes == [pc: {"idle", "scan", "read", "orphan", "rewriting", "marked", "sent", "verify"},
           todo: SUBSET Episodes, ep: Episodes \cup {0},
           meta: Written \cup {NoManifest}, snap: Heads \cup {NoHub}]
Views == [pc: {"idle", "rendered", "sent", "committed"}, ep: Episodes \cup {0},
          data: Data \cup {NoData}]

Places ==
    /\ rec \in [Episodes -> Recorders] /\ disk \in [Episodes -> Folders]
    /\ cur \in Episodes \cup {0} /\ proc \in Nat \ {0} /\ faults \in Nat
    /\ upload \in [Episodes -> Uploads] /\ receipt \in [Episodes -> Receipts]
    /\ pub \in Passes /\ view \in Views
    /\ hub \in Heads /\ calls \in SUBSET (TrainingCalls \cup ViewingCalls)

\* The recording is over, and its manifest says so.
Final(e) == disk[e].manifest.status = "finalized"

\* The training publisher is to rewrite the recording it is at.
Recovering == \/ pub.pc = "read" /\ pub.meta.status = "recording"
              \/ pub.pc \in {"orphan", "rewriting"}

\* A recording as it was sealed, that nobody rewrites.
Kept(e) == Loads(e) /\ ~(Recovering /\ pub.ep = e)

\* A recorder owns its files: none before it begins, a row for each it has counted.
Owns(e) ==
    /\ rec[e].pc \in {"none", "new"} => disk[e].manifest = NoManifest
    /\ rec[e].pc = "new" => rec[e].rows = 0 /\ rec[e].owed = 0
    /\ rec[e].pc = "recording" =>
          /\ disk[e].manifest.status = "recording" /\ disk[e].manifest.owner = proc
          /\ rec[e].rows <= disk[e].lines /\ disk[e].lines + rec[e].owed <= MaxRows
    /\ Final(e) => disk[e].manifest.samples > 0

RecordersOwn == \A e \in Episodes : Owns(e)

\* A recovery is of a recorder that is gone, of nothing published; what was sealed
\* since the manifest was read is sealed with the same samples again.
RecoveryIsLate ==
    /\ pub.pc \notin {"idle", "scan"} => pub.ep \in Episodes
    /\ pub.pc \in {"orphan", "rewriting"} => pub.meta # NoManifest
    /\ Recovering =>
          /\ rec[pub.ep].pc \notin {"none", "new"}
          /\ rec[pub.ep].pc = "recording" => pub.pc = "read" /\ pub.meta.owner = proc
          /\ upload[pub.ep].status # "uploaded"
          /\ Final(pub.ep) => disk[pub.ep].manifest.samples =
                (IF pub.pc = "rewriting" THEN pub.meta.rows ELSE disk[pub.ep].lines)

OneIndexEach ==
    \A i, j \in DOMAIN hub.registry :
        hub.registry[i].episode = hub.registry[j].episode => i = j

\* What a training commit from the head carries: a sealed episode, new or repaired.
Publishes(c) ==
    /\ Kept(c.ep) /\ Agrees(hub, c.ep)
    /\ c.data = DataOf(disk[c.ep].manifest)
    /\ \/ Existing(hub, c.ep) = {} /\ c.registry = AppendEpisode(hub.registry, c.ep)
       \/ c.registry = RepairProvenance(hub.registry, c.ep)

\* What a viewing commit from the head carries: one episode more, sealed.
Shows(c) ==
    \E e \in Episodes, d \in Data :
        /\ Final(e) /\ d.samples = disk[e].manifest.samples
        /\ c.catalog = [hub.catalog EXCEPT ![e] = d]

Worth(c) ==
    /\ c.parent <= hub.rev
    /\ c.parent = hub.rev => IF c.by = "training" THEN Publishes(c) ELSE Shows(c)

CallsAreWorth == \A c \in calls : Worth(c)

\* Each publisher waits for one answer.
AnswersAreAwaited ==
    /\ \A c \in calls : c.awaited =>
          IF c.by = "training" THEN pub.pc = "sent" /\ pub.ep = c.ep ELSE view.pc = "sent"
    /\ \A c, d \in calls : c.awaited /\ d.awaited /\ c.by = d.by => c = d
    /\ \A c \in calls : c.awaited /\ c.by = "viewing" => c.catalog[view.ep] = view.data

\* Episode e is sealed, archived, and registered under index i.
Registered(e, i) == Kept(e) /\ i \in DOMAIN hub.registry /\ Verified(hub, e, i)

UploadsAreTrue ==
    /\ \A e \in Episodes : upload[e].status = "uploaded" => Registered(e, upload[e].index)
    /\ pub.pc = "verify" =>
          /\ pub.snap # NoHub /\ Kept(pub.ep)
          /\ \A i \in Existing(pub.snap, pub.ep) :
                Verified(pub.snap, pub.ep, i) => Registered(pub.ep, i)

Shown(e, samples) == Final(e) /\ {disk[e].manifest.samples, hub.catalog[e].samples} = {samples}

ShownIsTrue ==
    /\ \A e \in Episodes : receipt[e].status = "uploaded" => Shown(e, receipt[e].samples)
    /\ view.pc # "idle" =>
          /\ view.ep \in Episodes /\ view.data # NoData
          /\ Final(view.ep) /\ view.data.samples = disk[view.ep].manifest.samples
    /\ view.pc = "committed" => Shown(view.ep, view.data.samples)

ArchiveInv ==
    /\ Places /\ RecordersOwn /\ RecoveryIsLate /\ OneIndexEach /\ CallsAreWorth
    /\ AnswersAreAwaited /\ UploadsAreTrue /\ ShownIsTrue

----------------------------------------------------------------------------
(* The operators.                                                          *)

LEMMA DataIsData ==
    ASSUME NEW m \in Written
    PROVE  DataOf(m) \in Data
BY DEF Written, DataOf, Data

LEMMA HeadFields ==
    ASSUME Places
    PROVE  /\ hub.rev \in Nat /\ hub.registry \in Seq(Entries)
           /\ hub.archive \in [Episodes -> Data \cup {NoData}]
           /\ hub.catalog \in [Episodes -> Data \cup {NoData}]
BY DEF Places, Heads

\* An index is one of 1 .. Len, and its entry an Entry.
LEMMA RegistryFields ==
    ASSUME NEW r \in Seq(Entries)
    PROVE  /\ Len(r) \in Nat /\ DOMAIN r = 1 .. Len(r)
           /\ r \in [1 .. Len(r) -> Entries]
BY LenProperties

\* A sealed recording has data.
LEMMA LoadedData ==
    ASSUME Places, NEW e \in Episodes, Final(e)
    PROVE  disk[e].manifest \in Written /\ DataOf(disk[e].manifest) \in Data
<1>1. disk[e].manifest \in Written \cup {NoManifest}
  BY DEF Places, Folders
<1>2. disk[e].manifest # NoManifest
  BY DEF Final, NoManifest
<1>3. QED
  BY <1>1, <1>2, DataIsData

LEMMA AppendTyped ==
    ASSUME NEW r \in Seq(Entries), Places, NEW e \in Episodes, Final(e)
    PROVE  /\ AppendEpisode(r, e) \in Seq(Entries)
           /\ Len(AppendEpisode(r, e)) = Len(r) + 1
           /\ \A i \in 1 .. Len(r) : AppendEpisode(r, e)[i] = r[i]
           /\ AppendEpisode(r, e)[Len(r) + 1] =
                 Entry(e, DataOf(disk[e].manifest), DataOf(disk[e].manifest))
<1>1. Entry(e, DataOf(disk[e].manifest), DataOf(disk[e].manifest)) \in Entries
  BY LoadedData DEF Entry, Entries, Hashes
<1>2. QED
  BY <1>1, AppendProperties DEF AppendEpisode, Exported

LEMMA RepairTyped ==
    ASSUME NEW r \in Seq(Entries), Places, NEW e \in Episodes, Final(e)
    PROVE  /\ RepairProvenance(r, e) \in Seq(Entries)
           /\ Len(RepairProvenance(r, e)) = Len(r)
           /\ DOMAIN RepairProvenance(r, e) = DOMAIN r
           /\ \A i \in DOMAIN r :
                 RepairProvenance(r, e)[i] =
                     IF r[i].episode = e
                     THEN [r[i] EXCEPT !.hash = DataOf(disk[e].manifest)] ELSE r[i]
<1> DEFINE p == RepairProvenance(r, e)
<1>1. /\ Len(r) \in Nat /\ DOMAIN r = 1 .. Len(r)
      /\ \A i \in DOMAIN r : r[i] \in Entries
  BY RegistryFields
<1>2. /\ DOMAIN p = DOMAIN r
      /\ \A i \in DOMAIN r :
            p[i] = IF r[i].episode = e
                   THEN [r[i] EXCEPT !.hash = DataOf(disk[e].manifest)] ELSE r[i]
  BY DEF RepairProvenance
<1>3. \A i \in DOMAIN r : p[i] \in Entries
  BY <1>1, <1>2, LoadedData DEF Entries, Hashes
<1>4. p \in [1 .. Len(r) -> Entries]
  BY <1>1, <1>2, <1>3 DEF RepairProvenance
<1>5. p \in Seq(Entries)
  BY <1>1, <1>4, SeqDef
<1>6. Len(p) = Len(r)
  BY <1>1, <1>2, <1>5, LenProperties
<1>7. QED
  BY <1>2, <1>5, <1>6

----------------------------------------------------------------------------
(* Types.                                                                  *)

LEMMA InitPlaces == Init => Places
<1> SUFFICES ASSUME Init PROVE Places
  OBVIOUS
<1> USE RecorderAssumption
<1>1. /\ OldManifest \in Written /\ DataOf(OldManifest) \in Data /\ OtherData \in Data
  BY DEF OldManifest, Written, DataOf, OtherData, Data, Outcomes
<1>2. /\ rec \in [Episodes -> Recorders]
      /\ cur \in Episodes \cup {0} /\ proc \in Nat \ {0} /\ faults \in Nat
  BY DEF Init, RecInit, NewRecorder, Outcomes, Recorders
<1>3. disk \in [Episodes -> Folders]
  BY <1>1 DEF Init, RecInit, Folders
<1>4. receipt \in [Episodes -> Receipts] /\ upload \in [Episodes -> Uploads]
  BY DEF Init, Receipts, Uploads
<1>5. pub \in Passes /\ view \in Views /\ calls = {}
  BY DEF Init, IdlePub, IdleView, Passes, Views
<1>6. hub \in Heads
  <2> PICK old \in [Legacy -> {DataOf(OldManifest), OtherData}] :
        \E registry \in {<<>>} \cup {<<Entry(e, old[e], old[e])>> : e \in Legacy}
                           \cup {<<Entry(e, old[e], OfConverter)>> : e \in Legacy} :
             hub = [rev |-> 0, registry |-> registry,
                    archive |-> [e \in Episodes |-> IF e \in Legacy THEN old[e] ELSE NoData],
                    catalog |-> [e \in Episodes |-> IF e \in Legacy THEN DataOf(OldManifest)
                                                    ELSE NoData]]
    BY DEF Init
  <2>1. PICK registry \in {<<>>} \cup {<<Entry(e, old[e], old[e])>> : e \in Legacy}
                           \cup {<<Entry(e, old[e], OfConverter)>> : e \in Legacy} :
             hub = [rev |-> 0, registry |-> registry,
                    archive |-> [e \in Episodes |-> IF e \in Legacy THEN old[e] ELSE NoData],
                    catalog |-> [e \in Episodes |-> IF e \in Legacy THEN DataOf(OldManifest)
                                                    ELSE NoData]]
    OBVIOUS
  <2>2. registry \in Seq(Entries)
    <3>1. \A e \in Legacy : /\ Entry(e, old[e], old[e]) \in Entries
                            /\ Entry(e, old[e], OfConverter) \in Entries
      BY <1>1 DEF Entry, Entries, Hashes, Episodes
    <3>2. CASE registry = <<>>
      BY <3>2
    <3>3. CASE \E x \in Entries : registry = <<x>>
      BY <3>3
    <3>4. QED
      BY <3>1, <3>2, <3>3
  <2>3. QED
    BY <1>1, <2>1, <2>2 DEF Heads
<1>7. QED
  BY <1>2, <1>3, <1>4, <1>5, <1>6 DEF Places

LEMMA FinishedTyped ==
    ASSUME NEW r \in Recorders, NEW o \in Outcomes
    PROVE  Finished(r, o) \in Recorders
BY DEF Finished, Recorders

\* The recorder moves; a publisher's variables stay.
LEMMA RecorderPlaces ==
    ASSUME Places, RecordersOwn, Recorder
    PROVE  Places'
<1> USE RecorderAssumption
<1>1. /\ rec \in [Episodes -> Recorders] /\ disk \in [Episodes -> Folders]
      /\ cur \in Episodes \cup {0} /\ proc \in Nat \ {0} /\ faults \in Nat
  BY DEF Places
<1>2. SUFFICES /\ rec' \in [Episodes -> Recorders] /\ disk' \in [Episodes -> Folders]
               /\ cur' \in Episodes \cup {0} /\ proc' \in Nat \ {0} /\ faults' \in Nat
  BY DEF Places, pubVars, Recorder
<1>3. ASSUME NEW e \in Episodes, StartRecording(e) PROVE rec' \in [Episodes -> Recorders]
  <2>1. NewRecorder("new") \in Recorders
    BY DEF NewRecorder, Recorders, Outcomes
  <2>2. \A x \in Episodes : Finished(rec[x], "superseded") \in Recorders
    BY <1>1, FinishedTyped DEF Outcomes
  <2>3. QED
    BY <1>1, <1>3, <2>1, <2>2 DEF StartRecording
<1>4. ASSUME FinishRecording PROVE rec' \in [Episodes -> Recorders]
  <2>1. cur \in Episodes /\ Finished(rec[cur], "ended") \in Recorders
    BY <1>1, <1>4, FinishedTyped DEF Outcomes, FinishRecording
  <2>2. [Finished(rec[cur], "ended") EXCEPT !.trace = TRUE] \in Recorders
    BY <2>1 DEF Recorders
  <2>3. QED
    BY <1>1, <1>4, <2>1, <2>2 DEF FinishRecording
<1>5. ASSUME NEW e \in Episodes, TraceSaved(e)
      PROVE  rec' \in [Episodes -> Recorders] /\ disk' \in [Episodes -> Folders]
  <2>1. rec[e] \in Recorders /\ disk[e] \in Folders
    BY <1>1
  <2>2. /\ [rec[e] EXCEPT !.trace = FALSE] \in Recorders
        /\ [disk[e] EXCEPT !.dir = TRUE] \in Folders
    BY <2>1 DEF Recorders, Folders
  <2>3. QED
    BY <1>1, <1>5, <2>2 DEF TraceSaved
<1>6. ASSUME NEW e \in Episodes, Create(e)
      PROVE  rec' \in [Episodes -> Recorders] /\ disk' \in [Episodes -> Folders]
  <2>1. [status |-> "recording", outcome |-> rec[e].outcome,
         rows |-> 0, samples |-> 0, owner |-> proc] \in Written
    BY <1>1 DEF Written, Recorders
  <2>2. /\ [rec[e] EXCEPT !.pc = "failed"] \in Recorders
        /\ [rec[e] EXCEPT !.pc = "recording"] \in Recorders
    BY <1>1 DEF Recorders
  <2>3. [dir |-> TRUE, lines |-> 0, torn |-> FALSE,
         manifest |-> [status |-> "recording", outcome |-> rec[e].outcome,
                       rows |-> 0, samples |-> 0, owner |-> proc]] \in Folders
    BY <2>1 DEF Folders
  <2>4. QED
    BY <1>1, <1>6, <2>2, <2>3 DEF Create
<1>7. ASSUME NEW e \in Episodes, Capture(e) \/ WriteFails(e)
      PROVE  rec' \in [Episodes -> Recorders] /\ disk' \in [Episodes -> Folders]
  <2>1. /\ rec[e] \in Recorders /\ disk[e] \in Folders
        /\ disk[e].lines + rec[e].owed < MaxRows
    BY <1>1, <1>7 DEF Capture, WriteFails
  <2>2. /\ rec[e].rows + 1 \in Nat /\ rec[e].owed + 1 \in Nat
        /\ disk[e].lines + rec[e].owed + 1 \in 0..MaxRows
    BY <2>1 DEF Recorders, Folders
  <2>3. [disk[e] EXCEPT !.lines = @ + rec[e].owed + 1] \in Folders
    BY <2>1, <2>2 DEF Folders
  <2>4. /\ [rec[e] EXCEPT !.rows = @ + 1, !.owed = 0] \in Recorders
        /\ [rec[e] EXCEPT !.owed = @ + 1] \in Recorders
    BY <2>1, <2>2 DEF Recorders
  <2>5. QED
    BY <1>1, <1>7, <2>3, <2>4 DEF Capture, WriteFails
<1>8. ASSUME NEW e \in Episodes, Finalize(e)
      PROVE  rec' \in [Episodes -> Recorders] /\ disk' \in [Episodes -> Folders]
  <2>1. /\ rec[e] \in Recorders /\ disk[e] \in Folders /\ disk[e].manifest \in Written
        /\ rec[e].rows <= disk[e].lines /\ disk[e].lines + rec[e].owed <= MaxRows
    BY <1>1, <1>8 DEF Finalize, RecordersOwn, Owns, Folders, NoManifest
  <2>2. /\ disk[e].lines + rec[e].owed \in 0..MaxRows /\ rec[e].rows \in 0..MaxRows
        /\ rec[e].outcome \in Outcomes
    BY <2>1 DEF Recorders, Folders
  <2>3. [disk[e].manifest EXCEPT !.status = IF rec[e].rows > 0 THEN "finalized"
                                            ELSE "recording_failed",
                                 !.outcome = rec[e].outcome, !.rows = rec[e].rows,
                                 !.samples = disk[e].lines + rec[e].owed] \in Written
    BY <2>1, <2>2 DEF Written
  <2>4. [rec[e] EXCEPT !.pc = "done", !.owed = 0] \in Recorders
    BY <2>1 DEF Recorders
  <2>5. \A m \in Written : [disk[e] EXCEPT !.lines = disk[e].lines + rec[e].owed,
                                           !.manifest = m] \in Folders
    BY <2>1, <2>2 DEF Folders
  <2>6. disk' = [disk EXCEPT ![e] =
            [disk[e] EXCEPT !.lines = disk[e].lines + rec[e].owed,
                            !.manifest = [disk[e].manifest EXCEPT
                                !.status = IF rec[e].rows > 0 THEN "finalized"
                                           ELSE "recording_failed",
                                !.outcome = rec[e].outcome, !.rows = rec[e].rows,
                                !.samples = disk[e].lines + rec[e].owed]]]
    BY <1>1, <1>8 DEF Finalize
  <2>7. disk' \in [Episodes -> Folders]
    BY <1>1, <2>3, <2>5, <2>6
  <2>8. QED
    BY <1>1, <1>8, <2>4, <2>7 DEF Finalize
<1>9. ASSUME NEW e \in Episodes, FinalizeFails(e) PROVE rec' \in [Episodes -> Recorders]
  BY <1>1, <1>9 DEF FinalizeFails, Recorders
<1>10. ASSUME ProcessEnds
       PROVE  rec' \in [Episodes -> Recorders] /\ disk' \in [Episodes -> Folders]
  <2>1. \A e \in Episodes :
            [rec[e] EXCEPT !.pc = IF Live(e) THEN "dead" ELSE @,
                           !.owed = 0, !.trace = FALSE] \in Recorders
    BY <1>1 DEF Recorders
  <2>2. \A e \in Episodes, b \in BOOLEAN : [disk[e] EXCEPT !.torn = b] \in Folders
    BY <1>1 DEF Folders
  <2>3. \A e \in Episodes : disk[e].torn \in BOOLEAN
    BY <1>1 DEF Folders
  <2>4. rec' \in [Episodes -> Recorders]
    BY <1>10, <2>1 DEF ProcessEnds
  <2>5. PICK cut \in SUBSET Episodes :
            disk' = [e \in Episodes |-> [disk[e] EXCEPT !.torn = @ \/ e \in cut]]
    BY <1>10 DEF ProcessEnds
  <2>6. \A e \in Episodes : (disk[e].torn \/ e \in cut) \in BOOLEAN
    BY <2>3
  <2>7. QED
    BY <2>2, <2>4, <2>5, <2>6
<1>11. rec' \in [Episodes -> Recorders] /\ disk' \in [Episodes -> Folders]
  BY <1>1, <1>3, <1>4, <1>5, <1>6, <1>7, <1>8, <1>9, <1>10
  DEF Recorder, RecNext, RecorderThread, StartRecording, FinishRecording, WriteFails, FinalizeFails
<1>12. CASE \E e \in Episodes : StartRecording(e)
  BY <1>1, <1>11, <1>12 DEF StartRecording
<1>13. CASE ProcessEnds
  <2>1. cur' = 0 /\ proc' = proc + 1 /\ faults' = faults
    BY <1>13 DEF ProcessEnds
  <2>2. QED
    BY <1>1, <1>11, <2>1
<1>14. CASE \E e \in Episodes : WriteFails(e) \/ FinalizeFails(e)
  <2>1. cur' = cur /\ proc' = proc /\ faults' = faults + 1
    BY <1>14 DEF WriteFails, FinalizeFails, Fault
  <2>2. QED
    BY <1>1, <1>11, <2>1
<1>15. CASE FinishRecording \/ \E e \in Episodes : TraceSaved(e) \/ RecorderThread(e)
  BY <1>1, <1>11, <1>15
  DEF FinishRecording, TraceSaved, RecorderThread, Create, Capture, Finalize
<1>16. QED
  BY <1>12, <1>13, <1>14, <1>15 DEF Recorder, RecNext

LEMMA ScanTyped ==
    ASSUME NEW todo \in SUBSET Episodes
    PROVE  Scan(todo) \in Passes
BY DEF Scan, IdlePub, Passes

LEMMA NextEpisodeTyped ==
    ASSUME Places
    PROVE  NextEpisode \in Passes
<1>1. pub.todo \ {pub.ep} \in SUBSET Episodes
  BY DEF Places, Passes
<1>2. QED
  BY <1>1, ScanTyped DEF NextEpisode

\* Between two episodes the publisher rests, or scans on.
LEMMA NextEpisodeRests ==
    /\ \A todo : Scan(todo).pc \in {"idle", "scan"}
    /\ NextEpisode.pc \in {"idle", "scan"}
BY DEF NextEpisode, Scan, IdlePub

LEMMA GivenUpTyped ==
    ASSUME Places, NEW sender
    PROVE  GivenUp(sender) \in SUBSET (TrainingCalls \cup ViewingCalls)
<1>1. \A c \in TrainingCalls \cup ViewingCalls :
          [c EXCEPT !.awaited = FALSE] \in TrainingCalls \cup ViewingCalls
  BY DEF TrainingCalls, ViewingCalls
<1>2. QED
  BY <1>1 DEF GivenUp, Places

LEMMA GiveUpPlaces ==
    ASSUME Places, pub.ep \in Episodes, GiveUpAttempt, faults' \in Nat
    PROVE  Places'
<1>1. [upload[pub.ep] EXCEPT !.status = "backoff"] \in Uploads
  BY DEF Places, Uploads
<1>2. upload' \in [Episodes -> Uploads]
  BY <1>1 DEF Places, GiveUpAttempt
<1>3. pub' \in Passes /\ calls' \in SUBSET (TrainingCalls \cup ViewingCalls)
  BY NextEpisodeTyped, GivenUpTyped DEF GiveUpAttempt
<1>4. QED
  BY <1>2, <1>3 DEF Places, GiveUpAttempt

LEMMA PubStepPlaces ==
    ASSUME Places, RecoveryIsLate, UploadsAreTrue, PubStep
    PROVE  Places'
<1> USE RecorderAssumption
<1>1. /\ disk \in [Episodes -> Folders] /\ upload \in [Episodes -> Uploads]
      /\ receipt \in [Episodes -> Receipts] /\ pub \in Passes /\ view \in Views
      /\ hub \in Heads /\ calls \in SUBSET (TrainingCalls \cup ViewingCalls)
  BY DEF Places
<1>2. CASE BeginPass
  <2>1. pub' \in Passes
    BY <1>2, ScanTyped DEF BeginPass
  <2>2. QED
    BY <1>2, <2>1 DEF BeginPass, Places, recVars
<1>3. CASE ReadManifest
  <2>1. PICK e \in pub.todo : pub' = [pub EXCEPT !.pc = "read", !.ep = e, !.meta = disk[e].manifest]
    BY <1>3 DEF ReadManifest
  <2>2. e \in Episodes /\ disk[e].manifest \in Written \cup {NoManifest}
    BY <1>1, <2>1 DEF Passes, Folders
  <2>3. pub' \in Passes
    BY <1>1, <2>1, <2>2 DEF Passes
  <2>4. QED
    BY <1>3, <2>3 DEF ReadManifest, Places, recVars
<1>4. CASE CheckOwner
  <2>1. pub' \in Passes
    <3>1. [pub EXCEPT !.pc = "orphan"] \in Passes
      BY <1>1 DEF Passes
    <3>2. QED
      BY <1>4, <3>1, NextEpisodeTyped DEF CheckOwner
  <2>2. QED
    BY <1>4, <2>1 DEF CheckOwner, Places, recVars
<1>5. CASE TruncateOrphan
  <2>1. pub.ep \in Episodes /\ pub.meta \in Written
    BY <1>1, <1>5 DEF TruncateOrphan, RecoveryIsLate, Passes
  <2>2. disk[pub.ep].lines \in 0..MaxRows /\ disk[pub.ep] \in Folders
    BY <1>1, <2>1 DEF Folders
  <2>3. [pub.meta EXCEPT !.rows = disk[pub.ep].lines] \in Written
    BY <2>1, <2>2 DEF Written
  <2>4. [disk[pub.ep] EXCEPT !.lines = 0, !.torn = FALSE] \in Folders
    <3>1. 0 \in 0..MaxRows
      OBVIOUS
    <3>2. \A d \in Folders, n \in 0..MaxRows : [d EXCEPT !.lines = n, !.torn = FALSE] \in Folders
      BY DEF Folders
    <3>3. QED
      BY <2>2, <3>1, <3>2
  <2>5. disk' \in [Episodes -> Folders]
    <3>1. disk' = [disk EXCEPT ![pub.ep] = [disk[pub.ep] EXCEPT !.lines = 0, !.torn = FALSE]]
      BY <1>1, <1>5, <2>1 DEF TruncateOrphan
    <3>2. QED
      BY <1>1, <2>1, <2>4, <3>1
  <2>6. pub' = [pub EXCEPT !.pc = "rewriting", !.meta = [pub.meta EXCEPT !.rows = disk[pub.ep].lines]]
    BY <1>1, <1>5 DEF TruncateOrphan
  <2>7. pub' \in Passes
    BY <1>1, <2>3, <2>6 DEF Passes
  <2>8. QED
    BY <1>5, <2>5, <2>7 DEF TruncateOrphan, Places
<1>6. CASE SealOrphan
  <2> DEFINE rows == pub.meta.rows
             m == [pub.meta EXCEPT !.status = IF rows > 0 THEN "finalized" ELSE "recording_failed",
                                   !.outcome = "recorder_process_interrupted", !.samples = rows]
  <2>1. pub.ep \in Episodes /\ pub.meta \in Written
    BY <1>1, <1>6 DEF SealOrphan, RecoveryIsLate, Passes
  <2>2. rows \in 0..MaxRows /\ disk[pub.ep] \in Folders
    BY <1>1, <2>1 DEF Written
  <2>3. m \in Written
    BY <2>1, <2>2 DEF Written, Outcomes
  <2>4. [disk[pub.ep] EXCEPT !.lines = rows, !.manifest = m] \in Folders
    BY <2>2, <2>3 DEF Folders
  <2>5. /\ disk' = [disk EXCEPT ![pub.ep] = [disk[pub.ep] EXCEPT !.lines = rows, !.manifest = m]]
        /\ pub' = [pub EXCEPT !.pc = "read", !.meta = m]
    BY <1>6 DEF SealOrphan
  <2>6. disk' \in [Episodes -> Folders] /\ pub' \in Passes
    <3>1. disk' \in [Episodes -> Folders]
      BY <1>1, <2>1, <2>4, <2>5
    <3>2. pub' \in Passes
      BY <1>1, <2>3, <2>5 DEF Passes
    <3>3. QED
      BY <3>1, <3>2
  <2>7. QED
    BY <1>6, <2>6 DEF SealOrphan, Places
<1>7. CASE Consider
  <2>1. pub.ep \in Episodes
    BY <1>7 DEF Consider, RecoveryIsLate
  <2>2. [upload[pub.ep] EXCEPT !.status = "uploading"] \in Uploads
    BY <1>1, <2>1 DEF Uploads
  <2>3. [pub EXCEPT !.pc = "marked", !.meta = NoManifest] \in Passes /\ IdlePub \in Passes
    BY <1>1 DEF Passes, IdlePub
  <2>4. upload' \in [Episodes -> Uploads] /\ pub' \in Passes
    BY <1>1, <1>7, <2>2, <2>3, NextEpisodeTyped DEF Consider
  <2>5. QED
    BY <1>7, <2>4 DEF Consider, Places, recVars
<1>8. CASE SendEpisode
  <2>1. pub.ep \in Episodes /\ Final(pub.ep)
    BY <1>8 DEF SendEpisode, RecoveryIsLate, Loads, Final
  <2>2. [pub EXCEPT !.pc = "verify", !.snap = hub] \in Passes /\ [pub EXCEPT !.pc = "sent"] \in Passes
    BY <1>1 DEF Passes
  <2>3. /\ AppendEpisode(hub.registry, pub.ep) \in Seq(Entries)
        /\ RepairProvenance(hub.registry, pub.ep) \in Seq(Entries)
    BY <2>1, HeadFields, AppendTyped, RepairTyped
  <2>4. ASSUME NEW r \in Seq(Entries), Upload(r)
        PROVE  /\ pub' \in Passes /\ calls' \in SUBSET (TrainingCalls \cup ViewingCalls)
    <3>1. [by |-> "training", parent |-> hub.rev, awaited |-> TRUE, ep |-> pub.ep,
           registry |-> r, data |-> Exported(pub.ep)] \in TrainingCalls
      BY <2>1, LoadedData, HeadFields DEF TrainingCalls, Exported
    <3>2. QED
      BY <1>1, <2>2, <2>4, <3>1 DEF Upload
  <2>5. pub' \in Passes /\ calls' \in SUBSET (TrainingCalls \cup ViewingCalls)
    BY <1>1, <1>8, <2>2, <2>3, <2>4 DEF SendEpisode
  <2>6. QED
    BY <1>8, <2>5 DEF SendEpisode, Places, recVars
<1>9. CASE AttemptRefused
  <2>1. pub.ep \in Episodes /\ faults' \in Nat
    BY <1>9 DEF AttemptRefused, RecoveryIsLate, Places
  <2>2. QED
    BY <1>9, <2>1, GiveUpPlaces DEF AttemptRefused
<1>10. CASE MarkUploaded
  <2>1. pub.ep \in Episodes /\ pub.snap \in Heads
    BY <1>1, <1>10 DEF MarkUploaded, RecoveryIsLate, UploadsAreTrue, Passes
  <2>2. PICK i \in Existing(pub.snap, pub.ep) :
            upload' = [upload EXCEPT ![pub.ep] = [status |-> "uploaded", index |-> i]]
    BY <1>10 DEF MarkUploaded
  <2>3. pub.snap.registry \in Seq(Entries)
    BY <2>1 DEF Heads
  <2>4. i \in Nat
    BY <2>2, <2>3, RegistryFields DEF Existing
  <2>5. [status |-> "uploaded", index |-> i] \in Uploads
    BY <2>4 DEF Uploads
  <2>6. upload' \in [Episodes -> Uploads] /\ pub' \in Passes
    BY <1>1, <1>10, <2>1, <2>2, <2>5, NextEpisodeTyped DEF MarkUploaded
  <2>7. QED
    BY <1>10, <2>6 DEF MarkUploaded, Places, recVars
<1>11. QED
  BY <1>2, <1>3, <1>4, <1>5, <1>6, <1>7, <1>8, <1>9, <1>10 DEF PubStep

LEMMA AppliedTyped ==
    ASSUME Places, NEW c \in calls
    PROVE  Applied(c) \in Heads
<1>1. c \in TrainingCalls \cup ViewingCalls /\ hub.rev + 1 \in Nat
  BY HeadFields DEF Places
<1>2. CASE c \in TrainingCalls
  <2>1. c.by = "training" /\ c.ep \in Episodes /\ c.data \in Data /\ c.registry \in Seq(Entries)
    BY <1>2 DEF TrainingCalls
  <2>2. [hub.archive EXCEPT ![c.ep] = c.data] \in [Episodes -> Data \cup {NoData}]
    BY <2>1, HeadFields
  <2>3. Applied(c) = [hub EXCEPT !.rev = hub.rev + 1, !.registry = c.registry,
                                 !.archive = [hub.archive EXCEPT ![c.ep] = c.data]]
    BY <2>1 DEF Applied
  <2>4. QED
    BY <1>1, <2>1, <2>2, <2>3 DEF Places, Heads
<1>3. CASE c \in ViewingCalls
  BY <1>1, <1>3 DEF ViewingCalls, Applied, Places, Heads
<1>4. QED
  BY <1>1, <1>2, <1>3

LEMMA ServePlaces ==
    ASSUME Places, RecoveryIsLate, AnswersAreAwaited, Serve
    PROVE  Places'
<1>1. /\ upload \in [Episodes -> Uploads] /\ pub \in Passes /\ view \in Views
      /\ hub \in Heads /\ calls \in SUBSET (TrainingCalls \cup ViewingCalls)
  BY DEF Places
<1>2. ASSUME NEW c \in calls, CommitApplied(c) PROVE Places'
  <2>1. Applied(c) \in Heads
    BY AppliedTyped
  <2>2. /\ [pub EXCEPT !.pc = "verify", !.snap = Applied(c)] \in Passes
        /\ [view EXCEPT !.pc = "committed"] \in Views
    BY <1>1, <2>1 DEF Passes, Views
  <2>3. hub' \in Heads /\ pub' \in Passes /\ view' \in Views
    BY <1>1, <1>2, <2>1, <2>2 DEF CommitApplied
  <2>4. QED
    BY <1>2, <2>3 DEF CommitApplied, Places, recVars
<1>3. ASSUME NEW c \in calls, CommitRefused(c) PROVE Places'
  <2>1. [view EXCEPT !.pc = "rendered"] \in Views
    BY <1>1 DEF Views
  <2>2. view' \in Views
    BY <1>1, <1>3, <2>1 DEF CommitRefused
  <2>3. upload' \in [Episodes -> Uploads] /\ pub' \in Passes
    <3>1. CASE c.awaited /\ c.by = "training"
      <4>1. pub.ep \in Episodes
        BY <3>1 DEF AnswersAreAwaited, RecoveryIsLate
      <4>2. [upload[pub.ep] EXCEPT !.status = "backoff"] \in Uploads
        BY <1>1, <4>1 DEF Uploads
      <4>3. QED
        BY <1>1, <1>3, <3>1, <4>1, <4>2, NextEpisodeTyped DEF CommitRefused
    <3>2. QED
      BY <1>1, <1>3, <3>1 DEF CommitRefused
  <2>4. QED
    BY <1>3, <2>2, <2>3 DEF CommitRefused, Places, recVars
<1>4. QED
  BY <1>2, <1>3 DEF Serve

LEMMA ViewPlaces ==
    ASSUME Places, ShownIsTrue, ViewStep \/ ViewFails
    PROVE  Places'
<1>1. /\ receipt \in [Episodes -> Receipts] /\ view \in Views /\ disk \in [Episodes -> Folders]
      /\ hub \in Heads /\ calls \in SUBSET (TrainingCalls \cup ViewingCalls)
  BY DEF Places
<1>2. ASSUME NEW e \in Episodes, ToShow(e)
      PROVE  disk[e].manifest.samples \in Nat /\ DataOf(disk[e].manifest) \in Data
  BY <1>2, LoadedData DEF ToShow, Final, Written
<1>3. ASSUME NEW e \in Episodes, ArmCheck(e) PROVE Places'
  <2>1. [status |-> "arm_check", samples |-> disk[e].manifest.samples] \in Receipts
    BY <1>2, <1>3 DEF ArmCheck, Receipts
  <2>2. receipt' \in [Episodes -> Receipts]
    BY <1>1, <1>3, <2>1 DEF ArmCheck, Receipt
  <2>3. QED
    BY <1>3, <2>2 DEF ArmCheck, Places, recVars
<1>4. ASSUME NEW e \in Episodes, RenderVideo(e) PROVE Places'
  <2>1. view' \in Views
    BY <1>2, <1>4 DEF RenderVideo, Views
  <2>2. QED
    BY <1>4, <2>1 DEF RenderVideo, Places, recVars
<1>5. CASE SendVideo
  <2>1. view.ep \in Episodes /\ view.data \in Data
    BY <1>1, <1>5 DEF SendVideo, ShownIsTrue, Views
  <2>2. [hub.catalog EXCEPT ![view.ep] = view.data] \in [Episodes -> Data \cup {NoData}]
    BY <2>1, HeadFields
  <2>3. [by |-> "viewing", parent |-> hub.rev, awaited |-> TRUE,
         catalog |-> [hub.catalog EXCEPT ![view.ep] = view.data]] \in ViewingCalls
    BY <2>2, HeadFields DEF ViewingCalls
  <2>4. calls' \in SUBSET (TrainingCalls \cup ViewingCalls)
    BY <1>1, <1>5, <2>3 DEF SendVideo
  <2>5. view' \in Views
    BY <1>1, <1>5 DEF SendVideo, Views
  <2>6. QED
    BY <1>5, <2>4, <2>5 DEF SendVideo, Places, recVars
<1>6. CASE MarkShown
  <2>1. view.ep \in Episodes /\ view.data \in Data
    BY <1>1, <1>6 DEF MarkShown, ShownIsTrue, Views
  <2>2. [status |-> "uploaded", samples |-> view.data.samples] \in Receipts
    BY <2>1, RecorderAssumption DEF Receipts, Data
  <2>3. receipt' \in [Episodes -> Receipts] /\ view' \in Views
    BY <1>1, <1>6, <2>1, <2>2 DEF MarkShown, Receipt, IdleView, Views
  <2>4. QED
    BY <1>6, <2>3 DEF MarkShown, Places, recVars
<1>7. CASE ViewFails
  <2>1. view' \in Views /\ faults' \in Nat
    BY <1>7 DEF ViewFails, IdleView, Views, Fault, Places
  <2>2. calls' \in SUBSET (TrainingCalls \cup ViewingCalls)
    BY <1>7, GivenUpTyped DEF ViewFails
  <2>3. QED
    BY <1>7, <2>1, <2>2 DEF ViewFails, Places
<1>8. QED
  BY <1>3, <1>4, <1>5, <1>6, <1>7 DEF ViewStep

LEMMA NextPlaces ==
    ASSUME ArchiveInv, Next
    PROVE  Places'
<1> USE DEF ArchiveInv
<1>1. CASE AttemptFails
  <2>1. pub.ep \in Episodes /\ faults' \in Nat
    BY <1>1 DEF AttemptFails, RecoveryIsLate, Fault, Places
  <2>2. QED
    BY <1>1, <2>1, GiveUpPlaces DEF AttemptFails
<1>2. CASE PublisherCrashes
  <2>1. pub' \in Passes /\ faults' \in Nat
    BY <1>2 DEF PublisherCrashes, IdlePub, Passes, Fault, Places
  <2>2. calls' \in SUBSET (TrainingCalls \cup ViewingCalls)
    BY <1>2, GivenUpTyped DEF PublisherCrashes
  <2>3. QED
    BY <1>2, <2>1, <2>2 DEF PublisherCrashes, Places
<1>3. ASSUME NEW e \in Episodes, BackoffEnds(e) PROVE Places'
  <2>1. [upload[e] EXCEPT !.status = "retrying"] \in Uploads
    BY DEF Places, Uploads
  <2>2. upload' \in [Episodes -> Uploads]
    BY <1>3, <2>1 DEF BackoffEnds, Places
  <2>3. QED
    BY <1>3, <2>2 DEF BackoffEnds, Places, recVars
<1>4. QED
  BY <1>1, <1>2, <1>3, RecorderPlaces, PubStepPlaces, ServePlaces, ViewPlaces DEF Next

----------------------------------------------------------------------------
(* What stays.                                                             *)

\* The recorder writes to recordings that are not sealed only.
LEMMA RecorderKeepsFinal ==
    ASSUME Places, RecordersOwn, Recorder, NEW e \in Episodes, Final(e)
    PROVE  /\ disk'[e].manifest = disk[e].manifest
           /\ disk'[e].lines = disk[e].lines
<1>1. disk \in [Episodes -> Folders]
  BY DEF Places
<1>2. disk[e].manifest # NoManifest /\ rec[e].pc \notin {"none", "new", "recording"}
  BY DEF RecordersOwn, Owns, Final, NoManifest
<1>3. ASSUME NEW x \in Episodes, TraceSaved(x)
      PROVE  disk'[e].manifest = disk[e].manifest /\ disk'[e].lines = disk[e].lines
  BY <1>1, <1>3 DEF TraceSaved, Folders
<1>4. ASSUME NEW x \in Episodes, RecorderThread(x)
      PROVE  disk'[e].manifest = disk[e].manifest /\ disk'[e].lines = disk[e].lines
  <2>1. x # e
    BY <1>2, <1>4 DEF RecorderThread, Create, Capture, Finalize
  <2>2. disk'[e] = disk[e]
    BY <1>1, <1>4, <2>1 DEF RecorderThread, Create, Capture, Finalize
  <2>3. QED
    BY <2>2
<1>5. CASE ProcessEnds
  <2>1. PICK cut \in SUBSET Episodes :
            disk' = [x \in Episodes |-> [disk[x] EXCEPT !.torn = @ \/ x \in cut]]
    BY <1>5 DEF ProcessEnds
  <2>2. disk'[e] = [disk[e] EXCEPT !.torn = @ \/ e \in cut]
    BY <2>1
  <2>3. QED
    BY <1>1, <2>2 DEF Folders
<1>6. CASE FinishRecording \/ \E x \in Episodes : StartRecording(x) \/ WriteFails(x) \/ FinalizeFails(x)
  BY <1>6 DEF FinishRecording, StartRecording, WriteFails, FinalizeFails
<1>7. QED
  BY <1>3, <1>4, <1>5, <1>6 DEF Recorder, RecNext

\* Of what the publishers do, only the recovery writes to a recording.
LEMMA PublishersLeaveDisk ==
    ASSUME Next, ~Recorder, ~TruncateOrphan, ~SealOrphan
    PROVE  disk' = disk /\ rec' = rec /\ proc' = proc
BY DEF Next, PubStep, BeginPass, ReadManifest, CheckOwner, Consider, SendEpisode, AttemptRefused,
       MarkUploaded, AttemptFails, GiveUpAttempt, PublisherCrashes, ViewStep, ArmCheck, RenderVideo,
       SendVideo, MarkShown, ViewFails, Serve, CommitApplied, CommitRefused, BackoffEnds, recVars

\* A recovery begins with a manifest that says "recording".
LEMMA RecoveryBegins ==
    ASSUME Places, RecoveryIsLate, AnswersAreAwaited, Next, Recovering'
    PROVE  \/ /\ Recovering /\ pub'.ep = pub.ep
              /\ pub' = pub \/ CheckOwner \/ TruncateOrphan
           \/ /\ ReadManifest /\ pub'.pc = "read" /\ pub'.ep \in Episodes
              /\ pub'.meta = disk[pub'.ep].manifest /\ pub'.meta.status = "recording"
<1>1. pub \in Passes
  BY DEF Places
<1>2. \A todo : Scan(todo).pc \in {"idle", "scan"}
  BY NextEpisodeRests
<1>3. NextEpisode.pc \in {"idle", "scan"}
  BY NextEpisodeRests
<1>4. pub'.pc \in {"read", "orphan", "rewriting"}
  BY DEF Recovering
<1>5. CASE ReadManifest
  <2>1. PICK e \in pub.todo : pub' = [pub EXCEPT !.pc = "read", !.ep = e, !.meta = disk[e].manifest]
    BY <1>5 DEF ReadManifest
  <2>2. /\ pub'.pc = "read" /\ pub'.ep = e /\ pub'.meta = disk[e].manifest /\ e \in Episodes
    BY <1>1, <2>1 DEF Passes
  <2>3. QED
    BY <1>5, <2>2 DEF Recovering
<1>6. CASE CheckOwner
  BY <1>1, <1>3, <1>4, <1>6 DEF CheckOwner, Recovering, Passes
<1>7. CASE TruncateOrphan
  BY <1>1, <1>7 DEF TruncateOrphan, Recovering, Passes
<1>8. CASE SealOrphan
  <2>1. pub.meta \in Written
    BY <1>1, <1>8 DEF SealOrphan, RecoveryIsLate, Passes
  <2>2. pub'.pc = "read" /\ pub'.meta.status \in {"finalized", "recording_failed"}
    BY <1>1, <1>8, <2>1 DEF SealOrphan, Passes, Written
  <2>3. QED
    BY <2>2 DEF Recovering
<1>9. CASE BeginPass \/ Consider \/ SendEpisode \/ AttemptRefused \/ MarkUploaded
  <2>1. BeginPass => pub'.pc \in {"idle", "scan"}
    BY <1>2 DEF BeginPass
  <2>2. Consider => pub'.pc \in {"idle", "scan", "marked"}
    <3>1. Consider => \/ pub' = NextEpisode \/ pub' = IdlePub
                      \/ pub' = [pub EXCEPT !.pc = "marked", !.meta = NoManifest]
      BY DEF Consider
    <3>2. [pub EXCEPT !.pc = "marked", !.meta = NoManifest].pc = "marked"
      BY <1>1 DEF Passes
    <3>3. IdlePub.pc = "idle"
      BY DEF IdlePub
    <3>4. QED
      BY <1>3, <3>1, <3>2, <3>3
  <2>3. SendEpisode => pub'.pc \in {"sent", "verify"}
    BY <1>1 DEF SendEpisode, Upload, Passes
  <2>4. AttemptRefused \/ MarkUploaded => pub'.pc \in {"idle", "scan"}
    BY <1>3 DEF AttemptRefused, GiveUpAttempt, MarkUploaded
  <2>5. QED
    BY <1>4, <1>9, <2>1, <2>2, <2>3, <2>4
<1>10. CASE AttemptFails \/ PublisherCrashes
  BY <1>3, <1>4, <1>10 DEF AttemptFails, GiveUpAttempt, PublisherCrashes, IdlePub
<1>11. CASE Serve
  <2>1. PICK c \in calls : CommitApplied(c) \/ CommitRefused(c)
    BY <1>11 DEF Serve
  <2>2. CommitApplied(c) => pub' = pub \/ pub'.pc = "verify"
    BY <1>1 DEF CommitApplied, Passes
  <2>3. CommitRefused(c) => pub' = pub \/ pub'.pc \in {"idle", "scan"}
    BY <1>3 DEF CommitRefused
  <2>4. QED
    BY <1>4, <2>1, <2>2, <2>3 DEF Recovering
<1>12. CASE Recorder \/ ViewStep \/ ViewFails \/ \E e \in Episodes : BackoffEnds(e)
  BY <1>12 DEF Recorder, pubVars, ViewStep, ArmCheck, RenderVideo, SendVideo, MarkShown, ViewFails,
     BackoffEnds, Recovering
<1>13. QED
  BY <1>5, <1>6, <1>7, <1>8, <1>9, <1>10, <1>11, <1>12 DEF Next, PubStep

\* What is kept stays as it is.
LEMMA KeptStays ==
    ASSUME ArchiveInv, Next, NEW e \in Episodes, Kept(e)
    PROVE  Kept(e)' /\ disk'[e].manifest = disk[e].manifest
<1> USE DEF ArchiveInv
<1>1. disk \in [Episodes -> Folders] /\ Final(e)
  BY DEF Places, Kept, Loads, Final
<1>2. disk'[e].manifest = disk[e].manifest /\ disk'[e].lines = disk[e].lines
  <2>1. CASE Recorder
    BY <1>1, <2>1, RecorderKeepsFinal
  <2>2. CASE TruncateOrphan \/ SealOrphan
    <3>1. pub.ep # e
      BY <2>2 DEF TruncateOrphan, SealOrphan, Kept, Recovering
    <3>2. disk'[e] = disk[e]
      BY <1>1, <2>2, <3>1 DEF TruncateOrphan, SealOrphan
    <3>3. QED
      BY <3>2
  <2>3. QED
    BY <2>1, <2>2, PublishersLeaveDisk
<1>3. ~(Recovering' /\ pub'.ep = e)
  <2>1. disk[e].manifest.status = "finalized"
    BY <1>1 DEF Final
  <2>2. QED
    BY <2>1, RecoveryBegins DEF Kept
<1>4. QED
  BY <1>2, <1>3 DEF Kept, Loads

\* What is sealed stays sealed, with as many samples.
LEMMA FinalStays ==
    ASSUME ArchiveInv, Next, NEW e \in Episodes, Final(e)
    PROVE  Final(e)' /\ disk'[e].manifest.samples = disk[e].manifest.samples
<1> USE DEF ArchiveInv
<1>1. disk \in [Episodes -> Folders] /\ pub \in Passes /\ disk[e].manifest \in Written
  BY LoadedData DEF Places
<1>2. CASE Recorder
  BY <1>2, RecorderKeepsFinal DEF Final
<1>3. CASE TruncateOrphan
  <2>1. disk'[e].manifest = disk[e].manifest
    BY <1>1, <1>3 DEF TruncateOrphan, Folders
  <2>2. QED
    BY <2>1 DEF Final
<1>4. CASE SealOrphan
  <2>1. CASE pub.ep = e
    <3>1. pub.meta \in Written
      BY <1>1, <1>4 DEF SealOrphan, RecoveryIsLate, Passes
    <3>2. disk[e].manifest.samples = pub.meta.rows /\ pub.meta.rows > 0
      BY <1>4, <2>1 DEF SealOrphan, RecoveryIsLate, Recovering, RecordersOwn, Owns
    <3>3. disk'[e].manifest = [pub.meta EXCEPT !.status = "finalized",
                                               !.outcome = "recorder_process_interrupted",
                                               !.samples = pub.meta.rows]
      BY <1>1, <1>4, <2>1, <3>2 DEF SealOrphan, Folders
    <3>4. QED
      BY <3>1, <3>2, <3>3 DEF Final, Written
  <2>2. CASE pub.ep # e
    <3>1. disk'[e] = disk[e]
      BY <1>1, <1>4, <2>2 DEF SealOrphan
    <3>2. QED
      BY <3>1 DEF Final
  <2>3. QED
    BY <2>1, <2>2
<1>5. QED
  BY <1>2, <1>3, <1>4, PublishersLeaveDisk DEF Final

----------------------------------------------------------------------------
(* Every step preserves each part of the invariant.                        *)

LEMMA FinishedFields ==
    ASSUME NEW r \in Recorders, NEW o
    PROVE  /\ Finished(r, o).pc = r.pc /\ Finished(r, o).rows = r.rows
           /\ Finished(r, o).owed = r.owed
BY DEF Finished, Recorders

LEMMA RecorderOwns ==
    ASSUME Places, RecordersOwn, Recorder, NEW e \in Episodes
    PROVE  Owns(e)'
<1>1. /\ rec \in [Episodes -> Recorders] /\ disk \in [Episodes -> Folders] /\ Owns(e)
      /\ rec[e] \in Recorders /\ disk[e] \in Folders
  BY DEF Places, RecordersOwn, Owns
<1>2. /\ rec[e].rows \in Nat /\ rec[e].owed \in Nat /\ disk[e].lines \in Nat
  BY <1>1, RecorderAssumption DEF Recorders, Folders
<1>3. ASSUME /\ rec'[e].pc = rec[e].pc /\ rec'[e].rows = rec[e].rows
             /\ rec'[e].owed = rec[e].owed /\ proc' = proc
             /\ disk'[e].manifest = disk[e].manifest /\ disk'[e].lines = disk[e].lines
      PROVE  Owns(e)'
  BY <1>1, <1>3 DEF Owns, Final
<1>4. ASSUME /\ rec'[e].pc \notin {"none", "new", "recording"}
             /\ disk'[e].manifest = disk[e].manifest
      PROVE  Owns(e)'
  BY <1>1, <1>4 DEF Owns, Final
<1>5. ASSUME NEW x \in Episodes, StartRecording(x) PROVE Owns(e)'
  <2>1. /\ disk' = disk /\ proc' = proc
        /\ rec'[e] = IF e = x THEN NewRecorder("new")
                     ELSE IF e = cur THEN Finished(rec[e], "superseded") ELSE rec[e]
    BY <1>5 DEF StartRecording
  <2>2. CASE e = x
    BY <1>1, <1>5, <2>1, <2>2 DEF StartRecording, Owns, NewRecorder, Final, NoManifest
  <2>3. CASE e # x
    BY <1>1, <1>3, <2>1, <2>3, FinishedFields
  <2>4. QED
    BY <2>2, <2>3
<1>6. CASE FinishRecording
  <2>1. disk' = disk /\ proc' = proc /\ rec' = [rec EXCEPT ![cur] = [Finished(rec[cur], "ended") EXCEPT !.trace = TRUE]]
    BY <1>6 DEF FinishRecording
  <2>2. CASE e = cur
    <3>1. Finished(rec[e], "ended") \in Recorders
      BY <1>1, FinishedTyped DEF Outcomes
    <3>2. rec'[e] = [Finished(rec[e], "ended") EXCEPT !.trace = TRUE]
      BY <1>1, <2>1, <2>2
    <3>3. /\ rec'[e].pc = Finished(rec[e], "ended").pc /\ rec'[e].rows = Finished(rec[e], "ended").rows
          /\ rec'[e].owed = Finished(rec[e], "ended").owed
      BY <3>1, <3>2 DEF Recorders
    <3>4. QED
      BY <1>1, <1>3, <2>1, <3>3, FinishedFields
  <2>3. CASE e # cur
    BY <1>1, <1>3, <2>1, <2>3
  <2>4. QED
    BY <2>2, <2>3
<1>7. ASSUME NEW x \in Episodes, x # e,
             TraceSaved(x) \/ RecorderThread(x) \/ WriteFails(x) \/ FinalizeFails(x)
      PROVE  Owns(e)'
  <2>1. rec'[e] = rec[e] /\ disk'[e] = disk[e] /\ proc' = proc
    BY <1>1, <1>7
    DEF TraceSaved, RecorderThread, Create, Capture, Finalize, WriteFails, FinalizeFails
  <2>2. QED
    BY <1>3, <2>1
<1>8. CASE TraceSaved(e)
  <2>1. /\ rec'[e] = [rec[e] EXCEPT !.trace = FALSE] /\ disk'[e] = [disk[e] EXCEPT !.dir = TRUE]
        /\ proc' = proc
    BY <1>1, <1>8 DEF TraceSaved
  <2>2. QED
    BY <1>1, <1>3, <2>1 DEF Recorders, Folders
<1>9. CASE Create(e)
  <2>1. CASE disk[e].dir
    <3>1. rec'[e] = [rec[e] EXCEPT !.pc = "failed"] /\ disk' = disk
      BY <1>1, <1>9, <2>1 DEF Create
    <3>2. QED
      BY <1>1, <1>4, <3>1 DEF Recorders
  <2>2. CASE ~disk[e].dir
    <3>1. /\ rec'[e] = [rec[e] EXCEPT !.pc = "recording"] /\ proc' = proc
          /\ disk'[e] = [dir |-> TRUE, lines |-> 0, torn |-> FALSE,
                         manifest |-> [status |-> "recording", outcome |-> rec[e].outcome,
                                       rows |-> 0, samples |-> 0, owner |-> proc]]
      BY <1>1, <1>9, <2>2 DEF Create
    <3>2. /\ rec'[e].pc = "recording" /\ disk'[e].manifest.status = "recording"
          /\ disk'[e].manifest.owner = proc'
      BY <1>1, <3>1 DEF Recorders
    <3>3. rec'[e].rows <= disk'[e].lines /\ disk'[e].lines + rec'[e].owed <= MaxRows
      <4>1. rec'[e].rows = 0 /\ rec'[e].owed = 0 /\ disk'[e].lines = 0
        BY <1>1, <1>9, <3>1 DEF Create, Owns, Recorders
      <4>2. QED
        BY <4>1, RecorderAssumption
    <3>4. QED
      BY <3>2, <3>3 DEF Owns, Final
  <2>3. QED
    BY <2>1, <2>2
<1>10. CASE Capture(e)
  <2>1. /\ disk'[e] = [disk[e] EXCEPT !.lines = disk[e].lines + rec[e].owed + 1]
        /\ rec'[e] = [rec[e] EXCEPT !.rows = rec[e].rows + 1, !.owed = 0]
        /\ proc' = proc /\ rec[e].pc = "recording" /\ disk[e].lines + rec[e].owed < MaxRows
    BY <1>1, <1>10 DEF Capture
  <2>2. /\ rec'[e].pc = "recording" /\ disk'[e].manifest = disk[e].manifest
        /\ rec'[e].rows = rec[e].rows + 1 /\ rec'[e].owed = 0
        /\ disk'[e].lines = disk[e].lines + rec[e].owed + 1
    BY <1>1, <2>1 DEF Recorders, Folders
  <2>3. rec[e].rows <= disk[e].lines
    BY <1>1, <2>1 DEF Owns
  <2>4. rec'[e].rows <= disk'[e].lines /\ disk'[e].lines + rec'[e].owed <= MaxRows
    BY <1>2, <2>1, <2>2, <2>3, RecorderAssumption
  <2>5. QED
    BY <1>1, <2>1, <2>2, <2>4 DEF Owns, Final
<1>11. CASE WriteFails(e)
  <2>1. /\ disk' = disk /\ rec'[e] = [rec[e] EXCEPT !.owed = rec[e].owed + 1]
        /\ proc' = proc /\ rec[e].pc = "recording" /\ disk[e].lines + rec[e].owed < MaxRows
    BY <1>1, <1>11 DEF WriteFails
  <2>2. rec'[e].pc = "recording" /\ rec'[e].rows = rec[e].rows /\ rec'[e].owed = rec[e].owed + 1
    BY <1>1, <2>1 DEF Recorders
  <2>3. disk'[e].lines + rec'[e].owed <= MaxRows
    BY <1>2, <2>1, <2>2, RecorderAssumption
  <2>4. QED
    BY <1>1, <2>1, <2>2, <2>3 DEF Owns, Final
<1>12. CASE Finalize(e)
  <2>1. PICK m : /\ m.status = IF rec[e].rows > 0 THEN "finalized" ELSE "recording_failed"
                 /\ m.samples = disk[e].lines + rec[e].owed
                 /\ disk'[e].manifest = m
    <3>1. disk[e].manifest \in Written
      BY <1>1, <1>12 DEF Finalize, Owns, Folders, NoManifest
    <3>2. disk'[e].manifest =
              [disk[e].manifest EXCEPT !.status = IF rec[e].rows > 0 THEN "finalized"
                                                  ELSE "recording_failed",
                                       !.outcome = rec[e].outcome, !.rows = rec[e].rows,
                                       !.samples = disk[e].lines + rec[e].owed]
      BY <1>1, <1>12 DEF Finalize, Folders
    <3>3. QED
      BY <3>1, <3>2 DEF Written
  <2>2. rec'[e].pc = "done" /\ rec[e].rows <= disk[e].lines
    BY <1>1, <1>12 DEF Finalize, Owns, Recorders
  <2>3. QED
    BY <1>2, <2>1, <2>2 DEF Owns, Final
<1>13. CASE FinalizeFails(e)
  <2>1. rec'[e] = [rec[e] EXCEPT !.pc = "failed"] /\ disk' = disk
    BY <1>1, <1>13 DEF FinalizeFails
  <2>2. QED
    BY <1>1, <1>4, <2>1 DEF Recorders
<1>14. CASE ProcessEnds
  <2>1. PICK cut \in SUBSET Episodes :
            disk' = [x \in Episodes |-> [disk[x] EXCEPT !.torn = @ \/ x \in cut]]
    BY <1>14 DEF ProcessEnds
  <2>2. /\ disk'[e] = [disk[e] EXCEPT !.torn = @ \/ e \in cut]
        /\ rec'[e] = [rec[e] EXCEPT !.pc = IF Live(e) THEN "dead" ELSE @,
                                    !.owed = 0, !.trace = FALSE]
    BY <1>14, <2>1 DEF ProcessEnds
  <2>3. disk'[e].manifest = disk[e].manifest
    BY <1>1, <2>2 DEF Folders
  <2>4. rec'[e].pc = IF Live(e) THEN "dead" ELSE rec[e].pc
    BY <1>1, <2>2 DEF Recorders
  <2>5. QED
    BY <1>1, <2>3, <2>4 DEF Owns, Final, Live
<1>15. QED
  BY <1>5, <1>6, <1>7, <1>8, <1>9, <1>10, <1>11, <1>12, <1>13, <1>14
  DEF Recorder, RecNext, RecorderThread

LEMMA NextOwns ==
    ASSUME ArchiveInv, Next
    PROVE  RecordersOwn'
<1> USE DEF ArchiveInv
<1>1. SUFFICES ASSUME NEW e \in Episodes PROVE Owns(e)'
  BY DEF RecordersOwn
<1>2. /\ disk \in [Episodes -> Folders] /\ pub \in Passes /\ Owns(e)
  BY DEF Places, RecordersOwn
<1>3. CASE Recorder
  BY <1>3, RecorderOwns
<1>4. CASE TruncateOrphan
  <2>1. rec' = rec /\ proc' = proc /\ disk'[e].manifest = disk[e].manifest
    BY <1>2, <1>4 DEF TruncateOrphan, Folders
  <2>2. CASE pub.ep = e
    <3>1. rec[e].pc # "recording"
      BY <1>4, <2>2 DEF TruncateOrphan, RecoveryIsLate, Recovering
    <3>2. QED
      BY <1>2, <2>1, <3>1 DEF Owns, Final
  <2>3. CASE pub.ep # e
    <3>1. disk'[e] = disk[e]
      BY <1>2, <1>4, <2>3 DEF TruncateOrphan
    <3>2. QED
      BY <1>2, <2>1, <3>1 DEF Owns, Final
  <2>4. QED
    BY <2>2, <2>3
<1>5. CASE SealOrphan
  <2>1. rec' = rec /\ proc' = proc
    BY <1>5 DEF SealOrphan
  <2>2. CASE pub.ep = e
    <3>1. rec[e].pc \notin {"none", "new", "recording"} /\ pub.meta \in Written
      BY <1>2, <1>5, <2>2 DEF SealOrphan, RecoveryIsLate, Recovering, Passes
    <3>2. disk'[e].manifest =
              [pub.meta EXCEPT !.status = IF pub.meta.rows > 0 THEN "finalized" ELSE "recording_failed",
                               !.outcome = "recorder_process_interrupted",
                               !.samples = pub.meta.rows]
      BY <1>2, <1>5, <2>2 DEF SealOrphan, Folders
    <3>3. Final(e)' => disk'[e].manifest.samples > 0
      BY <3>1, <3>2 DEF Final, Written
    <3>4. QED
      BY <2>1, <3>1, <3>3 DEF Owns
  <2>3. CASE pub.ep # e
    <3>1. disk'[e] = disk[e]
      BY <1>2, <1>5, <2>3 DEF SealOrphan
    <3>2. QED
      BY <1>2, <2>1, <3>1 DEF Owns, Final
  <2>4. QED
    BY <2>2, <2>3
<1>6. QED
  <2>1. CASE ~Recorder /\ ~TruncateOrphan /\ ~SealOrphan
    BY <1>2, <2>1, PublishersLeaveDisk DEF Owns, Final
  <2>2. QED
    BY <1>3, <1>4, <1>5, <2>1

\* Past the scan the publisher stays at its episode.
LEMMA StaysAtEpisode ==
    ASSUME ArchiveInv, Next, pub'.pc \notin {"idle", "scan"}
    PROVE  pub'.ep \in Episodes
<1> USE DEF ArchiveInv
<1>1. pub \in Passes /\ (pub.pc \notin {"idle", "scan"} => pub.ep \in Episodes)
  BY DEF Places, RecoveryIsLate
<1>2. \A todo : Scan(todo).pc \in {"idle", "scan"}
  BY NextEpisodeRests
<1>3. NextEpisode.pc \in {"idle", "scan"} /\ IdlePub.pc = "idle"
  BY NextEpisodeRests DEF IdlePub
<1>4. SUFFICES \/ pub'.pc \in {"idle", "scan"} \/ pub'.ep \in Episodes \/ pub' = pub
               \/ pub'.ep = pub.ep /\ pub.pc \notin {"idle", "scan"}
  BY <1>1
<1>5. CASE BeginPass
  BY <1>2, <1>5 DEF BeginPass
<1>6. CASE ReadManifest
  BY <1>1, <1>6 DEF ReadManifest, Passes
<1>7. CASE CheckOwner
  BY <1>1, <1>3, <1>7 DEF CheckOwner, Passes
<1>8. CASE TruncateOrphan \/ SealOrphan
  BY <1>1, <1>8 DEF TruncateOrphan, SealOrphan, Passes
<1>9. CASE Consider
  <2>1. \/ pub' = NextEpisode \/ pub' = IdlePub
        \/ pub' = [pub EXCEPT !.pc = "marked", !.meta = NoManifest]
    BY <1>9 DEF Consider
  <2>2. [pub EXCEPT !.pc = "marked", !.meta = NoManifest].ep = pub.ep /\ pub.pc = "read"
    BY <1>1, <1>9 DEF Passes, Consider
  <2>3. QED
    BY <1>3, <2>1, <2>2
<1>10. CASE SendEpisode
  BY <1>1, <1>10 DEF SendEpisode, Upload, Passes
<1>11. CASE AttemptRefused \/ MarkUploaded \/ AttemptFails \/ PublisherCrashes
  BY <1>3, <1>11 DEF AttemptRefused, MarkUploaded, AttemptFails, GiveUpAttempt, PublisherCrashes
<1>12. CASE Serve
  <2>1. PICK c \in calls : CommitApplied(c) \/ CommitRefused(c)
    BY <1>12 DEF Serve
  <2>2. c.awaited /\ c.by = "training" => pub.pc = "sent"
    BY <2>1 DEF AnswersAreAwaited
  <2>3. CommitApplied(c) => pub' = pub \/ (pub'.ep = pub.ep /\ pub.pc = "sent")
    BY <1>1, <2>2 DEF CommitApplied, Passes
  <2>4. CommitRefused(c) => pub' = pub \/ pub'.pc \in {"idle", "scan"}
    BY <1>3 DEF CommitRefused
  <2>5. QED
    BY <2>1, <2>3, <2>4
<1>13. CASE Recorder \/ ViewStep \/ ViewFails \/ \E e \in Episodes : BackoffEnds(e)
  BY <1>13 DEF Recorder, pubVars, ViewStep, ArmCheck, RenderVideo, SendVideo, MarkShown, ViewFails,
     BackoffEnds
<1>14. QED
  BY <1>5, <1>6, <1>7, <1>8, <1>9, <1>10, <1>11, <1>12, <1>13 DEF Next, PubStep

\* A receipt of the training publisher is written by MarkUploaded only.
LEMMA UploadedBy ==
    ASSUME ArchiveInv, Next, ~MarkUploaded, NEW e \in Episodes, upload'[e].status = "uploaded"
    PROVE  upload'[e] = upload[e]
<1> USE DEF ArchiveInv
<1>1. upload \in [Episodes -> Uploads]
  BY DEF Places
<1>2. ASSUME NEW x, NEW s, s # "uploaded", upload' = [upload EXCEPT ![x].status = s]
      PROVE  upload'[e] = upload[e]
  <2>1. CASE x = e
    BY <1>1, <1>2, <2>1 DEF Uploads
  <2>2. QED
    BY <1>1, <1>2, <2>1
<1>3. CASE Consider
  BY <1>2, <1>3 DEF Consider
<1>4. CASE AttemptRefused \/ AttemptFails
  BY <1>2, <1>4 DEF AttemptRefused, AttemptFails, GiveUpAttempt
<1>5. CASE Serve
  BY <1>2, <1>5 DEF Serve, CommitApplied, CommitRefused
<1>6. CASE \E x \in Episodes : BackoffEnds(x)
  BY <1>2, <1>6 DEF BackoffEnds
<1>7. CASE \/ BeginPass \/ ReadManifest \/ CheckOwner \/ TruncateOrphan \/ SealOrphan \/ SendEpisode
           \/ Recorder \/ PublisherCrashes \/ ViewStep \/ ViewFails
  BY <1>7 DEF BeginPass, ReadManifest, CheckOwner, TruncateOrphan, SealOrphan, SendEpisode, Recorder,
     pubVars, PublisherCrashes, ViewStep, ArmCheck, RenderVideo, SendVideo, MarkShown, ViewFails
<1>8. QED
  BY <1>3, <1>4, <1>5, <1>6, <1>7 DEF Next, PubStep

\* A recorder does not begin twice.
LEMMA RecorderGoesOn ==
    ASSUME Places, Recorder, NEW e \in Episodes, rec[e].pc \notin {"none", "new"}
    PROVE  /\ rec'[e].pc \notin {"none", "new"}
           /\ rec'[e].pc = "recording" => rec[e].pc = "recording" /\ proc' = proc
<1>1. rec \in [Episodes -> Recorders] /\ rec[e] \in Recorders
  BY DEF Places
<1>2. ASSUME rec'[e].pc = rec[e].pc, proc' = proc
      PROVE  /\ rec'[e].pc \notin {"none", "new"}
             /\ rec'[e].pc = "recording" => rec[e].pc = "recording" /\ proc' = proc
  BY <1>2
<1>3. ASSUME NEW x \in Episodes, StartRecording(x)
      PROVE  rec'[e].pc = rec[e].pc /\ proc' = proc
  <2>1. e # x
    BY <1>3 DEF StartRecording
  <2>2. rec'[e] = rec[e] \/ rec'[e] = Finished(rec[e], "superseded")
    BY <1>3, <2>1 DEF StartRecording
  <2>3. QED
    BY <1>1, <1>3, <2>2, FinishedFields DEF StartRecording
<1>4. CASE FinishRecording
  <2>1. /\ proc' = proc
        /\ rec' = [rec EXCEPT ![cur] = [Finished(rec[cur], "ended") EXCEPT !.trace = TRUE]]
    BY <1>4 DEF FinishRecording
  <2>2. CASE e = cur
    <3>1. Finished(rec[e], "ended") \in Recorders
      BY <1>1, FinishedTyped DEF Outcomes
    <3>2. rec'[e] = [Finished(rec[e], "ended") EXCEPT !.trace = TRUE]
      BY <1>1, <2>1, <2>2
    <3>3. rec'[e].pc = Finished(rec[e], "ended").pc
      BY <3>1, <3>2 DEF Recorders
    <3>4. QED
      BY <1>1, <1>2, <2>1, <3>3, FinishedFields
  <2>3. CASE e # cur
    BY <1>1, <1>2, <2>1, <2>3
  <2>4. QED
    BY <2>2, <2>3
<1>5. ASSUME NEW x \in Episodes, TraceSaved(x) \/ Capture(x) \/ WriteFails(x)
      PROVE  rec'[e].pc = rec[e].pc /\ proc' = proc
  BY <1>1, <1>5 DEF TraceSaved, Capture, WriteFails, Recorders
<1>6. ASSUME NEW x \in Episodes, Create(x)
      PROVE  rec'[e].pc = rec[e].pc /\ proc' = proc
  BY <1>1, <1>6 DEF Create
<1>7. ASSUME NEW x \in Episodes, Finalize(x) \/ FinalizeFails(x)
      PROVE  rec'[e].pc \in {rec[e].pc, "done", "failed"} /\ proc' = proc
  <2>1. CASE x = e
    BY <1>1, <1>7, <2>1 DEF Finalize, FinalizeFails, Recorders
  <2>2. CASE x # e
    BY <1>1, <1>7, <2>2 DEF Finalize, FinalizeFails
  <2>3. QED
    BY <2>1, <2>2
<1>8. CASE ProcessEnds
  <2>1. rec'[e] = [rec[e] EXCEPT !.pc = IF Live(e) THEN "dead" ELSE @, !.owed = 0, !.trace = FALSE]
    BY <1>8 DEF ProcessEnds
  <2>2. rec'[e].pc = IF Live(e) THEN "dead" ELSE rec[e].pc
    BY <1>1, <2>1 DEF Recorders
  <2>3. QED
    BY <2>2 DEF Live
<1>9. QED
  BY <1>2, <1>3, <1>4, <1>5, <1>6, <1>7, <1>8 DEF Recorder, RecNext, RecorderThread

\* A recording is sealed with the lines there are.
LEMMA RecorderSeals ==
    ASSUME Places, RecordersOwn, Recorder, NEW e \in Episodes, ~Final(e), Final(e)'
    PROVE  rec[e].pc = "recording" /\ disk'[e].manifest.samples = disk'[e].lines
<1>1. disk \in [Episodes -> Folders] /\ Owns(e)
  BY DEF Places, RecordersOwn
<1>2. ASSUME NEW x \in Episodes, TraceSaved(x) \/ Capture(x) \/ Create(x) \/ (x # e /\ Finalize(x))
      PROVE  disk'[e].manifest = disk[e].manifest \/ disk'[e].manifest.status = "recording"
  BY <1>1, <1>2 DEF TraceSaved, Capture, Create, Finalize, Folders
<1>3. CASE Finalize(e)
  <2>1. disk[e].manifest \in Written /\ rec[e].pc = "recording"
    BY <1>1, <1>3 DEF Finalize, Owns, Folders, NoManifest
  <2>2. /\ disk'[e].manifest =
              [disk[e].manifest EXCEPT !.status = IF rec[e].rows > 0 THEN "finalized"
                                                  ELSE "recording_failed",
                                       !.outcome = rec[e].outcome, !.rows = rec[e].rows,
                                       !.samples = disk[e].lines + rec[e].owed]
        /\ disk'[e].lines = disk[e].lines + rec[e].owed
    BY <1>1, <1>3 DEF Finalize, Folders
  <2>3. QED
    BY <2>1, <2>2 DEF Written
<1>4. CASE ProcessEnds
  <2>1. PICK cut \in SUBSET Episodes :
            disk' = [x \in Episodes |-> [disk[x] EXCEPT !.torn = @ \/ x \in cut]]
    BY <1>4 DEF ProcessEnds
  <2>2. disk'[e] = [disk[e] EXCEPT !.torn = @ \/ e \in cut]
    BY <2>1
  <2>3. disk'[e].manifest = disk[e].manifest
    BY <1>1, <2>2 DEF Folders
  <2>4. QED
    BY <2>3 DEF Final
<1>5. CASE FinishRecording \/ \E x \in Episodes : StartRecording(x) \/ WriteFails(x) \/ FinalizeFails(x)
  BY <1>5 DEF FinishRecording, StartRecording, WriteFails, FinalizeFails, Final
<1>6. QED
  BY <1>2, <1>3, <1>4, <1>5 DEF Final, Recorder, RecNext, RecorderThread

LEMMA NextRecovery ==
    ASSUME ArchiveInv, Next
    PROVE  RecoveryIsLate'
<1> USE DEF ArchiveInv
<1>1. /\ rec \in [Episodes -> Recorders] /\ disk \in [Episodes -> Folders] /\ pub \in Passes
  BY DEF Places
<1>2. pub'.pc \in {"orphan", "rewriting"} => pub'.meta # NoManifest
  <2>1. SUFFICES ASSUME pub'.pc \in {"orphan", "rewriting"} PROVE pub'.meta # NoManifest
    OBVIOUS
  <2>2. Recovering /\ (pub' = pub \/ CheckOwner \/ TruncateOrphan)
    BY <2>1, RecoveryBegins DEF Recovering
  <2>3. CASE pub' = pub
    BY <2>1, <2>3 DEF RecoveryIsLate
  <2>4. CASE CheckOwner
    <3>1. pub'.meta = pub.meta /\ pub.meta.status = "recording"
      BY <1>1, <2>1, <2>4 DEF CheckOwner, Passes, NextEpisode, Scan, IdlePub
    <3>2. QED
      BY <3>1 DEF NoManifest
  <2>5. CASE TruncateOrphan
    <3>1. pub.meta \in Written
      BY <1>1, <2>5 DEF TruncateOrphan, RecoveryIsLate, Passes
    <3>2. pub'.meta.status = pub.meta.status
      BY <1>1, <2>5, <3>1 DEF TruncateOrphan, Passes, Written
    <3>3. QED
      BY <3>1, <3>2 DEF Written, NoManifest
  <2>6. QED
    BY <2>2, <2>3, <2>4, <2>5
<1>3. SUFFICES ASSUME Recovering', NEW e \in Episodes, pub'.ep = e
               PROVE  /\ rec'[e].pc \notin {"none", "new"}
                      /\ rec'[e].pc = "recording" => pub'.pc = "read" /\ pub'.meta.owner = proc'
                      /\ upload'[e].status # "uploaded"
                      /\ Final(e)' => disk'[e].manifest.samples =
                            (IF pub'.pc = "rewriting" THEN pub'.meta.rows ELSE disk'[e].lines)
  <2>1. Recovering' => pub'.pc \notin {"idle", "scan"}
    BY DEF Recovering
  <2>2. QED
    BY <1>2, <1>3, <2>1, StaysAtEpisode DEF RecoveryIsLate
<1>4. CASE ReadManifest /\ pub'.meta.status = "recording"
  <2>1. /\ pub'.pc = "read" /\ pub'.meta = disk[e].manifest
        /\ rec' = rec /\ disk' = disk /\ proc' = proc /\ upload' = upload
    BY <1>1, <1>3, <1>4 DEF ReadManifest, Passes, recVars
  <2>2. disk[e].manifest.status = "recording" /\ Owns(e)
    BY <1>4, <2>1 DEF RecordersOwn
  <2>3. upload[e].status # "uploaded"
    BY <2>1, <2>2 DEF UploadsAreTrue, Registered, Kept, Loads
  <2>4. QED
    BY <2>1, <2>2, <2>3 DEF Owns, Final, NoManifest
<1>5. CASE Recovering /\ pub'.ep = pub.ep /\ (pub' = pub \/ CheckOwner \/ TruncateOrphan)
  <2>1. /\ e = pub.ep /\ Owns(e) /\ rec[e].pc \notin {"none", "new"}
        /\ rec[e].pc = "recording" => pub.pc = "read" /\ pub.meta.owner = proc
        /\ upload[e].status # "uploaded"
        /\ Final(e) => disk[e].manifest.samples =
              (IF pub.pc = "rewriting" THEN pub.meta.rows ELSE disk[e].lines)
    BY <1>3, <1>5 DEF RecoveryIsLate, Recovering, RecordersOwn
  <2>2. upload'[e].status # "uploaded"
    <3>1. ~MarkUploaded
      BY <1>5 DEF MarkUploaded, Recovering
    <3>2. QED
      BY <2>1, <3>1, UploadedBy
  <2>3. CASE Recorder
    <3>1. pub' = pub
      BY <2>3 DEF Recorder, pubVars
    <3>2. /\ rec'[e].pc \notin {"none", "new"}
          /\ rec'[e].pc = "recording" => rec[e].pc = "recording" /\ proc' = proc
      BY <1>1, <2>1, <2>3, RecorderGoesOn
    <3>3. CASE Final(e)
      BY <1>5, <2>1, <2>2, <2>3, <3>1, <3>2, <3>3, RecorderKeepsFinal
    <3>4. CASE ~Final(e)
      <4>1. Final(e)' => rec[e].pc = "recording" /\ disk'[e].manifest.samples = disk'[e].lines
        BY <1>1, <2>3, <3>4, RecorderSeals
      <4>2. QED
        BY <1>5, <2>1, <2>2, <3>1, <3>2, <4>1
    <3>5. QED
      BY <3>3, <3>4
  <2>4. CASE CheckOwner
    <3>1. pub' # NextEpisode
      BY <1>3, NextEpisodeRests DEF Recovering
    <3>2. pub.meta.owner # proc /\ pub' = [pub EXCEPT !.pc = "orphan"] /\ pub.pc = "read"
      <4>1. CASE pub.meta.owner = proc
        BY <2>4, <3>1, <4>1 DEF CheckOwner
      <4>2. CASE pub.meta.owner # proc
        BY <2>4, <4>2 DEF CheckOwner
      <4>3. QED
        BY <4>1, <4>2
    <3>3. rec' = rec /\ disk' = disk /\ pub'.pc = "orphan"
      BY <1>1, <2>4, <3>2 DEF CheckOwner, recVars, Passes
    <3>4. QED
      BY <1>5, <2>1, <2>2, <3>2, <3>3 DEF Final
  <2>5. CASE TruncateOrphan
    <3>1. pub.meta \in Written /\ pub.pc = "orphan"
      BY <1>1, <2>5 DEF TruncateOrphan, RecoveryIsLate, Passes
    <3>2. /\ rec' = rec /\ disk'[e].manifest = disk[e].manifest
          /\ pub'.pc = "rewriting" /\ pub'.meta.rows = disk[e].lines
      BY <1>1, <2>1, <2>5, <3>1 DEF TruncateOrphan, Passes, Folders, Written
    <3>3. QED
      BY <1>5, <2>1, <2>2, <3>1, <3>2 DEF Final
  <2>6. CASE pub' = pub /\ ~Recorder /\ ~TruncateOrphan
    <3>1. ~SealOrphan
      BY <1>1, <1>3, <2>6 DEF SealOrphan, Recovering, Passes
    <3>2. rec' = rec /\ disk' = disk /\ proc' = proc
      BY <2>6, <3>1, PublishersLeaveDisk
    <3>3. QED
      BY <2>1, <2>2, <2>6, <3>2 DEF Final
  <2>7. QED
    BY <1>5, <2>3, <2>4, <2>5, <2>6
<1>6. QED
  BY <1>3, <1>4, <1>5, RecoveryBegins

\* The head moves when a commit is applied.
LEMMA HubBy ==
    ASSUME Next, hub' # hub
    PROVE  \E c \in calls : CommitApplied(c)
BY DEF Next, Recorder, pubVars, PubStep, BeginPass, ReadManifest, CheckOwner, TruncateOrphan,
       SealOrphan, Consider, SendEpisode, AttemptRefused, MarkUploaded, AttemptFails, GiveUpAttempt,
       PublisherCrashes, ViewStep, ArmCheck, RenderVideo, SendVideo, MarkShown, ViewFails, Serve,
       CommitRefused, BackoffEnds

\* The two kinds of calls, and what a commit from the head carries.
LEMMA CallFields ==
    ASSUME Places, NEW c \in calls
    PROVE  /\ c.by \in {"training", "viewing"} /\ c.parent \in Nat /\ c.awaited \in BOOLEAN
           /\ c.by = "training" => c \in TrainingCalls /\ c.ep \in Episodes
           /\ c.by = "viewing" => c \in ViewingCalls
BY DEF Places, TrainingCalls, ViewingCalls

LEMMA AppliedFields ==
    ASSUME Places, NEW c \in calls
    PROVE  /\ Applied(c).rev = hub.rev + 1
           /\ c.by = "training" => /\ Applied(c).registry = c.registry
                                   /\ Applied(c).archive = [hub.archive EXCEPT ![c.ep] = c.data]
                                   /\ Applied(c).catalog = hub.catalog
           /\ c.by = "viewing" => /\ Applied(c).registry = hub.registry
                                  /\ Applied(c).archive = hub.archive
                                  /\ Applied(c).catalog = c.catalog
BY CallFields DEF Applied, Places, Heads

LEMMA CommittedRegistry ==
    ASSUME ArchiveInv, NEW c \in calls, c.by = "training", MayApply(c)
    PROVE  /\ c.ep \in Episodes /\ Publishes(c) /\ Final(c.ep)
           /\ \/ /\ Existing(hub, c.ep) = {} /\ c.registry \in Seq(Entries)
                 /\ Len(c.registry) = Len(hub.registry) + 1
                 /\ \A i \in DOMAIN hub.registry : c.registry[i] = hub.registry[i]
                 /\ c.registry[Len(hub.registry) + 1] = Entry(c.ep, c.data, c.data)
              \/ /\ DOMAIN c.registry = DOMAIN hub.registry
                 /\ c.registry = RepairProvenance(hub.registry, c.ep)
                 /\ \A i \in DOMAIN hub.registry :
                       c.registry[i] = IF hub.registry[i].episode = c.ep
                                       THEN [hub.registry[i] EXCEPT !.hash = c.data]
                                       ELSE hub.registry[i]
<1>1. c.ep \in Episodes /\ Publishes(c) /\ Final(c.ep)
  BY CallFields DEF ArchiveInv, CallsAreWorth, Worth, MayApply, Publishes, Kept, Loads, Final
<1>2. Places /\ hub.registry \in Seq(Entries) /\ c.data = DataOf(disk[c.ep].manifest)
  BY <1>1, HeadFields DEF ArchiveInv, Publishes
<1>3. CASE Existing(hub, c.ep) = {} /\ c.registry = AppendEpisode(hub.registry, c.ep)
  <2>1. /\ c.registry \in Seq(Entries)
        /\ Len(c.registry) = Len(hub.registry) + 1
        /\ \A i \in 1 .. Len(hub.registry) : c.registry[i] = hub.registry[i]
        /\ c.registry[Len(hub.registry) + 1] = Entry(c.ep, c.data, c.data)
    BY <1>1, <1>2, <1>3, AppendTyped
  <2>2. DOMAIN hub.registry = 1 .. Len(hub.registry)
    BY <1>2, RegistryFields
  <2>3. QED
    BY <1>1, <1>3, <2>1, <2>2
<1>4. CASE c.registry = RepairProvenance(hub.registry, c.ep)
  BY <1>1, <1>2, <1>4, RepairTyped
<1>5. QED
  BY <1>1, <1>3, <1>4 DEF Publishes

\* No episode gets a second index.
LEMMA NextOneIndex ==
    ASSUME ArchiveInv, Next
    PROVE  OneIndexEach'
<1>1. Places /\ OneIndexEach /\ hub.registry \in Seq(Entries)
  BY HeadFields DEF ArchiveInv
<1>2. DOMAIN hub.registry = 1 .. Len(hub.registry) /\ Len(hub.registry) \in Nat
      /\ \A i \in DOMAIN hub.registry : hub.registry[i] \in Entries
  BY <1>1, RegistryFields
<1>3. CASE hub' = hub
  BY <1>1, <1>3 DEF OneIndexEach
<1>4. ASSUME NEW c \in calls, CommitApplied(c), c.by = "training" PROVE OneIndexEach'
  <2>1. hub'.registry = c.registry /\ MayApply(c)
    BY <1>1, <1>4, AppliedFields DEF CommitApplied
  <2>2. SUFFICES ASSUME NEW i \in DOMAIN c.registry, NEW j \in DOMAIN c.registry,
                        c.registry[i].episode = c.registry[j].episode
                 PROVE  i = j
    BY <2>1 DEF OneIndexEach
  <2>3. CASE /\ Existing(hub, c.ep) = {} /\ c.registry \in Seq(Entries)
             /\ Len(c.registry) = Len(hub.registry) + 1
             /\ \A k \in DOMAIN hub.registry : c.registry[k] = hub.registry[k]
             /\ c.registry[Len(hub.registry) + 1] = Entry(c.ep, c.data, c.data)
    <3> DEFINE n == Len(hub.registry) + 1
    <3>1. /\ i \in DOMAIN hub.registry \/ i = n
          /\ j \in DOMAIN hub.registry \/ j = n
      <4>1. DOMAIN c.registry = 1 .. n
        BY <2>3, RegistryFields
      <4>2. QED
        BY <1>2, <4>1
    <3>2. \A k \in DOMAIN hub.registry : c.registry[k].episode # c.ep
      BY <2>3 DEF Existing
    <3>3. c.registry[n].episode = c.ep
      BY <2>3 DEF Entry
    <3>4. CASE i \in DOMAIN hub.registry /\ j \in DOMAIN hub.registry
      BY <1>1, <2>2, <2>3, <3>4 DEF OneIndexEach
    <3>5. QED
      BY <2>2, <3>1, <3>2, <3>3, <3>4
  <2>4. CASE /\ DOMAIN c.registry = DOMAIN hub.registry
             /\ \A k \in DOMAIN hub.registry :
                   c.registry[k] = IF hub.registry[k].episode = c.ep
                                   THEN [hub.registry[k] EXCEPT !.hash = c.data]
                                   ELSE hub.registry[k]
    <3>1. \A k \in DOMAIN hub.registry : c.registry[k].episode = hub.registry[k].episode
      BY <1>2, <2>4 DEF Entries
    <3>2. QED
      BY <1>1, <2>2, <2>4, <3>1 DEF OneIndexEach
  <2>5. QED
    BY <1>4, <2>1, <2>3, <2>4, CommittedRegistry
<1>5. ASSUME NEW c \in calls, CommitApplied(c), c.by = "viewing" PROVE OneIndexEach'
  BY <1>1, <1>5, AppliedFields DEF CommitApplied, OneIndexEach
<1>6. QED
  BY <1>1, <1>3, <1>4, <1>5, HubBy, CallFields

\* A call on its way was there before, awaited or given up since, or is sent now.
LEMMA CallsBy ==
    ASSUME ArchiveInv, Next, NEW c \in calls'
    PROVE  \/ c \in calls
           \/ \E d \in calls : c = [d EXCEPT !.awaited = FALSE]
           \/ /\ SendEpisode /\ pub'.pc = "sent" /\ pub'.ep = pub.ep
              /\ \E r : /\ \/ Existing(hub, pub.ep) = {} /\ r = AppendEpisode(hub.registry, pub.ep)
                           \/ r = RepairProvenance(hub.registry, pub.ep)
                        /\ c = [by |-> "training", parent |-> hub.rev, awaited |-> TRUE, ep |-> pub.ep,
                                registry |-> r, data |-> Exported(pub.ep)]
           \/ /\ SendVideo
              /\ c = [by |-> "viewing", parent |-> hub.rev, awaited |-> TRUE,
                      catalog |-> [hub.catalog EXCEPT ![view.ep] = view.data]]
<1> USE DEF ArchiveInv
<1>1. pub \in Passes
  BY DEF Places
<1>2. CASE SendEpisode
  <2>1. CASE Existing(hub, pub.ep) = {} /\ Upload(AppendEpisode(hub.registry, pub.ep))
    BY <1>1, <1>2, <2>1 DEF Upload, Passes
  <2>2. CASE Upload(RepairProvenance(hub.registry, pub.ep))
    BY <1>1, <1>2, <2>2 DEF Upload, Passes
  <2>3. CASE calls' = calls
    BY <2>3
  <2>4. QED
    BY <1>2, <2>1, <2>2, <2>3 DEF SendEpisode
<1>3. CASE SendVideo
  BY <1>3 DEF SendVideo
<1>4. CASE AttemptRefused \/ AttemptFails \/ PublisherCrashes \/ ViewFails
  BY <1>4 DEF AttemptRefused, AttemptFails, GiveUpAttempt, PublisherCrashes, ViewFails, GivenUp
<1>5. CASE Serve
  BY <1>5 DEF Serve, CommitApplied, CommitRefused
<1>6. CASE calls' = calls
  BY <1>6
<1>7. QED
  BY <1>2, <1>3, <1>4, <1>5, <1>6
  DEF Next, Recorder, pubVars, PubStep, BeginPass, ReadManifest, CheckOwner, TruncateOrphan,
      SealOrphan, Consider, MarkUploaded, ViewStep, ArmCheck, RenderVideo, MarkShown, BackoffEnds

\* What a commit is worth, it stays worth until the head moves.
LEMMA WorthStays ==
    ASSUME ArchiveInv, Next, hub' = hub, NEW c \in calls
    PROVE  Worth(c)'
<1>1. Worth(c) /\ Places /\ hub.registry \in Seq(Entries)
  BY HeadFields DEF ArchiveInv, CallsAreWorth
<1>2. CASE c.parent # hub.rev
  BY <1>1, <1>2 DEF Worth
<1>3. CASE c.parent = hub.rev /\ c.by = "training"
  <2>1. Publishes(c) /\ c.ep \in Episodes
    BY <1>1, <1>3, CallFields DEF Worth
  <2>2. Kept(c.ep)' /\ disk'[c.ep].manifest = disk[c.ep].manifest
    BY <2>1, KeptStays DEF Publishes
  <2>3. /\ Agrees(hub, c.ep)' = Agrees(hub, c.ep) /\ Existing(hub, c.ep)' = Existing(hub, c.ep)
        /\ AppendEpisode(hub.registry, c.ep)' = AppendEpisode(hub.registry, c.ep)
        /\ RepairProvenance(hub.registry, c.ep)' = RepairProvenance(hub.registry, c.ep)
    BY <2>2 DEF Agrees, Existing, AppendEpisode, Exported, RepairProvenance
  <2>4. Publishes(c)'
    BY <2>1, <2>2, <2>3 DEF Publishes
  <2>5. QED
    BY <1>1, <1>3, <2>4 DEF Worth
<1>4. CASE c.parent = hub.rev /\ c.by # "training"
  <2>1. PICK e \in Episodes, d \in Data :
            /\ Final(e) /\ d.samples = disk[e].manifest.samples
            /\ c.catalog = [hub.catalog EXCEPT ![e] = d]
    BY <1>1, <1>4 DEF Worth, Shows
  <2>2. Final(e)' /\ disk'[e].manifest.samples = disk[e].manifest.samples
    BY <2>1, FinalStays
  <2>3. /\ Final(e)' /\ d.samples = disk'[e].manifest.samples
        /\ c.catalog = [hub'.catalog EXCEPT ![e] = d]
    BY <2>1, <2>2
  <2>4. Shows(c)'
    BY <2>3 DEF Shows
  <2>5. QED
    BY <1>1, <1>4, <2>4 DEF Worth
<1>5. QED
  BY <1>2, <1>3, <1>4

LEMMA GivenUpFields ==
    ASSUME Places, NEW d \in calls, NEW c, c = [d EXCEPT !.awaited = FALSE]
    PROVE  /\ c.by = d.by /\ c.parent = d.parent /\ c.awaited = FALSE
           /\ d.by = "training" => c.ep = d.ep /\ c.registry = d.registry /\ c.data = d.data
           /\ d.by = "viewing" => c.catalog = d.catalog
BY CallFields DEF TrainingCalls, ViewingCalls

LEMMA NextCalls ==
    ASSUME ArchiveInv, Next
    PROVE  CallsAreWorth'
<1> USE DEF ArchiveInv
<1>1. SUFFICES ASSUME NEW c \in calls' PROVE Worth(c)'
  BY DEF CallsAreWorth
<1>2. hub.rev \in Nat
  BY HeadFields
<1>3. CASE hub' # hub
  <2>1. PICK x \in calls : CommitApplied(x)
    BY <1>3, HubBy
  <2>2. hub'.rev = hub.rev + 1 /\ c \in calls
    BY <2>1, AppliedFields DEF CommitApplied
  <2>3. c.parent <= hub.rev /\ c.parent \in Nat
    BY <2>2, CallFields DEF CallsAreWorth, Worth
  <2>4. QED
    BY <1>2, <2>2, <2>3 DEF Worth
<1>4. CASE hub' = hub /\ c \in calls
  BY <1>4, WorthStays
<1>5. ASSUME hub' = hub, NEW d \in calls, c = [d EXCEPT !.awaited = FALSE]
      PROVE  Worth(c)'
  <2>1. Worth(d)'
    BY <1>5, WorthStays
  <2>2. CASE c.by = "training"
    BY <1>5, <2>1, <2>2, GivenUpFields DEF Worth, Publishes
  <2>3. CASE c.by # "training"
    <3>1. d.by = "viewing" /\ c.by = d.by /\ c.parent = d.parent /\ c.catalog = d.catalog
      BY <1>5, <2>3, GivenUpFields, CallFields
    <3>2. Shows(d)' => Shows(c)'
      BY <3>1 DEF Shows
    <3>3. QED
      BY <2>1, <3>1, <3>2 DEF Worth
  <2>4. QED
    BY <2>2, <2>3
<1>6. ASSUME hub' = hub, SendEpisode, pub'.pc = "sent", pub'.ep = pub.ep,
             NEW r,
             \/ Existing(hub, pub.ep) = {} /\ r = AppendEpisode(hub.registry, pub.ep)
             \/ r = RepairProvenance(hub.registry, pub.ep),
             c = [by |-> "training", parent |-> hub.rev, awaited |-> TRUE, ep |-> pub.ep,
                  registry |-> r, data |-> Exported(pub.ep)]
      PROVE  Worth(c)'
  <2>1. /\ c.by = "training" /\ c.parent = hub.rev /\ c.ep = pub.ep /\ c.registry = r
        /\ c.data = DataOf(disk[c.ep].manifest)
    BY <1>6 DEF Exported
  <2>2. disk' = disk /\ Loads(c.ep) /\ Agrees(hub, c.ep)
    BY <1>6, <2>1 DEF SendEpisode, recVars
  <2>3. Kept(c.ep)'
    BY <1>6, <2>2 DEF Kept, Loads, Recovering
  <2>4. /\ Agrees(hub, c.ep)' = Agrees(hub, c.ep) /\ Existing(hub, c.ep)' = Existing(hub, c.ep)
        /\ AppendEpisode(hub.registry, c.ep)' = AppendEpisode(hub.registry, c.ep)
        /\ RepairProvenance(hub.registry, c.ep)' = RepairProvenance(hub.registry, c.ep)
    BY <1>6, <2>2 DEF Agrees, Existing, AppendEpisode, Exported, RepairProvenance
  <2>5. Publishes(c)'
    BY <1>6, <2>1, <2>2, <2>3, <2>4 DEF Publishes
  <2>6. QED
    BY <1>2, <1>6, <2>1, <2>5 DEF Worth
<1>7. ASSUME hub' = hub, SendVideo,
             c = [by |-> "viewing", parent |-> hub.rev, awaited |-> TRUE,
                  catalog |-> [hub.catalog EXCEPT ![view.ep] = view.data]]
      PROVE  Worth(c)'
  <2>1. view.ep \in Episodes /\ view.data \in Data
    BY <1>7 DEF SendVideo, ShownIsTrue, Places, Views
  <2>2. PICK e \in Episodes, d \in Data : e = view.ep /\ d = view.data
    BY <2>1
  <2>3. /\ Final(e) /\ d.samples = disk[e].manifest.samples /\ disk' = disk
        /\ c.by = "viewing" /\ c.parent = hub.rev /\ c.catalog = [hub.catalog EXCEPT ![e] = d]
    BY <1>7, <2>2 DEF SendVideo, ShownIsTrue, recVars
  <2>4. Shows(c)'
    BY <1>7, <2>3 DEF Shows, Final
  <2>5. QED
    BY <1>2, <1>7, <2>3, <2>4 DEF Worth
<1>8. QED
  BY <1>3, <1>4, <1>5, <1>6, <1>7, CallsBy

\* While the training publisher waits for an answer, it goes on only with it, or
\* without it.
LEMMA TrainingWaits ==
    ASSUME ArchiveInv, Next, NEW c \in calls, c \in calls', c.awaited, c.by = "training"
    PROVE  pub' = pub
<1> USE DEF ArchiveInv
<1>1. pub.pc = "sent"
  BY DEF AnswersAreAwaited
<1>2. ASSUME calls' = GivenUp("training") PROVE FALSE
  <2>1. PICK d \in calls : c = IF d.by = "training" THEN [d EXCEPT !.awaited = FALSE] ELSE d
    BY <1>2 DEF GivenUp
  <2>2. QED
    BY <2>1, GivenUpFields
<1>3. CASE Serve
  <2>1. PICK d \in calls : CommitApplied(d) \/ CommitRefused(d)
    BY <1>3 DEF Serve
  <2>2. c # d
    BY <2>1 DEF CommitApplied, CommitRefused
  <2>3. ~(d.awaited /\ d.by = "training")
    BY <2>2 DEF AnswersAreAwaited
  <2>4. QED
    BY <2>1, <2>3 DEF CommitApplied, CommitRefused
<1>4. CASE AttemptRefused \/ AttemptFails \/ PublisherCrashes
  BY <1>2, <1>4 DEF AttemptRefused, AttemptFails, GiveUpAttempt, PublisherCrashes
<1>5. CASE \/ BeginPass \/ ReadManifest \/ CheckOwner \/ TruncateOrphan \/ SealOrphan \/ Consider
           \/ SendEpisode \/ MarkUploaded
  BY <1>1, <1>5 DEF BeginPass, ReadManifest, CheckOwner, TruncateOrphan, SealOrphan, Consider,
     SendEpisode, MarkUploaded
<1>6. CASE Recorder \/ ViewStep \/ ViewFails \/ \E e \in Episodes : BackoffEnds(e)
  BY <1>6 DEF Recorder, pubVars, ViewStep, ArmCheck, RenderVideo, SendVideo, MarkShown, ViewFails,
     BackoffEnds
<1>7. QED
  BY <1>3, <1>4, <1>5, <1>6 DEF Next, PubStep

LEMMA ViewingWaits ==
    ASSUME ArchiveInv, Next, NEW c \in calls, c \in calls', c.awaited, c.by = "viewing"
    PROVE  view' = view
<1> USE DEF ArchiveInv
<1>1. view.pc = "sent"
  BY DEF AnswersAreAwaited
<1>2. ASSUME calls' = GivenUp("viewing") PROVE FALSE
  <2>1. PICK d \in calls : c = IF d.by = "viewing" THEN [d EXCEPT !.awaited = FALSE] ELSE d
    BY <1>2 DEF GivenUp
  <2>2. QED
    BY <2>1, GivenUpFields
<1>3. CASE Serve
  <2>1. PICK d \in calls : CommitApplied(d) \/ CommitRefused(d)
    BY <1>3 DEF Serve
  <2>2. c # d
    BY <2>1 DEF CommitApplied, CommitRefused
  <2>3. ~(d.awaited /\ d.by = "viewing")
    BY <2>2 DEF AnswersAreAwaited
  <2>4. QED
    BY <2>1, <2>3 DEF CommitApplied, CommitRefused
<1>4. CASE ViewFails
  BY <1>2, <1>4 DEF ViewFails
<1>5. CASE ViewStep
  BY <1>1, <1>5 DEF ViewStep, ArmCheck, RenderVideo, SendVideo, MarkShown
<1>6. CASE Recorder \/ PubStep \/ AttemptFails \/ PublisherCrashes \/ \E e \in Episodes : BackoffEnds(e)
  BY <1>6 DEF Recorder, pubVars, PubStep, BeginPass, ReadManifest, CheckOwner, TruncateOrphan,
     SealOrphan, Consider, SendEpisode, AttemptRefused, MarkUploaded, AttemptFails, GiveUpAttempt,
     PublisherCrashes, BackoffEnds
<1>7. QED
  BY <1>3, <1>4, <1>5, <1>6 DEF Next

LEMMA NextAnswers ==
    ASSUME ArchiveInv, Next
    PROVE  AnswersAreAwaited'
<1> USE DEF ArchiveInv
\* An awaited call was awaited before, or is sent now by a publisher that waited for none.
<1>1. ASSUME NEW c \in calls', c.awaited
      PROVE  \/ c \in calls
             \/ /\ SendEpisode /\ pub'.pc = "sent" /\ pub'.ep = c.ep /\ c.by = "training"
                /\ c = [by |-> "training", parent |-> hub.rev, awaited |-> TRUE, ep |-> pub.ep,
                        registry |-> c.registry, data |-> Exported(pub.ep)]
             \/ /\ SendVideo /\ c.by = "viewing"
                /\ c = [by |-> "viewing", parent |-> hub.rev, awaited |-> TRUE,
                        catalog |-> [hub.catalog EXCEPT ![view.ep] = view.data]]
  <2>1. ASSUME NEW d \in calls, c = [d EXCEPT !.awaited = FALSE] PROVE FALSE
    BY <1>1, <2>1, GivenUpFields
  <2>2. QED
    BY <2>1, CallsBy
<1>2. ASSUME NEW c \in calls', c.awaited
      PROVE  IF c.by = "training" THEN pub'.pc = "sent" /\ pub'.ep = c.ep ELSE view'.pc = "sent"
  <2>1. CASE c \in calls
    BY <1>2, <2>1, TrainingWaits, ViewingWaits, CallFields DEF AnswersAreAwaited
  <2>2. CASE SendVideo /\ c.by = "viewing"
    BY <2>2 DEF SendVideo, Places, Views
  <2>3. QED
    BY <1>1, <1>2, <2>1, <2>2
<1>3. ASSUME NEW c \in calls', NEW d \in calls', c.awaited, d.awaited, c.by = d.by
      PROVE  c = d
  <2>1. CASE c \in calls /\ d \in calls
    BY <1>3, <2>1 DEF AnswersAreAwaited
  <2>2. CASE SendEpisode
    <3>1. \A x \in calls : x.awaited => x.by # "training"
      BY <2>2 DEF SendEpisode, AnswersAreAwaited
    <3>2. PICK x : calls' \subseteq calls \cup {x} /\ x.by = "training"
      <4>1. CASE calls' = calls
        <5>1. [by |-> "training"].by = "training"
          OBVIOUS
        <5>2. QED
          BY <4>1, <5>1
      <4>2. ASSUME NEW r, Upload(r) PROVE \E x : calls' \subseteq calls \cup {x} /\ x.by = "training"
        <5> DEFINE x == [by |-> "training", parent |-> hub.rev, awaited |-> TRUE,
                         ep |-> pub.ep, registry |-> r, data |-> Exported(pub.ep)]
        <5>1. calls' \subseteq calls \cup {x} /\ x.by = "training"
          BY <4>2 DEF Upload
        <5>2. QED
          BY <5>1
      <4>3. QED
        BY <2>2, <4>1, <4>2 DEF SendEpisode
    <3>3. QED
      BY <1>3, <2>1, <3>1, <3>2
  <2>3. CASE SendVideo
    <3>1. \A x \in calls : x.awaited => x.by = "training"
      BY <2>3, CallFields DEF SendVideo, AnswersAreAwaited
    <3>2. PICK x : calls' \subseteq calls \cup {x} /\ x.by = "viewing"
      <4> DEFINE x == [by |-> "viewing", parent |-> hub.rev, awaited |-> TRUE,
                       catalog |-> [hub.catalog EXCEPT ![view.ep] = view.data]]
      <4>1. calls' \subseteq calls \cup {x} /\ x.by = "viewing"
        BY <2>3 DEF SendVideo
      <4>2. QED
        BY <4>1
    <3>3. QED
      BY <1>3, <2>1, <3>1, <3>2
  <2>4. QED
    BY <1>1, <1>3, <2>1, <2>2, <2>3
<1>4. ASSUME NEW c \in calls', c.awaited, c.by = "viewing" PROVE c.catalog[view'.ep] = view'.data
  <2>1. CASE c \in calls
    BY <1>4, <2>1, ViewingWaits DEF AnswersAreAwaited
  <2>2. CASE SendVideo /\ c = [by |-> "viewing", parent |-> hub.rev, awaited |-> TRUE,
                               catalog |-> [hub.catalog EXCEPT ![view.ep] = view.data]]
    <3>1. view.ep \in Episodes /\ view'.ep = view.ep /\ view'.data = view.data
      BY <2>2 DEF SendVideo, ShownIsTrue, Places, Views
    <3>2. QED
      BY <2>2, <3>1, HeadFields
  <2>3. QED
    BY <1>1, <1>4, <2>1, <2>2
<1>5. QED
  BY <1>2, <1>3, <1>4 DEF AnswersAreAwaited

\* What is registered stays so, under the index it has.
LEMMA RegisteredStays ==
    ASSUME ArchiveInv, Next, NEW e \in Episodes, NEW i, Registered(e, i)
    PROVE  Registered(e, i)'
<1> USE DEF ArchiveInv
<1>1. Places /\ hub.registry \in Seq(Entries) /\ Kept(e) /\ i \in DOMAIN hub.registry
  BY HeadFields DEF Registered
<1>2. Kept(e)' /\ disk'[e].manifest = disk[e].manifest
  BY <1>1, KeptStays
<1>3. CASE hub' = hub
  BY <1>1, <1>2, <1>3 DEF Registered, Verified
<1> DEFINE d == DataOf(disk[e].manifest)
<1>4. hub.archive[e] = d /\ hub.registry[i] = Entry(e, d, d)
  BY DEF Registered, Verified
<1>5. SUFFICES ASSUME NEW c \in calls, CommitApplied(c)
               PROVE  /\ hub'.archive[e] = d /\ i \in DOMAIN hub'.registry
                      /\ hub'.registry[i] = Entry(e, d, d)
  BY <1>2, <1>3, HubBy DEF Registered, Verified
<1>6. CASE c.by = "viewing"
  BY <1>1, <1>4, <1>5, <1>6, AppliedFields DEF CommitApplied
<1>7. CASE c.by = "training"
  <2>1. /\ hub'.registry = c.registry /\ hub'.archive = [hub.archive EXCEPT ![c.ep] = c.data]
        /\ MayApply(c)
    BY <1>1, <1>5, <1>7, AppliedFields DEF CommitApplied
  <2>2. hub'.archive[e] = d
    BY <1>1, <1>4, <1>7, <2>1, CommittedRegistry, HeadFields DEF Publishes
  <2>3. CASE /\ Existing(hub, c.ep) = {} /\ c.registry \in Seq(Entries)
             /\ Len(c.registry) = Len(hub.registry) + 1
             /\ \A k \in DOMAIN hub.registry : c.registry[k] = hub.registry[k]
    <3>1. i \in DOMAIN c.registry
      <4>1. /\ DOMAIN hub.registry = 1 .. Len(hub.registry) /\ Len(hub.registry) \in Nat
            /\ DOMAIN c.registry = 1 .. Len(c.registry)
        BY <1>1, <2>3, RegistryFields
      <4>2. QED
        BY <1>1, <2>3, <4>1
    <3>2. QED
      BY <1>1, <1>4, <2>1, <2>2, <2>3, <3>1
  <2>4. CASE /\ DOMAIN c.registry = DOMAIN hub.registry
             /\ \A k \in DOMAIN hub.registry :
                   c.registry[k] = IF hub.registry[k].episode = c.ep
                                   THEN [hub.registry[k] EXCEPT !.hash = c.data]
                                   ELSE hub.registry[k]
    <3>1. c.ep = e => c.data = d
      BY <1>7, <2>1, CommittedRegistry DEF Publishes
    <3>2. Entry(e, d, d).episode = e /\ [Entry(e, d, d) EXCEPT !.hash = d] = Entry(e, d, d)
      BY DEF Entry
    <3>3. QED
      BY <1>1, <1>4, <2>1, <2>2, <2>4, <3>1, <3>2
  <2>5. QED
    BY <1>7, <2>1, <2>3, <2>4, CommittedRegistry
<1>8. QED
  BY <1>6, <1>7, CallFields

\* What there is to verify is a head, of an episode that is sealed.
LEMMA HeadIsNotNoHub ==
    ASSUME NEW h \in Heads
    PROVE  h # NoHub
<1>1. DOMAIN h = {"rev", "registry", "archive", "catalog"} /\ DOMAIN NoHub = {"rev"}
  BY DEF Heads, NoHub
<1>2. QED
  BY <1>1

LEMMA VerifyBy ==
    ASSUME ArchiveInv, Next, pub'.pc = "verify"
    PROVE  \/ pub' = pub
           \/ SendEpisode /\ pub' = [pub EXCEPT !.pc = "verify", !.snap = hub]
           \/ \E c \in calls : /\ CommitApplied(c) /\ c.awaited /\ c.by = "training"
                               /\ pub' = [pub EXCEPT !.pc = "verify", !.snap = Applied(c)]
<1> USE DEF ArchiveInv
<1>1. pub \in Passes
  BY DEF Places
<1>2. CASE SendEpisode
  <2>1. \A r : Upload(r) => pub'.pc = "sent"
    BY <1>1 DEF Upload, Passes
  <2>2. QED
    BY <1>2, <2>1 DEF SendEpisode
<1>3. CASE Serve
  <2>1. PICK c \in calls : CommitApplied(c) \/ CommitRefused(c)
    BY <1>3 DEF Serve
  <2>2. CASE CommitApplied(c)
    BY <2>2 DEF CommitApplied
  <2>3. CASE CommitRefused(c)
    BY <2>3, NextEpisodeRests DEF CommitRefused
  <2>4. QED
    BY <2>1, <2>2, <2>3
<1>4. CASE BeginPass \/ AttemptRefused \/ MarkUploaded \/ AttemptFails \/ PublisherCrashes
  <2>1. pub'.pc \in {"idle", "scan"}
    BY <1>4, NextEpisodeRests DEF BeginPass, AttemptRefused, MarkUploaded, AttemptFails,
       GiveUpAttempt, PublisherCrashes, IdlePub
  <2>2. QED
    BY <2>1
<1>5. CASE ReadManifest \/ TruncateOrphan \/ SealOrphan
  BY <1>1, <1>5 DEF ReadManifest, TruncateOrphan, SealOrphan, Passes
<1>6. CASE CheckOwner
  <2>1. pub' = NextEpisode \/ pub' = [pub EXCEPT !.pc = "orphan"]
    BY <1>6 DEF CheckOwner
  <2>2. QED
    BY <1>1, <2>1, NextEpisodeRests DEF Passes
<1>7. CASE Consider
  <2>1. \/ pub' = NextEpisode \/ pub' = IdlePub
        \/ pub' = [pub EXCEPT !.pc = "marked", !.meta = NoManifest]
    BY <1>7 DEF Consider
  <2>2. [pub EXCEPT !.pc = "marked", !.meta = NoManifest].pc = "marked" /\ IdlePub.pc = "idle"
    BY <1>1 DEF Passes, IdlePub
  <2>3. QED
    BY <2>1, <2>2, NextEpisodeRests
<1>8. CASE Recorder \/ ViewStep \/ ViewFails \/ \E e \in Episodes : BackoffEnds(e)
  BY <1>8 DEF Recorder, pubVars, ViewStep, ArmCheck, RenderVideo, SendVideo, MarkShown, ViewFails,
     BackoffEnds
<1>9. QED
  BY <1>2, <1>3, <1>4, <1>5, <1>6, <1>7, <1>8 DEF Next, PubStep

LEMMA NextUploads ==
    ASSUME ArchiveInv, Next
    PROVE  UploadsAreTrue'
<1> USE DEF ArchiveInv
<1>1. pub \in Passes /\ upload \in [Episodes -> Uploads]
  BY DEF Places
<1>2. ASSUME NEW e \in Episodes, upload'[e].status = "uploaded"
      PROVE  Registered(e, upload[e].index)'
  <2>1. CASE MarkUploaded
    <3>1. PICK i \in Existing(pub.snap, pub.ep) :
              /\ Verified(pub.snap, pub.ep, i)
              /\ upload' = [upload EXCEPT ![pub.ep] = [status |-> "uploaded", index |-> i]]
      BY <2>1 DEF MarkUploaded
    <3>2. CASE e = pub.ep
      <4>1. Registered(e, i) /\ upload'[e].index = i
        BY <1>1, <2>1, <3>1, <3>2 DEF MarkUploaded, UploadsAreTrue
      <4>2. Registered(e, i)'
        BY <4>1, RegisteredStays
      <4>3. QED
        BY <4>1, <4>2
    <3>3. CASE e # pub.ep
      <4>1. upload'[e] = upload[e]
        BY <1>1, <3>1, <3>3
      <4>2. PICK index : index = upload[e].index
        OBVIOUS
      <4>3. Registered(e, index)'
        BY <1>2, <4>1, <4>2, RegisteredStays DEF UploadsAreTrue
      <4>4. QED
        BY <4>1, <4>2, <4>3
    <3>4. QED
      BY <3>2, <3>3
  <2>2. CASE ~MarkUploaded
    <3>1. upload'[e] = upload[e]
      BY <1>2, <2>2, UploadedBy
    <3>2. PICK index : index = upload[e].index
      OBVIOUS
    <3>3. Registered(e, index)'
      BY <1>2, <3>1, <3>2, RegisteredStays DEF UploadsAreTrue
    <3>4. QED
      BY <3>1, <3>2, <3>3
  <2>3. QED
    BY <2>1, <2>2
<1>3. SUFFICES ASSUME pub'.pc = "verify", NEW e \in Episodes, e = pub'.ep
               PROVE  /\ pub'.snap # NoHub /\ Kept(e)'
                      /\ \A i \in Existing(pub'.snap, e) :
                            Verified(pub.snap, e, i)' => Registered(e, i)'
  <2>1. pub'.pc = "verify" => pub'.ep \in Episodes
    BY StaysAtEpisode
  <2>2. QED
    BY <1>2, <1>3, <2>1 DEF UploadsAreTrue
<1>4. CASE pub' = pub
  <2>1. pub.snap # NoHub /\ Kept(e)
    BY <1>3, <1>4 DEF UploadsAreTrue
  <2>2. Kept(e)' /\ disk'[e].manifest = disk[e].manifest
    BY <2>1, KeptStays
  <2>3. ASSUME NEW i \in Existing(pub'.snap, e), Verified(pub.snap, e, i)'
        PROVE  Registered(e, i)'
    <3>1. Verified(pub.snap, e, i)
      BY <1>4, <2>2, <2>3 DEF Verified
    <3>2. Registered(e, i)
      BY <1>3, <1>4, <2>3, <3>1 DEF UploadsAreTrue
    <3>3. QED
      BY <3>2, RegisteredStays
  <2>4. QED
    BY <1>4, <2>1, <2>2, <2>3
<1>5. CASE SendEpisode /\ pub' = [pub EXCEPT !.pc = "verify", !.snap = hub]
  <2>1. pub'.snap = hub /\ pub.ep = e /\ hub' = hub /\ disk' = disk /\ Loads(e)
    BY <1>1, <1>3, <1>5 DEF SendEpisode, Passes, recVars
  <2>2. Kept(e)'
    BY <1>3, <2>1 DEF Kept, Loads, Recovering
  <2>3. pub'.snap # NoHub
    BY <2>1, HeadIsNotNoHub DEF Places
  <2>4. QED
    BY <2>1, <2>2, <2>3 DEF Registered, Verified, Existing
<1>6. ASSUME NEW c \in calls, CommitApplied(c), c.awaited, c.by = "training",
             pub' = [pub EXCEPT !.pc = "verify", !.snap = Applied(c)]
      PROVE  /\ pub'.snap # NoHub /\ Kept(e)'
             /\ \A i \in Existing(pub'.snap, e) : Verified(pub.snap, e, i)' => Registered(e, i)'
  <2>1. pub'.snap = Applied(c) /\ hub' = Applied(c) /\ pub.ep = e /\ c.ep = e
    BY <1>1, <1>3, <1>6 DEF CommitApplied, Passes, AnswersAreAwaited
  <2>2. Kept(e)'
    BY <1>6, <2>1, CommittedRegistry, KeptStays DEF CommitApplied, Publishes
  <2>3. pub'.snap # NoHub
    BY <2>1, HeadIsNotNoHub, AppliedTyped
  <2>4. QED
    BY <2>1, <2>2, <2>3 DEF Registered, Verified, Existing
<1>7. QED
  BY <1>3, <1>4, <1>5, <1>6, VerifyBy

\* What is shown stays shown: a catalog committed later lists it with its samples.
LEMMA ShownStays ==
    ASSUME ArchiveInv, Next, NEW e \in Episodes, NEW samples, Shown(e, samples)
    PROVE  Shown(e, samples)'
<1> USE DEF ArchiveInv
<1>1. Final(e)' /\ disk'[e].manifest.samples = disk[e].manifest.samples
  BY FinalStays DEF Shown
<1>2. hub'.catalog[e].samples = hub.catalog[e].samples \/ hub'.catalog[e].samples = disk[e].manifest.samples
  <2>1. CASE hub' = hub
    BY <2>1
  <2>2. ASSUME NEW c \in calls, CommitApplied(c), c.by = "training"
        PROVE  hub'.catalog = hub.catalog
    BY <2>2, AppliedFields DEF CommitApplied
  <2>3. ASSUME NEW c \in calls, CommitApplied(c), c.by = "viewing"
        PROVE  \/ hub'.catalog[e].samples = hub.catalog[e].samples
               \/ hub'.catalog[e].samples = disk[e].manifest.samples
    <3>1. Shows(c) /\ hub'.catalog = c.catalog
      BY <2>3, AppliedFields DEF CommitApplied, MayApply, CallsAreWorth, Worth
    <3>2. PICK x \in Episodes, d \in Data :
              /\ d.samples = disk[x].manifest.samples
              /\ c.catalog = [hub.catalog EXCEPT ![x] = d]
      BY <3>1 DEF Shows
    <3>3. QED
      BY <3>1, <3>2, HeadFields
  <2>4. QED
    BY <2>1, <2>2, <2>3, HubBy, CallFields
<1>3. QED
  BY <1>1, <1>2 DEF Shown

LEMMA NoDataIsNoData ==
    ASSUME NEW d \in Data
    PROVE  d # NoData
<1>1. d.outcome \in Outcomes /\ NoData.outcome \notin Outcomes
  BY DEF Data, NoData, Outcomes
<1>2. QED
  BY <1>1

LEMMA NextShown ==
    ASSUME ArchiveInv, Next
    PROVE  ShownIsTrue'
<1> USE DEF ArchiveInv
<1>1. view \in Views /\ receipt \in [Episodes -> Receipts] /\ disk \in [Episodes -> Folders]
  BY DEF Places
\* A receipt that says "uploaded" was there before, or is written now.
<1>2. ASSUME NEW e \in Episodes, receipt'[e].status = "uploaded"
      PROVE  \/ receipt'[e] = receipt[e]
             \/ MarkShown /\ e = view.ep /\ receipt'[e].samples = view.data.samples
  <2>1. ASSUME NEW x \in Episodes, ArmCheck(x)
        PROVE  receipt'[e] = receipt[e]
    BY <1>1, <1>2, <2>1 DEF ArmCheck, Receipt
  <2>2. CASE MarkShown
    BY <1>1, <2>2 DEF MarkShown, Receipt
  <2>3. CASE receipt' = receipt
    BY <2>3
  <2>4. QED
    BY <2>1, <2>2, <2>3
    DEF Next, Recorder, pubVars, PubStep, BeginPass, ReadManifest, CheckOwner, TruncateOrphan,
        SealOrphan, Consider, SendEpisode, AttemptRefused, MarkUploaded, AttemptFails, GiveUpAttempt,
        PublisherCrashes, ViewStep, RenderVideo, SendVideo, ViewFails, Serve, CommitApplied,
        CommitRefused, BackoffEnds
\* The viewing publisher goes on with what it has, or begins with a sealed recording.
<1>3. ASSUME view'.pc # "idle"
      PROVE  \/ view'.ep = view.ep /\ view'.data = view.data /\ view.pc # "idle"
             \/ \E e \in Episodes : RenderVideo(e)
  <2>1. CASE SendVideo
    BY <1>1, <2>1 DEF SendVideo, Views
  <2>2. CASE MarkShown \/ ViewFails
    BY <1>3, <2>2 DEF MarkShown, ViewFails, IdleView
  <2>3. CASE Serve
    <3>1. PICK c \in calls : CommitApplied(c) \/ CommitRefused(c)
      BY <2>3 DEF Serve
    <3>2. c.awaited /\ c.by = "viewing" => view.pc = "sent"
      BY <3>1 DEF AnswersAreAwaited
    <3>3. QED
      BY <1>1, <1>3, <3>1, <3>2 DEF CommitApplied, CommitRefused, Views
  <2>4. CASE view' = view
    BY <1>3, <2>4
  <2>5. QED
    BY <2>1, <2>2, <2>3, <2>4
    DEF Next, Recorder, pubVars, PubStep, BeginPass, ReadManifest, CheckOwner, TruncateOrphan,
        SealOrphan, Consider, SendEpisode, AttemptRefused, MarkUploaded, AttemptFails, GiveUpAttempt,
        PublisherCrashes, ViewStep, ArmCheck, BackoffEnds
<1>4. ASSUME NEW e \in Episodes, NEW samples, receipt'[e].status = "uploaded", samples = receipt'[e].samples
      PROVE  Shown(e, samples)'
  <2>1. Shown(e, samples)
    BY <1>2, <1>4 DEF ShownIsTrue, MarkShown
  <2>2. QED
    BY <2>1, ShownStays
<1>5. ASSUME NEW e, NEW d, e = view'.ep, d = view'.data, view'.pc # "idle"
      PROVE  e \in Episodes /\ d # NoData /\ Final(e)' /\ d.samples = disk'[e].manifest.samples
  <2>1. CASE view'.ep = view.ep /\ view'.data = view.data /\ view.pc # "idle"
    BY <1>5, <2>1, FinalStays DEF ShownIsTrue
  <2>2. ASSUME NEW x \in Episodes, RenderVideo(x)
        PROVE  e \in Episodes /\ d # NoData /\ Final(e)' /\ d.samples = disk'[e].manifest.samples
    <3>1. e = x /\ d = DataOf(disk[x].manifest) /\ disk' = disk /\ Final(x)
      BY <1>5, <2>2 DEF RenderVideo, ToShow, Final, recVars
    <3>2. d \in Data
      BY <3>1, LoadedData
    <3>3. d # NoData
      BY <3>2, NoDataIsNoData
    <3>4. d.samples = disk[e].manifest.samples
      BY <3>1 DEF DataOf
    <3>5. QED
      BY <3>1, <3>3, <3>4 DEF Final
  <2>3. QED
    BY <1>3, <1>5, <2>1, <2>2
<1>6. ASSUME view'.pc = "committed", NEW e, NEW d, e = view'.ep, d = view'.data
      PROVE  Shown(e, d.samples)'
  <2>1. CASE view' = view
    <3>1. Shown(e, d.samples) /\ e \in Episodes
      BY <1>6, <2>1 DEF ShownIsTrue
    <3>2. PICK samples : samples = d.samples
      OBVIOUS
    <3>3. Shown(e, samples)'
      BY <3>1, <3>2, ShownStays
    <3>4. QED
      BY <3>2, <3>3
  <2>2. ASSUME NEW c \in calls, CommitApplied(c), c.awaited, c.by = "viewing"
        PROVE  Shown(e, d.samples)'
    <3>1. e = view.ep /\ d = view.data /\ view.pc = "sent"
      BY <1>1, <1>6, <2>2 DEF CommitApplied, Views, AnswersAreAwaited
    <3>2. e \in Episodes /\ Final(e) /\ d.samples = disk[e].manifest.samples
      BY <3>1 DEF ShownIsTrue
    <3>3. Final(e)' /\ disk'[e].manifest.samples = d.samples
      BY <3>2, FinalStays
    <3>4. hub'.catalog[e] = d
      BY <2>2, <3>1, AppliedFields DEF CommitApplied, AnswersAreAwaited
    <3>5. QED
      BY <3>3, <3>4 DEF Shown
  <2>3. CASE view'.pc \in {"idle", "rendered", "sent"}
    BY <1>6, <2>3
  <2>4. CASE SendVideo \/ MarkShown \/ ViewFails \/ \E x \in Episodes : RenderVideo(x)
    BY <1>1, <2>3, <2>4 DEF SendVideo, MarkShown, ViewFails, RenderVideo, IdleView, Views
  <2>5. CASE Serve
    <3>1. PICK c \in calls : CommitApplied(c) \/ CommitRefused(c)
      BY <2>5 DEF Serve
    <3>2. CASE CommitApplied(c)
      BY <2>1, <2>2, <3>2 DEF CommitApplied
    <3>3. CASE CommitRefused(c)
      BY <1>1, <2>1, <2>3, <3>3 DEF CommitRefused, Views
    <3>4. QED
      BY <3>1, <3>2, <3>3
  <2>6. QED
    BY <2>1, <2>4, <2>5
    DEF Next, Recorder, pubVars, PubStep, BeginPass, ReadManifest, CheckOwner, TruncateOrphan,
        SealOrphan, Consider, SendEpisode, AttemptRefused, MarkUploaded, AttemptFails, GiveUpAttempt,
        PublisherCrashes, ViewStep, ArmCheck, BackoffEnds
<1>7. QED
  BY <1>4, <1>5, <1>6 DEF ShownIsTrue

----------------------------------------------------------------------------
(* The invariant holds.                                                    *)

\* The registry there is at first has one entry at most.
LEMMA InitRegistry ==
    ASSUME Init
    PROVE  hub.registry \in Seq(Entries) /\ Len(hub.registry) <= 1
<1>1. Places /\ hub.registry \in Seq(Entries)
  BY InitPlaces, HeadFields
<1>2. PICK old \in [Legacy -> {DataOf(OldManifest), OtherData}] :
        \E registry \in {<<>>} \cup {<<Entry(e, old[e], old[e])>> : e \in Legacy}
                           \cup {<<Entry(e, old[e], OfConverter)>> : e \in Legacy} :
             hub.registry = registry
  BY DEF Init
<1>3. hub.registry = <<>> \/ \E x : hub.registry = <<x>>
  BY <1>2
<1>4. CASE hub.registry = <<>>
  BY <1>1, <1>4
<1>5. CASE \E x : hub.registry = <<x>>
  <2>1. PICK x : hub.registry = <<x>>
    BY <1>5
  <2>2. Len(<<x>>) = 1
    OBVIOUS
  <2>3. QED
    BY <1>1, <2>1, <2>2
<1>6. QED
  BY <1>3, <1>4, <1>5

LEMMA InitShows ==
    ASSUME Init, NEW e \in Legacy
    PROVE  hub.catalog[e] = DataOf(OldManifest)
<1>1. e \in Episodes
  BY RecorderAssumption DEF Episodes
<1>2. hub.catalog = [x \in Episodes |-> IF x \in Legacy THEN DataOf(OldManifest) ELSE NoData]
  BY DEF Init
<1>3. QED
  BY <1>1, <1>2

LEMMA InitArchiveInv == Init => ArchiveInv
<1> SUFFICES ASSUME Init PROVE ArchiveInv
  OBVIOUS
<1>1. Places
  BY InitPlaces
<1>2. /\ pub = IdlePub /\ view = IdleView /\ calls = {} /\ RecInit
      /\ \A e \in Episodes : upload[e].status \in {"archived", "none"}
      /\ receipt = [e \in Episodes |-> IF e \in Legacy
                                        THEN [status |-> "uploaded", samples |-> MaxRows]
                                        ELSE [status |-> "none", samples |-> 0]]
  BY DEF Init
<1>3. ASSUME NEW e \in Episodes PROVE Owns(e)
  <2>1. /\ rec[e] = NewRecorder(IF e \in Legacy THEN "done" ELSE "none")
        /\ disk[e].manifest = IF e \in Legacy THEN OldManifest ELSE NoManifest
    BY <1>2 DEF RecInit
  <2>2. CASE e \in Legacy
    BY <2>1, <2>2, RecorderAssumption DEF Owns, Final, NewRecorder, OldManifest
  <2>3. CASE e \notin Legacy
    BY <2>1, <2>3 DEF Owns, Final, NewRecorder, NoManifest
  <2>4. QED
    BY <2>2, <2>3
<1>4. RecoveryIsLate
  BY <1>2 DEF RecoveryIsLate, Recovering, IdlePub
<1>5. OneIndexEach
  <2>1. DOMAIN hub.registry \subseteq {1}
    BY InitRegistry, RegistryFields
  <2>2. QED
    BY <2>1 DEF OneIndexEach
<1>6. CallsAreWorth /\ AnswersAreAwaited
  BY <1>2 DEF CallsAreWorth, AnswersAreAwaited
<1>7. UploadsAreTrue
  BY <1>2 DEF UploadsAreTrue, IdlePub
<1>8. ShownIsTrue
  <2>1. ASSUME NEW e \in Episodes, receipt[e].status = "uploaded"
        PROVE  Shown(e, receipt[e].samples)
    <3>1. e \in Legacy /\ receipt[e].samples = MaxRows
      BY <1>2, <2>1
    <3>2. disk[e].manifest = OldManifest
      BY <1>2, <3>1 DEF RecInit
    <3>3. QED
      BY <3>1, <3>2, InitShows DEF Shown, Final, OldManifest, DataOf
  <2>2. view.pc = "idle"
    BY <1>2 DEF IdleView
  <2>3. QED
    BY <2>1, <2>2 DEF ShownIsTrue
<1>9. QED
  BY <1>1, <1>3, <1>4, <1>5, <1>6, <1>7, <1>8 DEF ArchiveInv, RecordersOwn

LEMMA NextArchiveInv == ArchiveInv /\ [Next]_vars => ArchiveInv'
<1> SUFFICES ASSUME ArchiveInv, [Next]_vars PROVE ArchiveInv'
  OBVIOUS
<1>1. CASE Next
  BY <1>1, NextPlaces, NextOwns, NextRecovery, NextOneIndex, NextCalls, NextAnswers, NextUploads,
     NextShown DEF ArchiveInv
<1>2. CASE UNCHANGED vars
  <2>1. /\ Places' = Places /\ RecordersOwn' = RecordersOwn /\ RecoveryIsLate' = RecoveryIsLate
        /\ OneIndexEach' = OneIndexEach /\ AnswersAreAwaited' = AnswersAreAwaited
    BY <1>2 DEF vars, Places, RecordersOwn, Owns, Final, RecoveryIsLate, Recovering, OneIndexEach,
       AnswersAreAwaited
  <2>2. CallsAreWorth' = CallsAreWorth
    BY <1>2 DEF vars, CallsAreWorth, Worth, Publishes, Shows, Kept, Loads, Final, Recovering, Agrees,
       Existing, AppendEpisode, Exported, RepairProvenance
  <2>3. UploadsAreTrue' = UploadsAreTrue
    BY <1>2 DEF vars, UploadsAreTrue, Registered, Verified, Kept, Loads, Recovering, Existing
  <2>4. ShownIsTrue' = ShownIsTrue
    BY <1>2 DEF vars, ShownIsTrue, Shown, Final
  <2>5. QED
    BY <2>1, <2>2, <2>3, <2>4 DEF ArchiveInv
<1>3. QED
  BY <1>1, <1>2

\* The inductive invariant of the recorder, the disk, the two publishers and the
\* dataset holds, however many sessions, rows, processes and failures there are.
THEOREM ArchiveInvariant == Spec => []ArchiveInv
<1>1. Init => ArchiveInv
  BY InitArchiveInv
<1>2. ArchiveInv /\ [Next]_vars => ArchiveInv'
  BY NextArchiveInv
<1>3. QED
  BY <1>1, <1>2, PTL DEF Spec

\* A receipt on disk is true of the dataset as it is now: what is marked uploaded is
\* sealed, archived and registered under the index of its receipt, what is marked
\* shown is in the catalog (publish_yam_training.py:290-304, publish_yam_viewing.py:76-79).
THEOREM ReceiptsTheorem == Spec => []ReceiptsAreTrue
<1>1. ArchiveInv => ReceiptsAreTrue
  <2> SUFFICES ASSUME ArchiveInv, NEW e \in Episodes
               PROVE  /\ upload[e].status = "uploaded" =>
                           /\ disk[e].manifest.status = "finalized"
                           /\ {DataOf(disk[e].manifest).rows, DataOf(disk[e].manifest).samples}
                                 = {disk[e].lines}
                           /\ hub.archive[e] = DataOf(disk[e].manifest)
                           /\ upload[e].index \in DOMAIN hub.registry
                           /\ hub.registry[upload[e].index] =
                                 Entry(e, DataOf(disk[e].manifest), DataOf(disk[e].manifest))
                      /\ receipt[e].status = "uploaded" =>
                           hub.catalog[e].samples = receipt[e].samples
    BY DEF ReceiptsAreTrue
  <2>1. upload[e].status = "uploaded" => Registered(e, upload[e].index)
    BY DEF ArchiveInv, UploadsAreTrue
  <2>2. Loads(e) => {DataOf(disk[e].manifest).rows, DataOf(disk[e].manifest).samples}
                       = {disk[e].lines}
    BY DEF Loads, DataOf
  <2>3. receipt[e].status = "uploaded" => hub.catalog[e].samples = receipt[e].samples
    BY DEF ArchiveInv, ShownIsTrue, Shown
  <2>4. QED
    BY <2>1, <2>2, <2>3 DEF Registered, Kept, Loads, Verified
<1>2. QED
  BY <1>1, ArchiveInvariant, PTL

----------------------------------------------------------------------------
(* The dataset is an archive.                                              *)

LEMMA ArchiveInit ==
    ASSUME Init
    PROVE  Archive!Init
BY InitRegistry, InitPlaces, HeadFields DEF Archive!Init, Archive!Entries, Entries

\* A commit of a new episode adds it at the end.
LEMMA AddStep ==
    ASSUME NEW r \in Seq(Entries), NEW s \in Seq(Entries), NEW x,
           Len(s) = Len(r) + 1, \A i \in DOMAIN r : s[i] = r[i], s[Len(r) + 1] = x
    PROVE  /\ Archive!Front(s) = r /\ Archive!Last(s) = x /\ x \in Entries
<1>1. /\ Len(r) \in Nat /\ DOMAIN r = 1 .. Len(r) /\ DOMAIN s = 1 .. (Len(r) + 1)
      /\ r \in [1 .. Len(r) -> Entries] /\ s \in [1 .. (Len(r) + 1) -> Entries]
  BY RegistryFields
<1>2. Archive!Last(s) = x
  BY DEF Archive!Last
<1>3. x \in Entries
  BY <1>1
<1>4. Archive!Front(s) = [i \in 1 .. Len(r) |-> s[i]]
  BY <1>1 DEF Archive!Front
<1>5. QED
  BY <1>1, <1>2, <1>3, <1>4

LEMMA ArchiveNext ==
    ASSUME ArchiveInv, [Next]_vars
    PROVE  [Archive!Next]_(Archive!vars)
<1> USE DEF ArchiveInv
<1>1. Places /\ hub.registry \in Seq(Entries)
  BY HeadFields
<1>2. CASE hub' = hub
  BY <1>2 DEF Archive!vars
<1>3. SUFFICES ASSUME NEW c \in calls, CommitApplied(c)
               PROVE  [Archive!Next]_(Archive!vars)
  BY <1>2, HubBy DEF vars
<1>4. CASE c.by = "viewing"
  <2>1. Shows(c) /\ hub'.catalog = c.catalog /\ hub'.registry = hub.registry
    BY <1>3, <1>4, AppliedFields DEF CommitApplied, MayApply, CallsAreWorth, Worth
  <2>2. PICK e \in Episodes, d \in Data : c.catalog = [hub.catalog EXCEPT ![e] = d]
    BY <2>1 DEF Shows
  <2>3. hub'.catalog[e] = d
    BY <2>1, <2>2, HeadFields
  <2>4. QED
    BY <2>1, <2>2, <2>3 DEF Archive!Next, Archive!Show
<1>5. CASE c.by = "training"
  <2>1. /\ hub'.registry = c.registry /\ hub'.catalog = hub.catalog /\ MayApply(c)
    BY <1>3, <1>5, AppliedFields DEF CommitApplied
  <2>2. c.data \in Data /\ c.ep \in Episodes
    BY <1>5, CallFields DEF TrainingCalls
  <2>3. CASE /\ Existing(hub, c.ep) = {} /\ c.registry \in Seq(Entries)
             /\ Len(c.registry) = Len(hub.registry) + 1
             /\ \A i \in DOMAIN hub.registry : c.registry[i] = hub.registry[i]
             /\ c.registry[Len(hub.registry) + 1] = Entry(c.ep, c.data, c.data)
    <3> DEFINE x == Entry(c.ep, c.data, c.data)
    <3>1. Archive!Front(c.registry) = hub.registry /\ Archive!Last(c.registry) = x /\ x \in Entries
      BY <1>1, <2>3, AddStep
    <3>2. x.episode = c.ep
      BY DEF Entry
    <3>3. c.ep \notin Archive!Listed
      BY <2>3 DEF Existing, Archive!Listed
    <3>4. Archive!Add
      BY <2>1, <2>3, <3>1, <3>2, <3>3 DEF Archive!Add, Archive!Entries, Entries
    <3>5. QED
      BY <3>4 DEF Archive!Next
  <2>4. CASE /\ DOMAIN c.registry = DOMAIN hub.registry
             /\ c.registry = RepairProvenance(hub.registry, c.ep)
             /\ \A i \in DOMAIN hub.registry :
                   c.registry[i] = IF hub.registry[i].episode = c.ep
                                   THEN [hub.registry[i] EXCEPT !.hash = c.data]
                                   ELSE hub.registry[i]
    <3>1. /\ hub.registry = [i \in DOMAIN hub.registry |-> hub.registry[i]]
          /\ c.registry = [i \in DOMAIN hub.registry |-> c.registry[i]]
      BY <1>1, <2>4, RegistryFields DEF RepairProvenance
    <3>2. CASE Existing(hub, c.ep) = {}
      <4>1. \A i \in DOMAIN hub.registry : c.registry[i] = hub.registry[i]
        BY <2>4, <3>2 DEF Existing
      <4>2. c.registry = hub.registry
        BY <3>1, <4>1
      <4>3. QED
        BY <2>1, <4>2 DEF Archive!vars
    <3>3. CASE Existing(hub, c.ep) # {}
      <4>1. PICK i \in DOMAIN hub.registry : hub.registry[i].episode = c.ep
        BY <3>3 DEF Existing
      <4>2. \A j \in DOMAIN hub.registry : hub.registry[j].episode = c.ep => j = i
        BY <4>1 DEF OneIndexEach
      <4>3. hub.registry[i] \in Entries /\ c.registry[i] = [hub.registry[i] EXCEPT !.hash = c.data]
        BY <1>1, <2>4, <4>1, RegistryFields
      <4>4. c.registry[i].hash = c.data /\ c.data \in Hashes
        BY <2>2, <4>3 DEF Entries, Hashes
      <4>5. \A j \in DOMAIN hub.registry :
                c.registry[j] = IF j = i THEN [hub.registry[i] EXCEPT !.hash = c.registry[i].hash]
                                ELSE hub.registry[j]
        BY <2>4, <4>2, <4>3, <4>4
      <4>6. c.registry = [hub.registry EXCEPT ![i] = [hub.registry[i] EXCEPT !.hash = c.registry[i].hash]]
        BY <3>1, <4>5
      <4>7. Archive!RepairHash
        BY <2>1, <4>4, <4>6 DEF Archive!RepairHash
      <4>8. QED
        BY <4>7 DEF Archive!Next
    <3>4. QED
      BY <3>2, <3>3
  <2>5. QED
    BY <1>5, <2>1, <2>3, <2>4, CommittedRegistry
<1>6. QED
  BY <1>4, <1>5, CallFields

\* Whatever is lost, late, refused or killed, the public dataset is an EpisodeArchive:
\* one index per episode, in order and for good, nothing published is changed but a
\* wrong source hash, and what is shown stays shown.
THEOREM ArchiveTheorem == Spec => ImplementsArchive
<1>1. Init => Archive!Init
  BY ArchiveInit
<1>2. ArchiveInv /\ [Next]_vars => [Archive!Next]_(Archive!vars)
  BY ArchiveNext
<1>3. QED
  BY <1>1, <1>2, ArchiveInvariant, PTL DEF Spec, ImplementsArchive, Archive!Spec

----------------------------------------------------------------------------
(* The type invariant.                                                     *)

\* Only an uploaded episode has an index, it is not attempted again, and who waits has
\* sent something.
Counted ==
    /\ \A e \in Episodes : upload[e].index # 0 => upload[e].status = "uploaded"
    /\ pub.pc \in {"marked", "sent", "verify"} => upload[pub.ep].status # "uploaded"
    /\ pub.pc = "sent" => \E c \in calls : c.by = "training" /\ c.awaited
    /\ view.pc = "sent" => \E c \in calls : c.by = "viewing" /\ c.awaited

\* Of the calls that stay, those of the other sender are awaited as before.
LEMMA OthersStillAwaited ==
    ASSUME ArchiveInv, NEW sender, NEW c \in calls, c.by # sender
    PROVE  c \in GivenUp(sender)
BY DEF GivenUp

LEMMA NextIndexed ==
    ASSUME ArchiveInv, Counted, Next, NEW e \in Episodes, upload'[e].index # 0
    PROVE  upload'[e].status = "uploaded"
<1> USE DEF ArchiveInv
<1>1. /\ upload \in [Episodes -> Uploads]
      /\ upload[e].index # 0 => upload[e].status = "uploaded"
  BY DEF Places, Counted
<1>2. ASSUME NEW x \in Episodes, NEW s, upload[x].status # "uploaded",
             upload' = [upload EXCEPT ![x].status = s]
      PROVE  upload'[e].status = "uploaded"
  <2>1. CASE x = e
    BY <1>1, <1>2, <2>1 DEF Uploads
  <2>2. CASE x # e
    BY <1>1, <1>2, <2>2
  <2>3. QED
    BY <2>1, <2>2
<1>3. CASE upload' = upload
  BY <1>1, <1>3
<1>4. CASE MarkUploaded
  <2>1. PICK i : upload' = [upload EXCEPT ![pub.ep] = [status |-> "uploaded", index |-> i]]
    BY <1>4 DEF MarkUploaded
  <2>2. QED
    BY <1>1, <2>1
<1>5. CASE Consider
  <2>1. pub.ep \in Episodes
    BY <1>5 DEF Consider, RecoveryIsLate
  <2>2. CASE Passed(pub.ep, pub.meta) \/ upload' = upload
    BY <1>3, <1>5, <2>2 DEF Consider
  <2>3. CASE ~Passed(pub.ep, pub.meta) /\ upload' # upload
    BY <1>2, <1>5, <2>1, <2>3 DEF Consider, Passed
  <2>4. QED
    BY <2>2, <2>3
<1>6. CASE AttemptRefused \/ AttemptFails
  <2>1. pub.ep \in Episodes /\ upload[pub.ep].status # "uploaded"
    BY <1>6 DEF AttemptRefused, AttemptFails, RecoveryIsLate, Counted
  <2>2. upload' = [upload EXCEPT ![pub.ep].status = "backoff"]
    BY <1>6 DEF AttemptRefused, AttemptFails, GiveUpAttempt
  <2>3. QED
    BY <1>2, <2>1, <2>2
<1>7. CASE Serve
  <2>1. PICK c \in calls : CommitApplied(c) \/ CommitRefused(c)
    BY <1>7 DEF Serve
  <2>2. CASE CommitRefused(c) /\ c.awaited /\ c.by = "training"
    <3>1. pub.ep \in Episodes /\ upload[pub.ep].status # "uploaded"
      BY <2>2 DEF AnswersAreAwaited, RecoveryIsLate, Counted
    <3>2. upload' = [upload EXCEPT ![pub.ep].status = "backoff"]
      BY <2>2 DEF CommitRefused
    <3>3. QED
      BY <1>2, <3>1, <3>2
  <2>3. CASE CommitApplied(c) \/ ~(c.awaited /\ c.by = "training")
    BY <1>3, <2>1, <2>3 DEF CommitApplied, CommitRefused
  <2>4. QED
    BY <2>1, <2>2, <2>3
<1>8. ASSUME NEW x \in Episodes, BackoffEnds(x) PROVE upload'[e].status = "uploaded"
  BY <1>2, <1>8 DEF BackoffEnds
<1>9. QED
  BY <1>3, <1>4, <1>5, <1>6, <1>7, <1>8
  DEF Next, Recorder, pubVars, PubStep, BeginPass, ReadManifest, CheckOwner, TruncateOrphan,
      SealOrphan, SendEpisode, PublisherCrashes, ViewStep, ArmCheck, RenderVideo, SendVideo,
      MarkShown, ViewFails

\* How the training publisher comes to the places where it has marked its episode.
LEMMA AttemptBy ==
    ASSUME ArchiveInv, Next, pub'.pc \in {"marked", "sent", "verify"}
    PROVE  \/ pub' = pub
           \/ /\ Consider /\ pub'.pc = "marked" /\ pub'.ep = pub.ep
              /\ upload' = [upload EXCEPT ![pub.ep].status = "uploading"]
           \/ SendEpisode /\ pub'.ep = pub.ep /\ upload' = upload
           \/ \E c \in calls : /\ CommitApplied(c) /\ c.awaited /\ c.by = "training"
                               /\ pub'.pc = "verify" /\ pub'.ep = pub.ep
<1> USE DEF ArchiveInv
<1>1. pub \in Passes
  BY DEF Places
<1>2. CASE SendEpisode
  BY <1>1, <1>2 DEF SendEpisode, Upload, Passes
<1>3. CASE Serve
  <2>1. PICK c \in calls : CommitApplied(c) \/ CommitRefused(c)
    BY <1>3 DEF Serve
  <2>2. CASE CommitApplied(c)
    BY <1>1, <2>2 DEF CommitApplied, Passes
  <2>3. CASE CommitRefused(c)
    BY <2>3, NextEpisodeRests DEF CommitRefused
  <2>4. QED
    BY <2>1, <2>2, <2>3
<1>4. CASE BeginPass \/ AttemptRefused \/ MarkUploaded \/ AttemptFails \/ PublisherCrashes
  <2>1. pub'.pc \in {"idle", "scan"}
    BY <1>4, NextEpisodeRests DEF BeginPass, AttemptRefused, MarkUploaded, AttemptFails,
       GiveUpAttempt, PublisherCrashes, IdlePub
  <2>2. QED
    BY <2>1
<1>5. CASE ReadManifest \/ TruncateOrphan \/ SealOrphan
  BY <1>1, <1>5 DEF ReadManifest, TruncateOrphan, SealOrphan, Passes
<1>6. CASE CheckOwner
  <2>1. pub' = NextEpisode \/ pub' = [pub EXCEPT !.pc = "orphan"]
    BY <1>6 DEF CheckOwner
  <2>2. QED
    BY <1>1, <2>1, NextEpisodeRests DEF Passes
<1>7. CASE Consider
  <2>1. \/ pub' = NextEpisode \/ pub' = IdlePub
        \/ /\ pub' = [pub EXCEPT !.pc = "marked", !.meta = NoManifest]
           /\ upload' = [upload EXCEPT ![pub.ep].status = "uploading"]
    BY <1>7 DEF Consider
  <2>2. /\ [pub EXCEPT !.pc = "marked", !.meta = NoManifest].pc = "marked"
        /\ [pub EXCEPT !.pc = "marked", !.meta = NoManifest].ep = pub.ep
        /\ IdlePub.pc = "idle"
    BY <1>1 DEF Passes, IdlePub
  <2>3. QED
    BY <1>7, <2>1, <2>2, NextEpisodeRests
<1>8. CASE Recorder \/ ViewStep \/ ViewFails \/ \E e \in Episodes : BackoffEnds(e)
  BY <1>8 DEF Recorder, pubVars, ViewStep, ArmCheck, RenderVideo, SendVideo, MarkShown, ViewFails,
     BackoffEnds
<1>9. QED
  BY <1>2, <1>3, <1>4, <1>5, <1>6, <1>7, <1>8 DEF Next, PubStep

LEMMA NextCounted ==
    ASSUME ArchiveInv, Counted, Next
    PROVE  Counted'
<1> USE DEF ArchiveInv
<1>1. pub \in Passes /\ view \in Views /\ upload \in [Episodes -> Uploads]
  BY DEF Places
<1>2. ASSUME pub'.pc \in {"marked", "sent", "verify"}
      PROVE  upload'[pub'.ep].status # "uploaded"
  <2>1. CASE pub' = pub
    <3>1. ~MarkUploaded /\ pub.ep \in Episodes /\ upload[pub.ep].status # "uploaded"
      BY <1>2, <2>1, NextEpisodeRests DEF MarkUploaded, RecoveryIsLate, Counted
    <3>2. QED
      BY <2>1, <3>1, UploadedBy
  <2>2. CASE Consider /\ pub'.ep = pub.ep /\ upload' = [upload EXCEPT ![pub.ep].status = "uploading"]
    <3>1. pub.ep \in Episodes
      BY <2>2 DEF Consider, RecoveryIsLate
    <3>2. upload'[pub.ep].status = "uploading"
      BY <1>1, <2>2, <3>1 DEF Uploads
    <3>3. QED
      BY <2>2, <3>2
  <2>3. CASE SendEpisode /\ pub'.ep = pub.ep /\ upload' = upload
    BY <2>3 DEF SendEpisode, Counted
  <2>4. ASSUME NEW c \in calls, CommitApplied(c), c.awaited, c.by = "training", pub'.ep = pub.ep
        PROVE  upload'[pub'.ep].status # "uploaded"
    BY <2>4 DEF CommitApplied, AnswersAreAwaited, Counted
  <2>5. QED
    BY <1>2, <2>1, <2>2, <2>3, <2>4, AttemptBy
<1>3. ASSUME pub'.pc = "sent" PROVE \E c \in calls' : c.by = "training" /\ c.awaited
  <2>1. CASE SendEpisode
    <3>1. PICK r : Upload(r)
      BY <1>1, <1>3, <2>1 DEF SendEpisode, Passes
    <3> DEFINE x == [by |-> "training", parent |-> hub.rev, awaited |-> TRUE,
                     ep |-> pub.ep, registry |-> r, data |-> Exported(pub.ep)]
    <3>2. x \in calls' /\ x.by = "training" /\ x.awaited
      BY <3>1 DEF Upload
    <3>3. QED
      BY <3>2
  <2>2. CASE pub' = pub
    <3>1. PICK c \in calls : c.by = "training" /\ c.awaited
      BY <1>3, <2>2 DEF Counted
    <3>2. CASE ViewFails
      BY <3>1, <3>2, OthersStillAwaited DEF ViewFails
    <3>3. CASE SendVideo
      BY <3>1, <3>3 DEF SendVideo
    <3>4. CASE Serve
      <4>1. PICK d \in calls : CommitApplied(d) \/ CommitRefused(d)
        BY <3>4 DEF Serve
      <4>2. CASE d = c
        <5>1. CommitApplied(d) => pub'.pc = "verify"
          BY <1>1, <3>1, <4>2 DEF CommitApplied, Passes
        <5>2. CommitRefused(d) => pub'.pc \in {"idle", "scan"}
          BY <3>1, <4>2, NextEpisodeRests DEF CommitRefused
        <5>3. QED
          BY <1>3, <4>1, <5>1, <5>2
      <4>3. CASE d # c
        BY <3>1, <4>1, <4>3 DEF CommitApplied, CommitRefused
      <4>4. QED
        BY <4>2, <4>3
    <3>5. CASE AttemptRefused \/ AttemptFails \/ PublisherCrashes
      <4>1. pub'.pc \in {"idle", "scan"}
        BY <3>5, NextEpisodeRests DEF AttemptRefused, AttemptFails, GiveUpAttempt, PublisherCrashes,
           IdlePub
      <4>2. QED
        BY <1>3, <4>1
    <3>6. CASE calls' = calls
      BY <3>1, <3>6
    <3>7. QED
      BY <2>1, <3>2, <3>3, <3>4, <3>5, <3>6, <1>3
      DEF Next, Recorder, pubVars, PubStep, BeginPass, ReadManifest, CheckOwner, TruncateOrphan,
          SealOrphan, Consider, MarkUploaded, ViewStep, ArmCheck, RenderVideo, MarkShown, BackoffEnds
  <2>3. QED
    BY <1>3, <2>1, <2>2, AttemptBy
<1>4. ASSUME view'.pc = "sent" PROVE \E c \in calls' : c.by = "viewing" /\ c.awaited
  <2>1. CASE SendVideo
    <3> DEFINE x == [by |-> "viewing", parent |-> hub.rev, awaited |-> TRUE,
                     catalog |-> [hub.catalog EXCEPT ![view.ep] = view.data]]
    <3>1. x \in calls' /\ x.by = "viewing" /\ x.awaited
      BY <2>1 DEF SendVideo
    <3>2. QED
      BY <3>1
  <2>2. CASE ViewFails \/ MarkShown \/ \E e \in Episodes : RenderVideo(e)
    BY <1>4, <2>2 DEF ViewFails, MarkShown, RenderVideo, IdleView
  <2>3. CASE Serve
    <3>1. PICK d \in calls : CommitApplied(d) \/ CommitRefused(d)
      BY <2>3 DEF Serve
    <3>2. ~(d.awaited /\ d.by = "viewing") /\ view' = view
      BY <1>1, <1>4, <3>1 DEF CommitApplied, CommitRefused, Views
    <3>3. PICK c \in calls : c.by = "viewing" /\ c.awaited
      BY <1>4, <3>2 DEF Counted
    <3>4. QED
      BY <3>1, <3>2, <3>3 DEF CommitApplied, CommitRefused
  <2>4. CASE view' = view /\ (calls' = calls \/ calls' = GivenUp("training") \/ SendEpisode)
    <3>1. PICK c \in calls : c.by = "viewing" /\ c.awaited
      BY <1>4, <2>4 DEF Counted
    <3>2. c \in calls'
      BY <2>4, <3>1, OthersStillAwaited DEF SendEpisode, Upload
    <3>3. QED
      BY <3>1, <3>2
  <2>5. QED
    BY <2>1, <2>2, <2>3, <2>4
    DEF Next, Recorder, pubVars, PubStep, BeginPass, ReadManifest, CheckOwner, TruncateOrphan,
        SealOrphan, Consider, SendEpisode, AttemptRefused, MarkUploaded, AttemptFails, GiveUpAttempt,
        PublisherCrashes, ViewStep, ArmCheck, BackoffEnds
<1>5. QED
  BY <1>2, <1>3, <1>4, NextIndexed DEF Counted

\* A list of distinct numbers up to m has no more than m places.
LEMMA DistinctUpTo ==
    ASSUME NEW n \in Nat, NEW m \in Nat, NEW f \in [1 .. n -> 1 .. m],
           \A i, j \in 1 .. n : f[i] = f[j] => i = j
    PROVE  n <= m
<1>1. /\ IsFiniteSet(1 .. n)
      /\ Cardinality(1 .. n) = IF 1 > n THEN 0 ELSE n - 1 + 1
  BY FS_Interval
<1>2. /\ IsFiniteSet(1 .. m)
      /\ Cardinality(1 .. m) = IF 1 > m THEN 0 ELSE m - 1 + 1
  BY FS_Interval
<1>3. Cardinality(1 .. n) = n /\ Cardinality(1 .. m) = m
  BY <1>1, <1>2
<1>4. SUFFICES ASSUME m < n PROVE FALSE
  OBVIOUS
<1>5. Cardinality(1 .. m) < Cardinality(1 .. n)
  BY <1>3, <1>4
<1>6. \E x, y \in 1 .. n : x # y /\ f[x] = f[y]
  BY <1>1, <1>2, <1>5, FS_PigeonHole
<1>7. QED
  BY <1>6

\* There are no more entries than episodes.
LEMMA RegistryBound ==
    ASSUME ArchiveInv
    PROVE  Len(hub.registry) <= NumEpisodes
<1> DEFINE n == Len(hub.registry)
           f == [i \in 1 .. n |-> hub.registry[i].episode]
<1>1. /\ n \in Nat /\ DOMAIN hub.registry = 1 .. n
      /\ \A i \in 1 .. n : hub.registry[i] \in Entries
  BY HeadFields, RegistryFields DEF ArchiveInv
<1>2. NumEpisodes \in Nat
  BY RecorderAssumption
<1>3. f \in [1 .. n -> 1 .. NumEpisodes]
  BY <1>1 DEF Entries, Episodes
<1>4. \A i, j \in 1 .. n : f[i] = f[j] => i = j
  BY <1>1 DEF ArchiveInv, OneIndexEach
<1> HIDE DEF n, f
<1>5. n <= NumEpisodes
  BY <1>1, <1>2, <1>3, <1>4, DistinctUpTo
<1>6. QED
  BY <1>5 DEF n

\* At most one call of each publisher is awaited.
LEMMA AwaitedCount ==
    ASSUME AnswersAreAwaited, Counted
    PROVE  /\ Cardinality({c \in calls : c.by = "training" /\ c.awaited})
                  = (IF pub.pc = "sent" THEN 1 ELSE 0)
           /\ Cardinality({c \in calls : c.by = "viewing" /\ c.awaited})
                  = (IF view.pc = "sent" THEN 1 ELSE 0)
<1> DEFINE T == {c \in calls : c.by = "training" /\ c.awaited}
           V == {c \in calls : c.by = "viewing" /\ c.awaited}
<1>1. /\ Cardinality({}) = 0 /\ \A x : Cardinality({x}) = 1
  BY FS_EmptySet, FS_Singleton
<1>2. Cardinality(T) = (IF pub.pc = "sent" THEN 1 ELSE 0)
  <2>1. CASE pub.pc = "sent"
    <3>1. PICK c : c \in T
      BY <2>1 DEF Counted
    <3>2. T = {c}
      BY <3>1 DEF AnswersAreAwaited
    <3>3. QED
      BY <1>1, <2>1, <3>2
  <2>2. CASE pub.pc # "sent"
    <3>1. T = {}
      BY <2>2 DEF AnswersAreAwaited
    <3>2. QED
      BY <1>1, <2>2, <3>1
  <2>3. QED
    BY <2>1, <2>2
<1>3. Cardinality(V) = (IF view.pc = "sent" THEN 1 ELSE 0)
  <2>1. CASE view.pc = "sent"
    <3>1. PICK c : c \in V
      BY <2>1 DEF Counted
    <3>2. V = {c}
      BY <3>1 DEF AnswersAreAwaited
    <3>3. QED
      BY <1>1, <2>1, <3>2
  <2>2. CASE view.pc # "sent"
    <3>1. V = {}
      BY <2>2 DEF AnswersAreAwaited
    <3>2. QED
      BY <1>1, <2>2, <3>1
  <2>3. QED
    BY <2>1, <2>2
<1>4. QED
  BY <1>2, <1>3

LEMMA InitCounted == Init => Counted
<1> SUFFICES ASSUME Init PROVE Counted
  OBVIOUS
<1>1. pub.pc = "idle" /\ view.pc = "idle"
  BY DEF Init, IdlePub, IdleView
<1>2. \A e \in Episodes : upload[e].index = 0
  BY DEF Init
<1>3. QED
  BY <1>1, <1>2 DEF Counted

LEMMA TypeFromInvariant == ArchiveInv /\ Counted => TypeOK
<1> SUFFICES ASSUME ArchiveInv, Counted PROVE TypeOK
  OBVIOUS
<1> USE DEF ArchiveInv
<1>1. RecTypeOK
  <2>1. Written \subseteq Manifests /\ Folders \subseteq
            [dir: BOOLEAN, manifest: Manifests \cup {NoManifest}, lines: Nat, torn: BOOLEAN]
    <3>1. 0..MaxRows \subseteq Nat
      BY RecorderAssumption
    <3>2. Written \subseteq Manifests
      BY <3>1 DEF Written, Manifests
    <3>3. QED
      BY <3>1, <3>2 DEF Folders
  <2>2. QED
    BY <2>1 DEF RecTypeOK, Places, Recorders
<1>2. upload \in [Episodes -> [status: {"none", "archived", "uploading", "backoff", "retrying",
                                        "uploaded"}, index: 0..NumEpisodes]]
  <2>1. ASSUME NEW e \in Episodes PROVE upload[e].index \in 0..NumEpisodes
    <3>1. upload[e].index \in Nat /\ NumEpisodes \in Nat
      BY RecorderAssumption DEF Places, Uploads
    <3>2. CASE upload[e].index = 0
      BY <3>1, <3>2
    <3>3. CASE upload[e].index # 0
      <4>1. upload[e].index \in DOMAIN hub.registry
        BY <3>3 DEF Counted, UploadsAreTrue, Registered
      <4>2. upload[e].index \in 1 .. Len(hub.registry) /\ Len(hub.registry) \in Nat
        BY <4>1, HeadFields, RegistryFields
      <4>3. QED
        BY <3>1, <4>2, RegistryBound
    <3>4. QED
      BY <3>2, <3>3
  <2>2. QED
    BY <2>1 DEF Places, Uploads
<1>3. /\ hub.archive \in [Episodes -> Data \cup {NoData}]
      /\ hub.catalog \in [Episodes -> Data \cup {NoData}]
      /\ hub.registry \in Seq([episode: Episodes, data: Data, hash: Hashes])
  BY HeadFields DEF Entries
<1>4. /\ receipt \in [Episodes -> [status: {"none", "uploaded", "arm_check"}, samples: Nat]]
      /\ pub.pc \in {"idle", "scan", "read", "orphan", "rewriting", "marked", "sent", "verify"}
      /\ pub.todo \subseteq Episodes /\ pub.ep \in Episodes \cup {0}
      /\ view.pc \in {"idle", "rendered", "sent", "committed"}
  BY DEF Places, Receipts, Passes, Views
<1>5. QED
  BY <1>1, <1>2, <1>3, <1>4, AwaitedCount DEF TypeOK

\* The types of the recorder and the publishers; no index is past the number of
\* episodes, and a publisher awaits an answer exactly when it has sent something.
THEOREM TypeTheorem == Spec => []TypeOK
<1>1. Init => Counted
  BY InitCounted
<1>2. ArchiveInv /\ Counted /\ [Next]_vars => Counted'
  <2>1. ASSUME Counted, UNCHANGED vars PROVE Counted'
    BY <2>1 DEF vars, Counted
  <2>2. QED
    BY <2>1, NextCounted
<1>3. ArchiveInv /\ Counted => TypeOK
  BY TypeFromInvariant
<1>4. QED
  BY <1>1, <1>2, <1>3, ArchiveInvariant, PTL DEF Spec
=============================================================================
