---------------------- MODULE KnowledgeIngestion_proofs ----------------------
(***************************************************************************)
(* Theorems about KnowledgeIngestion, for every set of files, documents,   *)
(* calls and faults.                                                       *)
(***************************************************************************)
EXTENDS KnowledgeIngestion, TLAPS

-----------------------------------------------------------------------------
(* Typing *)

\* The document of a usable file, and what is left to send of it.
LEMMA DocType ==
  ASSUME NEW f \in File, Usable(f)
  PROVE  DocOf(f) \in Doc /\ Batches[DocOf(f)] \in Nat \ {0}
  <1>1. Docs[f] \in Seq(Doc) /\ Docs[f] # <<>>
    BY IngestionAssumption DEF Usable
  <1>2. DocOf(f) \in Doc
    BY <1>1 DEF DocOf
  <1>. QED  BY <1>2, IngestionAssumption

\* How far a call is with its file: the batches it has sent are stored, and it
\* leaves the loop after the last one.
SendingAt(c) ==
  /\ pc[c] \in {"idle", "open", "dedup", "prepare"} => sent[c] = 0
  /\ pc[c] = "upsert" => sent[c] < Batches[CurrentDoc(c)]
  /\ pc[c] = "stored" => sent[c] = Batches[CurrentDoc(c)]
  /\ pc[c] \in {"upsert", "stored"} =>
       \A i \in 1 .. sent[c] : points[<<CurrentDoc(c), i>>] > 0

Sending == \A c \in Call : SendingAt(c)

\* Report and MoveTo keep the types.
LEMMA ReportType ==
  ASSUME TypeOK, NEW c \in Call, NEW f \in File, NEW s \in Status, Report(c, f, s)
  PROVE  /\ pc' \in [Call -> {"idle"} \cup Active \cup Ended]
         /\ todo' \in [Call -> SUBSET File]
         /\ file' \in [Call -> File \cup {NoFile}]
         /\ dup' \in [Call -> BOOLEAN]
         /\ sent' \in [Call -> Nat]
         /\ results' \in [Call -> [File -> Status]]
         /\ \A o \in Call : pc'[o] \in AtFile => file'[o] \in todo'[o] /\ Usable(file'[o])
  BY DEF TypeOK, Report, Goto, Active, AtFile

\* A move changes at most the directory of its file.
LEMMA MoveType ==
  ASSUME TypeOK, NEW f \in File, NEW d \in Place, MoveTo(f, d)
  PROVE  /\ place' \in [File -> Place]
         /\ \A g \in File : place'[g] = place[g] \/ (g = f /\ place'[g] = d)
  BY DEF TypeOK, MoveTo

\* What a call is at is one of its files, and a batch of it exists.
LEMMA AtFileType ==
  ASSUME TypeOK, NEW c \in Call, pc[c] \in AtFile
  PROVE  /\ file[c] \in File /\ file[c] \in todo[c] /\ Usable(file[c])
         /\ CurrentDoc(c) \in Doc /\ Batches[CurrentDoc(c)] \in Nat \ {0}
  <1>1. file[c] \in todo[c] /\ Usable(file[c]) /\ todo[c] \subseteq File
    BY DEF TypeOK
  <1>. QED  BY <1>1, DocType DEF CurrentDoc

\* Storing one more batch of a call's document.
LEMMA StoreType ==
  ASSUME TypeOK, Sending, NEW c \in Call, pc[c] = "upsert", StoreBatch(c)
  PROVE  /\ NextBatch(c) \in Batch
         /\ points' \in [Batch -> Nat]
         /\ points'[NextBatch(c)] = points[NextBatch(c)] + 1
         /\ \A b \in Batch : b # NextBatch(c) => points'[b] = points[b]
         /\ \A b \in Batch : points'[b] >= points[b]
  <1>1. CurrentDoc(c) \in Doc /\ Batches[CurrentDoc(c)] \in Nat \ {0}
    BY AtFileType DEF AtFile
  <1>2. sent[c] + 1 \in 1 .. Batches[CurrentDoc(c)]
    BY <1>1 DEF TypeOK, Sending, SendingAt
  <1>3. NextBatch(c) \in Batch
    BY <1>1, <1>2 DEF NextBatch, Batch
  <1>. QED  BY <1>3 DEF StoreBatch, TypeOK

\* Typing is inductive: one step per action.
LEMMA TypeOKStep == TypeOK /\ Sending /\ [Next]_vars => TypeOK'
  <1> SUFFICES ASSUME TypeOK, Sending, [Next]_vars PROVE TypeOK'
    OBVIOUS
  <1> USE DEF Goto, progress, Active, AtFile, Ended, Status, Place
  <1>1. ASSUME NEW c \in Call, NEW f \in File, RequestFile(c, f) PROVE TypeOK'
    BY <1>1 DEF RequestFile, Begin, MayStart, TypeOK
  <1>2. ASSUME NEW c \in Call, RequestDirectory(c) PROVE TypeOK'
    BY <1>2 DEF RequestDirectory, Begin, MayStart, TypeOK
  <1>3. ASSUME NEW c \in Call, NEW f \in File, SkipUnsupported(c, f) PROVE TypeOK'
    BY <1>3, ReportType DEF SkipUnsupported, TypeOK
  <1>4. ASSUME NEW c \in Call, NEW f \in File, LoadFails(c, f) PROVE TypeOK'
    BY <1>4, ReportType, MoveType DEF LoadFails, TypeOK
  <1>5. ASSUME NEW c \in Call, NEW f \in File, Load(c, f) PROVE TypeOK'
    BY <1>5 DEF Load, TypeOK
  <1>6. ASSUME NEW c \in Call, Finish(c) PROVE TypeOK'
    BY <1>6 DEF Finish, TypeOK
  <1>7. ASSUME NEW c \in Call, CheckDuplicate(c) PROVE TypeOK'
    <2>1. PICK answer \in {Present(CurrentDoc(c))} \cup (IF "dedup" \in Faults THEN {FALSE} ELSE {}) :
            dup' = [dup EXCEPT ![c] = answer]
      BY <1>7 DEF CheckDuplicate
    <2>2. answer \in BOOLEAN
      BY <2>1 DEF Present
    <2>3. dup' \in [Call -> BOOLEAN]
      BY <2>1, <2>2 DEF TypeOK
    <2>. QED  BY <1>7, <2>3 DEF CheckDuplicate, TypeOK
  <1>8. ASSUME NEW c \in Call, SkipDuplicate(c) PROVE TypeOK'
    <2>1. file[c] \in File
      BY <1>8, AtFileType DEF SkipDuplicate
    <2>. QED  BY <1>8, <2>1, ReportType DEF SkipDuplicate, TypeOK
  <1>9. ASSUME NEW c \in Call, Embed(c) PROVE TypeOK'
    BY <1>9 DEF Embed, TypeOK
  <1>10. ASSUME NEW c \in Call, ModelFails(c) PROVE TypeOK'
    BY <1>10 DEF ModelFails, TypeOK
  <1>11. ASSUME NEW c \in Call, EmbedFails(c) PROVE TypeOK'
    <2>1. file[c] \in File
      BY <1>11, AtFileType DEF EmbedFails
    <2>. QED  BY <1>11, <2>1, ReportType, MoveType DEF EmbedFails, TypeOK
  <1>12. ASSUME NEW c \in Call, UpsertBatch(c) PROVE TypeOK'
    BY <1>12, StoreType DEF UpsertBatch, TypeOK
  <1>13. ASSUME NEW c \in Call, UpsertFails(c) PROVE TypeOK'
    BY <1>13, StoreType DEF UpsertFails, TypeOK
  <1>14. ASSUME NEW c \in Call, Indexed(c) PROVE TypeOK'
    <2>1. file[c] \in File
      BY <1>14, AtFileType DEF Indexed
    <2>. QED  BY <1>14, <2>1, ReportType, MoveType DEF Indexed, TypeOK
  <1>15. ASSUME NEW c \in Call, Refused(c) PROVE TypeOK'
    <2>1. file[c] \in File
      BY <1>15, AtFileType DEF Refused
    <2>. QED  BY <1>15, <2>1, ReportType, MoveType DEF Refused, TypeOK
  <1>16. CASE Crash
    BY <1>16 DEF Crash, TypeOK
  <1>17. ASSUME NEW f \in File, Restore(f) PROVE TypeOK'
    BY <1>17 DEF Restore, TypeOK
  <1>18. CASE UNCHANGED vars
    BY <1>18 DEF vars, TypeOK
  <1>. QED
    BY <1>1, <1>2, <1>3, <1>4, <1>5, <1>6, <1>7, <1>8, <1>9, <1>10, <1>11, <1>12,
       <1>13, <1>14, <1>15, <1>16, <1>17, <1>18 DEF Next, Step

-----------------------------------------------------------------------------
(* What the calls have sent *)

\* No step of the program removes a point.
LEMMA PointsGrow ==
  ASSUME TypeOK, Sending, [Next]_vars, NEW b \in Batch
  PROVE  points'[b] >= points[b]
  <1>1. points[b] \in Nat
    BY DEF TypeOK
  <1>2. ASSUME NEW c \in Call, UpsertBatch(c) PROVE points'[b] >= points[b]
    BY <1>2, StoreType DEF UpsertBatch
  <1>3. ASSUME NEW c \in Call, UpsertFails(c) PROVE points'[b] >= points[b]
    BY <1>1, <1>3, StoreType DEF UpsertFails
  <1>4. (\E c \in Call : UpsertBatch(c) \/ UpsertFails(c)) \/ UNCHANGED points
    BY DEF Next, Step, RequestFile, RequestDirectory, Begin, SkipUnsupported, LoadFails,
           Load, Finish, CheckDuplicate, SkipDuplicate, Embed, ModelFails, EmbedFails,
           Indexed, Refused, Crash, Restore, vars
  <1>. QED  BY <1>1, <1>2, <1>3, <1>4

\* A call that does not move has sent what it had sent.
LEMMA SendingKept ==
  ASSUME TypeOK, Sending, [Next]_vars, NEW c \in Call,
         pc'[c] = pc[c], file'[c] = file[c], sent'[c] = sent[c]
  PROVE  SendingAt(c)'
  <1>1. SendingAt(c)
    BY DEF Sending
  <1>2. CurrentDoc(c)' = CurrentDoc(c)
    BY DEF CurrentDoc
  <1>3. ASSUME pc[c] \in {"upsert", "stored"}, NEW i \in 1 .. sent[c]
        PROVE  points'[<<CurrentDoc(c), i>>] > 0
    <2>1. CurrentDoc(c) \in Doc /\ Batches[CurrentDoc(c)] \in Nat \ {0}
      BY <1>3, AtFileType DEF AtFile
    <2>2. sent[c] \in Nat /\ sent[c] <= Batches[CurrentDoc(c)]
      BY <1>1, <1>3, <2>1 DEF SendingAt, TypeOK
    <2>3. <<CurrentDoc(c), i>> \in Batch
      BY <2>1, <2>2 DEF Batch
    <2>4. points[<<CurrentDoc(c), i>>] > 0
      BY <1>1, <1>3 DEF SendingAt
    <2>5. points' \in [Batch -> Nat]
      BY TypeOKStep DEF TypeOK
    <2>6. points[<<CurrentDoc(c), i>>] \in Nat /\ points'[<<CurrentDoc(c), i>>] \in Nat
      BY <2>3, <2>5 DEF TypeOK
    <2>. QED  BY <2>3, <2>4, <2>6, PointsGrow
  <1>. QED  BY <1>1, <1>2, <1>3 DEF SendingAt

\* One step per action, for the call that moves.
LEMMA SendingStep == TypeOK /\ Sending /\ [Next]_vars => Sending'
  <1> SUFFICES ASSUME TypeOK, Sending, [Next]_vars, NEW o \in Call PROVE SendingAt(o)'
    BY DEF Sending
  <1>0. SendingAt(o)
    BY DEF Sending
  <1>1. CASE pc'[o] = pc[o] /\ file'[o] = file[o] /\ sent'[o] = sent[o]
    BY <1>1, SendingKept
  <1>2. CASE \E f \in File : RequestFile(o, f)
    BY <1>0, <1>2 DEF RequestFile, Begin, MayStart, Goto, SendingAt, TypeOK
  <1>3. CASE RequestDirectory(o)
    BY <1>0, <1>3 DEF RequestDirectory, Begin, MayStart, Goto, SendingAt, TypeOK
  <1>4. CASE \E f \in File, s \in Status : Report(o, f, s)
    BY <1>4 DEF Report, Goto, SendingAt, TypeOK
  <1>5. CASE \E f \in File : Load(o, f)
    BY <1>0, <1>5 DEF Load, Goto, SendingAt, TypeOK
  <1>6. CASE Finish(o) \/ ModelFails(o) \/ UpsertFails(o)
    BY <1>6 DEF Finish, ModelFails, UpsertFails, progress, Goto, SendingAt, TypeOK
  <1>7. CASE CheckDuplicate(o)
    BY <1>0, <1>7 DEF CheckDuplicate, Goto, SendingAt, TypeOK
  <1>8. CASE Embed(o)
    <2>1. Batches[CurrentDoc(o)] \in Nat \ {0}
      BY <1>8, AtFileType DEF Embed, AtFile
    <2>2. CurrentDoc(o)' = CurrentDoc(o)
      BY <1>8 DEF Embed, progress, CurrentDoc
    <2>3. pc'[o] = "upsert" /\ sent'[o] = 0
      BY <1>0, <1>8 DEF Embed, progress, Goto, SendingAt, TypeOK
    <2>. QED  BY <2>1, <2>2, <2>3 DEF SendingAt
  <1>9. CASE UpsertBatch(o)
    <2>1. /\ CurrentDoc(o) \in Doc /\ Batches[CurrentDoc(o)] \in Nat \ {0}
          /\ sent[o] \in Nat /\ sent[o] < Batches[CurrentDoc(o)]
      BY <1>0, <1>9, AtFileType DEF UpsertBatch, AtFile, SendingAt, TypeOK
    <2>2. CurrentDoc(o)' = CurrentDoc(o)
      BY <1>9 DEF UpsertBatch, CurrentDoc
    <2>3. /\ sent'[o] = sent[o] + 1
          /\ pc'[o] = IF sent[o] + 1 = Batches[CurrentDoc(o)] THEN "stored" ELSE "upsert"
      BY <1>9 DEF UpsertBatch, Goto, TypeOK
    <2>4. ASSUME NEW i \in 1 .. sent[o] + 1 PROVE points'[<<CurrentDoc(o), i>>] > 0
      <3>1. <<CurrentDoc(o), i>> \in Batch
        BY <2>1 DEF Batch
      <3>2. points[<<CurrentDoc(o), i>>] \in Nat
        BY <3>1 DEF TypeOK
      <3>3. i \in 1 .. sent[o] => points[<<CurrentDoc(o), i>>] > 0
        BY <1>0, <1>9 DEF UpsertBatch, SendingAt
      <3>4. CASE i = sent[o] + 1
        BY <1>9, <3>2, <3>4, StoreType DEF UpsertBatch, NextBatch
      <3>5. CASE i # sent[o] + 1
        <4>1. i \in 1 .. sent[o]
          BY <2>1, <3>5
        <4>2. points'[<<CurrentDoc(o), i>>] >= points[<<CurrentDoc(o), i>>]
          BY <3>1, PointsGrow
        <4>3. points'[<<CurrentDoc(o), i>>] \in Nat
          BY <3>1, TypeOKStep DEF TypeOK
        <4>. QED  BY <3>2, <3>3, <4>1, <4>2, <4>3
      <3>. QED  BY <3>4, <3>5
    <2>. QED  BY <2>1, <2>2, <2>3, <2>4 DEF SendingAt
  <1>10. CASE Crash
    BY <1>1, <1>10 DEF Crash, SendingAt, TypeOK
  <1>11. CASE UNCHANGED <<pc, file, sent>>
    BY <1>1, <1>11
  <1>12. ASSUME NEW c \in Call, Step(c) \/ RequestDirectory(c) \/ \E f \in File : RequestFile(c, f),
                c # o
         PROVE  pc'[o] = pc[o] /\ file'[o] = file[o] /\ sent'[o] = sent[o]
    BY <1>12 DEF Step, RequestFile, RequestDirectory, Begin, SkipUnsupported, LoadFails,
           Load, Finish, CheckDuplicate, SkipDuplicate, Embed, ModelFails, EmbedFails,
           UpsertBatch, UpsertFails, Indexed, Refused, Report, Goto, progress, TypeOK
  <1>13. CASE Step(o)
    <2>1. SkipDuplicate(o) \/ EmbedFails(o) \/ Indexed(o) \/ Refused(o) =>
            \E f \in File, s \in Status : Report(o, f, s)
      BY AtFileType DEF SkipDuplicate, EmbedFails, Indexed, Refused, AtFile, Status
    <2>2. ASSUME NEW f \in File, SkipUnsupported(o, f) \/ LoadFails(o, f)
          PROVE  \E s \in Status : Report(o, f, s)
      BY <2>2 DEF SkipUnsupported, LoadFails, Status
    <2>. QED  BY <1>4, <1>5, <1>6, <1>7, <1>8, <1>9, <1>13, <2>1, <2>2 DEF Step
  <1>14. (\E f \in File : Restore(f)) \/ UNCHANGED vars => UNCHANGED <<pc, file, sent>>
    BY DEF Restore, vars, progress
  <1>. QED  BY <1>1, <1>2, <1>3, <1>10, <1>11, <1>12, <1>13, <1>14 DEF Next

\* Every variable of the ingestion keeps its type.
THEOREM TypeCorrect == Spec => []TypeOK
  <1>1. Init => TypeOK /\ Sending
    BY DEF Init, TypeOK, Place, Sending, SendingAt, Active, AtFile, Ended, Status
  <1>. QED  BY <1>1, TypeOKStep, SendingStep, PTL DEF Spec

-----------------------------------------------------------------------------
(* What is indexed is stored *)

\* A document that is complete stays complete.
LEMMA CompleteKept ==
  ASSUME TypeOK, Sending, [Next]_vars, NEW d \in Doc, Complete(d)
  PROVE  Complete(d)'
  <1> SUFFICES ASSUME NEW b \in BatchesOf(d) PROVE points'[b] > 0
    BY DEF Complete, BatchesOf
  <1>1. b \in Batch
    BY DEF BatchesOf, Batch
  <1>2. points[b] > 0
    BY DEF Complete
  <1>3. points[b] \in Nat /\ points'[b] \in Nat
    BY <1>1, TypeOKStep DEF TypeOK
  <1>. QED  BY <1>1, <1>2, <1>3, PointsGrow

\* A call that has left the upsert loop has stored its document.
LEMMA StoredComplete ==
  ASSUME TypeOK, Sending, NEW c \in Call, pc[c] = "stored"
  PROVE  Complete(CurrentDoc(c))
  BY DEF Sending, SendingAt, Complete, BatchesOf

\* IndexedIsStored, and that only usable files are indexed: the document of the
\* others means nothing.
Backed ==
  /\ \A c \in Call, f \in File :
       results[c][f] = "indexed" => Usable(f) /\ Complete(DocOf(f))
  /\ \A f \in File : place[f] = "processed" => Usable(f) /\ Complete(DocOf(f))

\* Only Indexed reports a file as indexed, and only Indexed moves it to processed/.
LEMMA OnlyIndexed ==
  ASSUME TypeOK, [Next]_vars, NEW f \in File
  PROVE  /\ place'[f] = "processed" =>
              place[f] = "processed" \/ \E o \in Call : Indexed(o) /\ f = file[o]
         /\ \A c \in Call : results'[c][f] = "indexed" =>
              results[c][f] = "indexed" \/ (Indexed(c) /\ f = file[c])
  <1>1. ASSUME NEW g \in File, MoveTo(g, "failed")
        PROVE  place'[f] = "processed" => place[f] = "processed"
    BY <1>1 DEF MoveTo, TypeOK
  <1>2. ASSUME NEW c \in Call, NEW g \in File, NEW s \in Status \ {"indexed"}, Report(c, g, s),
               NEW o \in Call
        PROVE  results'[o][f] = "indexed" => results[o][f] = "indexed"
    BY <1>2 DEF Report, TypeOK
  <1>3. ASSUME NEW c \in Call, Indexed(c)
        PROVE  /\ place'[f] = "processed" => place[f] = "processed" \/ f = file[c]
               /\ \A o \in Call : results'[o][f] = "indexed" =>
                    results[o][f] = "indexed" \/ (o = c /\ f = file[c])
    BY <1>3 DEF Indexed, MoveTo, Report, TypeOK
  <1>4. ASSUME NEW c \in Call, NEW g \in File, SkipUnsupported(c, g) \/ LoadFails(c, g) \/ Load(c, g)
        PROVE  /\ place'[f] = "processed" => place[f] = "processed"
               /\ \A o \in Call : results'[o][f] = "indexed" => results[o][f] = "indexed"
    BY <1>1, <1>2, <1>4 DEF SkipUnsupported, LoadFails, Load, Status
  <1>5. ASSUME NEW c \in Call, SkipDuplicate(c) \/ EmbedFails(c) \/ Refused(c)
        PROVE  /\ place'[f] = "processed" => place[f] = "processed"
               /\ \A o \in Call : results'[o][f] = "indexed" => results[o][f] = "indexed"
    <2>1. file[c] \in File
      BY <1>5, AtFileType DEF SkipDuplicate, EmbedFails, Refused, AtFile
    <2>. QED  BY <1>1, <1>2, <1>5, <2>1 DEF SkipDuplicate, EmbedFails, Refused, Status
  <1>6. ASSUME NEW g \in File, Restore(g)
        PROVE  /\ place'[f] = "processed" => place[f] = "processed"
               /\ \A o \in Call : results'[o][f] = "indexed" => results[o][f] = "indexed"
    BY <1>6 DEF Restore, progress, TypeOK
  <1>7. \/ \E c \in Call : \/ Indexed(c) \/ SkipDuplicate(c) \/ EmbedFails(c) \/ Refused(c)
                           \/ \E g \in File : \/ SkipUnsupported(c, g) \/ LoadFails(c, g)
                                              \/ Load(c, g)
        \/ \E g \in File : Restore(g)
        \/ UNCHANGED <<place, results>>
    BY DEF Next, Step, RequestFile, RequestDirectory, Begin, Finish, CheckDuplicate, Embed,
           ModelFails, UpsertBatch, UpsertFails, Crash, progress, vars
  <1>. QED  BY <1>3, <1>4, <1>5, <1>6, <1>7

\* A step keeps Backed: points only grow, and Indexed happens after the last batch.
LEMMA BackedStep == TypeOK /\ Sending /\ Backed /\ [Next]_vars => Backed'
  <1> SUFFICES ASSUME TypeOK, Sending, Backed, [Next]_vars PROVE Backed'
    OBVIOUS
  <1>1. ASSUME NEW f \in File, Usable(f), Complete(DocOf(f)) PROVE Usable(f)' /\ Complete(DocOf(f))'
    BY <1>1, DocType, CompleteKept DEF Usable, DocOf
  <1>2. ASSUME NEW c \in Call, Indexed(c) PROVE Usable(file[c]) /\ Complete(DocOf(file[c]))
    BY <1>2, AtFileType, StoredComplete DEF Indexed, AtFile, CurrentDoc
  <1>3. ASSUME NEW f \in File, place'[f] = "processed" PROVE Usable(f) /\ Complete(DocOf(f))
    BY <1>2, <1>3, OnlyIndexed DEF Backed
  <1>4. ASSUME NEW f \in File, NEW c \in Call, results'[c][f] = "indexed"
        PROVE  Usable(f) /\ Complete(DocOf(f))
    BY <1>2, <1>4, OnlyIndexed DEF Backed
  <1>. QED  BY <1>1, <1>3, <1>4 DEF Backed

\* A file reported as indexed, or moved to processed/, has every chunk of its
\* document in the collection, for any interleaving of calls and any failure.
THEOREM IndexedStored == Spec => []IndexedIsStored
  <1>1. Init => TypeOK /\ Sending /\ Backed
    BY DEF Init, TypeOK, Place, Sending, SendingAt, Active, AtFile, Ended, Status, Backed
  <1>2. Backed => IndexedIsStored
    BY DEF Backed, IndexedIsStored
  <1>. QED  BY <1>1, <1>2, TypeOKStep, SendingStep, BackedStep, PTL DEF Spec

-----------------------------------------------------------------------------
(* What is half indexed has a cause *)

\* A file that is still to do has no result yet.
Unreported ==
  \A c \in Call, f \in File : pc[c] = "idle" \/ f \in todo[c] => results[c][f] = "none"

\* A result once reported is never written over.
LEMMA UnreportedStep ==
  ASSUME TypeOK, Sending, Unreported, [Next]_vars
  PROVE  /\ Unreported'
         /\ \A c \in Call, f \in File : results[c][f] # "none" => results'[c][f] = results[c][f]
  <1> DEFINE Kept == \A c \in Call, f \in File :
                       results[c][f] # "none" => results'[c][f] = results[c][f]
  <1>1. ASSUME NEW c \in Call, NEW g \in todo[c], NEW s \in Status, Report(c, g, s), pc[c] # "idle"
        PROVE  Unreported' /\ Kept
    BY <1>1 DEF Report, Goto, Unreported, TypeOK
  <1>2. ASSUME NEW c \in Call, NEW g \in File, SkipUnsupported(c, g) \/ LoadFails(c, g)
        PROVE  Unreported' /\ Kept
    BY <1>1, <1>2 DEF SkipUnsupported, LoadFails, Status
  <1>3. ASSUME NEW c \in Call, SkipDuplicate(c) \/ EmbedFails(c) \/ Indexed(c) \/ Refused(c)
        PROVE  Unreported' /\ Kept
    <2>1. pc[c] # "idle" /\ file[c] \in todo[c]
      BY <1>3, AtFileType DEF SkipDuplicate, EmbedFails, Indexed, Refused, AtFile
    <2>. QED  BY <1>1, <1>3, <2>1 DEF SkipDuplicate, EmbedFails, Indexed, Refused, Status
  <1>4. ASSUME NEW c \in Call, NEW files \in SUBSET File, Begin(c, files)
        PROVE  Unreported' /\ Kept
    BY <1>4 DEF Begin, MayStart, Goto, Unreported, TypeOK
  <1>5. ASSUME NEW c \in Call, \/ RequestDirectory(c)
                              \/ \E f \in File : RequestFile(c, f)
        PROVE  Unreported' /\ Kept
    <2>1. RequestDirectory(c) => \E files \in SUBSET File : Begin(c, files)
      BY DEF RequestDirectory
    <2>2. ASSUME NEW f \in File, RequestFile(c, f) PROVE \E files \in SUBSET File : Begin(c, files)
      BY <2>2 DEF RequestFile
    <2>. QED  BY <1>4, <1>5, <2>1, <2>2
  <1>6. CASE Crash
    BY <1>6 DEF Crash, Active, Unreported, TypeOK
  <1>7. ASSUME UNCHANGED <<todo, results>>, \A c \in Call : pc'[c] = "idle" => pc[c] = "idle"
        PROVE  Unreported' /\ Kept
    BY <1>7 DEF Unreported, TypeOK
  <1>8. ASSUME NEW c \in Call,
               \/ Finish(c) \/ CheckDuplicate(c) \/ Embed(c) \/ ModelFails(c)
               \/ UpsertBatch(c) \/ UpsertFails(c) \/ \E f \in File : Load(c, f)
        PROVE  Unreported' /\ Kept
    BY <1>7, <1>8 DEF Finish, CheckDuplicate, Embed, ModelFails, UpsertBatch, UpsertFails, Load,
                      Goto, progress, TypeOK
  <1>9. CASE (\E f \in File : Restore(f)) \/ UNCHANGED vars
    BY <1>7, <1>9 DEF Restore, vars, progress
  <1>. QED
    BY <1>2, <1>3, <1>5, <1>6, <1>8, <1>9 DEF Next, Step

\* A call that may have left a document half indexed, and a report that says so.
AtHalf(c, d) == pc[c] \in {"upsert", "refused", "dead"} /\ file[c] # NoFile /\ CurrentDoc(c) = d
SaysFailed(c, d) == \E f \in File : results[c][f] = "failed" /\ Usable(f) /\ DocOf(f) = d

\* A call that has stored a batch is still at its document, unless that was the
\* last one.
LEMMA UpsertIsCause ==
  ASSUME TypeOK, Sending, [Next]_vars, NEW c \in Call, UpsertBatch(c) \/ UpsertFails(c),
         ~Complete(CurrentDoc(c))'
  PROVE  AtHalf(c, CurrentDoc(c))'
  <1>1. file[c] \in File
    BY AtFileType DEF UpsertBatch, UpsertFails, AtFile
  <1>2. file' = file
    BY DEF UpsertBatch, UpsertFails, progress
  <1>3. pc'[c] \in {"upsert", "stored", "refused"}
    BY DEF UpsertBatch, UpsertFails, Goto, TypeOK
  <1>4. pc'[c] # "stored"
    <2>1. TypeOK' /\ Sending'
      BY TypeOKStep, SendingStep
    <2>2. (pc[c] = "stored" => Complete(CurrentDoc(c)))'
      BY <2>1 DEF Sending, SendingAt, Complete, BatchesOf
    <2>. QED  BY <2>2
  <1>. QED  BY <1>1, <1>2, <1>3, <1>4, IngestionAssumption DEF AtHalf

\* A cause lasts until the document is complete.
LEMMA CauseKept ==
  ASSUME TypeOK, Sending, Unreported, [Next]_vars, NEW d \in Doc, ~Complete(d)',
         NEW c \in Call, AtHalf(c, d) \/ SaysFailed(c, d)
  PROVE  AtHalf(c, d)' \/ SaysFailed(c, d)'
  <1>1. CASE SaysFailed(c, d)
    BY <1>1, UnreportedStep DEF SaysFailed, Usable, DocOf
  <1>2. CASE AtHalf(c, d)
    <2>1. CASE UpsertBatch(c) \/ UpsertFails(c)
      <3>1. CurrentDoc(c)' = d
        BY <1>2, <2>1 DEF AtHalf, CurrentDoc, UpsertBatch, UpsertFails, progress
      <3>. QED  BY <2>1, <3>1, UpsertIsCause DEF AtHalf
    <2>2. CASE Refused(c)
      <3>1. file[c] \in File /\ Usable(file[c])
        BY <2>2, AtFileType DEF Refused, AtFile
      <3>2. results'[c][file[c]] = "failed"
        BY <2>2, <3>1 DEF Refused, Report, TypeOK
      <3>. QED  BY <1>2, <3>1, <3>2 DEF AtHalf, SaysFailed, CurrentDoc, Usable, DocOf
    <2>3. CASE Crash
      BY <1>2, <2>3 DEF Crash, AtHalf, CurrentDoc, TypeOK, Active, AtFile
    <2>4. CASE pc'[c] = pc[c] /\ file'[c] = file[c]
      BY <1>2, <2>4 DEF AtHalf, CurrentDoc
    <2>5. ASSUME NEW o \in Call, Step(o) \/ RequestDirectory(o) \/ \E f \in File : RequestFile(o, f),
                 ~(o = c /\ (UpsertBatch(c) \/ UpsertFails(c) \/ Refused(c)))
          PROVE  pc'[c] = pc[c] /\ file'[c] = file[c]
      BY <1>2, <2>5 DEF AtHalf, Step, RequestFile, RequestDirectory, Begin, MayStart,
             SkipUnsupported, LoadFails, Load, Finish, CheckDuplicate, SkipDuplicate, Embed,
             ModelFails, EmbedFails, UpsertBatch, UpsertFails, Indexed, Refused, Report, Goto,
             progress, TypeOK
    <2>6. (\E f \in File : Restore(f)) \/ UNCHANGED vars => pc'[c] = pc[c] /\ file'[c] = file[c]
      BY DEF Restore, vars, progress
    <2>. QED  BY <2>1, <2>2, <2>3, <2>4, <2>5, <2>6 DEF Next
  <1>. QED  BY <1>1, <1>2

\* A step that stores the first batch of a document is an upsert of it.
LEMMA FirstBatch ==
  ASSUME TypeOK, Sending, [Next]_vars, NEW d \in Doc, ~Present(d), Present(d)'
  PROVE  \E c \in Call : (UpsertBatch(c) \/ UpsertFails(c)) /\ CurrentDoc(c) = d
                         /\ CurrentDoc(c)' = d
  <1>1. PICK b \in BatchesOf(d) : points'[b] > 0
    BY DEF Present, BatchesOf
  <1>2. b \in Batch /\ b[1] = d /\ ~(points[b] > 0)
    BY <1>1 DEF Present, BatchesOf, Batch
  <1>3. PICK c \in Call : UpsertBatch(c) \/ UpsertFails(c)
    BY <1>1, <1>2 DEF Next, Step, RequestFile, RequestDirectory, Begin, SkipUnsupported,
           LoadFails, Load, Finish, CheckDuplicate, SkipDuplicate, Embed, ModelFails,
           EmbedFails, Indexed, Refused, Crash, Restore, vars
  <1>4. StoreBatch(c)
    BY <1>1, <1>2, <1>3 DEF UpsertBatch, UpsertFails
  <1>5. b = NextBatch(c)
    BY <1>1, <1>2, <1>3, <1>4, StoreType DEF UpsertBatch, UpsertFails
  <1>. QED  BY <1>2, <1>3, <1>5 DEF NextBatch, UpsertBatch, UpsertFails, progress, CurrentDoc

\* A step keeps HalfIndexedHasCause.
LEMMA HalfIndexedStep ==
  TypeOK /\ Sending /\ Unreported /\ HalfIndexedHasCause /\ [Next]_vars => HalfIndexedHasCause'
  <1> SUFFICES ASSUME TypeOK, Sending, Unreported, HalfIndexedHasCause, [Next]_vars,
                      NEW d \in Doc, Present(d)', ~Complete(d)'
               PROVE  \E c \in Call : AtHalf(c, d)' \/ SaysFailed(c, d)'
    BY DEF HalfIndexedHasCause, AtHalf, SaysFailed
  <1>1. CASE Present(d)
    <2>1. ~Complete(d)
      BY CompleteKept
    <2>2. PICK c \in Call : AtHalf(c, d) \/ SaysFailed(c, d)
      BY <1>1, <2>1 DEF HalfIndexedHasCause, AtHalf, SaysFailed
    <2>. QED  BY <2>2, CauseKept
  <1>2. CASE ~Present(d)
    <2>1. PICK c \in Call : /\ UpsertBatch(c) \/ UpsertFails(c)
                            /\ CurrentDoc(c) = d /\ CurrentDoc(c)' = d
      BY <1>2, FirstBatch
    <2>2. AtHalf(c, CurrentDoc(c))'
      BY <2>1, UpsertIsCause
    <2>. QED  BY <2>1, <2>2 DEF AtHalf
  <1>. QED  BY <1>1, <1>2

\* A document of which only a part is in the collection is being upserted, was
\* reported as failed, or its call died: no ingest that is reported as indexed,
\* skipped or in error leaves one behind.
THEOREM HalfIndexedCaused == Spec => []HalfIndexedHasCause
  <1>1. Init => TypeOK /\ Sending /\ Unreported /\ HalfIndexedHasCause
    BY DEF Init, TypeOK, Place, Sending, SendingAt, Active, AtFile, Ended, Status, Unreported,
           HalfIndexedHasCause, Present, BatchesOf, Batch
  <1>. QED  BY <1>1, TypeOKStep, SendingStep, UnreportedStep, HalfIndexedStep, PTL DEF Spec

-----------------------------------------------------------------------------
(* One call at a time *)

\* The assumption of this part: one call at a time, and a duplicate check that
\* answers.
Serial == SerialCalls /\ "dedup" \notin Faults

AtMostOneActive == \A c, o \in Call : pc[c] \in Active /\ pc[o] \in Active => c = o

\* What the running call has yet to send of its document is not stored.
Fresh ==
  \A c \in Call :
    /\ pc[c] = "prepare" /\ ~dup[c] => \A b \in BatchesOf(CurrentDoc(c)) : points[b] = 0
    /\ pc[c] = "upsert" =>
         \A i \in sent[c] + 1 .. Batches[CurrentDoc(c)] : points[<<CurrentDoc(c), i>>] = 0

\* NoDuplicateChunks says nothing of the time between the check and the upsert.
SInv == AtMostOneActive /\ Fresh /\ NoDuplicateChunks

\* A call begins only when no other is running.
LEMMA AtMostOneActiveStep ==
  ASSUME Serial, TypeOK, AtMostOneActive, [Next]_vars
  PROVE  AtMostOneActive'
  <1>1. ASSUME NEW c \in Call, RequestDirectory(c) \/ \E f \in File : RequestFile(c, f)
        PROVE  AtMostOneActive'
    BY <1>1 DEF RequestDirectory, RequestFile, Begin, MayStart, Goto, Serial, AtMostOneActive,
                TypeOK
  <1>2. ASSUME NEW c \in Call, Step(c)
        PROVE  pc[c] \in Active /\ \A o \in Call : o # c => pc'[o] = pc[o]
    BY <1>2 DEF Step, SkipUnsupported, LoadFails, Load, Finish, CheckDuplicate, SkipDuplicate,
                Embed, ModelFails, EmbedFails, UpsertBatch, UpsertFails, Indexed, Refused,
                Report, Goto, Active, AtFile, TypeOK
  <1>3. CASE Crash
    BY <1>3 DEF Crash, Active, AtFile, AtMostOneActive, TypeOK
  <1>4. CASE (\E f \in File : Restore(f)) \/ UNCHANGED vars
    BY <1>4 DEF Restore, vars, progress, AtMostOneActive
  <1>. QED  BY <1>1, <1>2, <1>3, <1>4 DEF Next, AtMostOneActive

\* The running call is the only one that stores, and it stores what was missing.
LEMMA FreshStep ==
  ASSUME Serial, TypeOK, Sending, SInv, [Next]_vars
  PROVE  Fresh' /\ NoDuplicateChunks'
  <1>1. ASSUME UNCHANGED points,
               \A c \in Call : pc'[c] \in {"prepare", "upsert"} =>
                 pc'[c] = pc[c] /\ UNCHANGED <<file[c], dup[c], sent[c]>>
        PROVE  Fresh' /\ NoDuplicateChunks'
    BY <1>1 DEF SInv, Fresh, NoDuplicateChunks, CurrentDoc
  <1>2. ASSUME NEW c \in Call, CheckDuplicate(c) PROVE Fresh' /\ NoDuplicateChunks'
    <2>1. dup'[c] = Present(CurrentDoc(c)) /\ pc'[c] = "prepare"
      BY <1>2 DEF CheckDuplicate, Serial, Goto, TypeOK
    <2>2. ~dup'[c] => \A b \in BatchesOf(CurrentDoc(c)) : points[b] = 0
      <3>1. CurrentDoc(c) \in Doc
        BY <1>2, AtFileType DEF CheckDuplicate, AtFile
      <3>2. \A b \in BatchesOf(CurrentDoc(c)) : points[b] \in Nat
        BY <3>1 DEF BatchesOf, Batch, TypeOK
      <3>. QED  BY <2>1, <3>2 DEF Present
    <2>3. \A o \in Call : o # c => pc'[o] = pc[o] /\ dup'[o] = dup[o]
      BY <1>2 DEF CheckDuplicate, Goto, TypeOK
    <2>4. UNCHANGED <<points, file, sent>>
      BY <1>2 DEF CheckDuplicate
    <2>. QED  BY <2>1, <2>2, <2>3, <2>4 DEF SInv, Fresh, NoDuplicateChunks, CurrentDoc
  <1>3. ASSUME NEW c \in Call, Embed(c) PROVE Fresh' /\ NoDuplicateChunks'
    <2>1. sent[c] = 0 /\ \A b \in BatchesOf(CurrentDoc(c)) : points[b] = 0
      BY <1>3 DEF Embed, Sending, SendingAt, SInv, Fresh
    <2>2. pc'[c] = "upsert" /\ \A o \in Call : o # c => pc'[o] = pc[o]
      BY <1>3 DEF Embed, Goto, TypeOK
    <2>3. \A i \in sent[c] + 1 .. Batches[CurrentDoc(c)] : points[<<CurrentDoc(c), i>>] = 0
      BY <2>1 DEF BatchesOf
    <2>4. UNCHANGED <<points, file, sent, dup>>
      BY <1>3 DEF Embed, progress
    <2>. QED  BY <2>2, <2>3, <2>4 DEF SInv, Fresh, NoDuplicateChunks, CurrentDoc
  <1>4. ASSUME NEW c \in Call, pc[c] = "upsert", StoreBatch(c), file' = file, dup' = dup,
               pc'[c] = "upsert" => sent'[c] = sent[c] + 1,
               pc'[c] # "prepare",
               \A o \in Call : o # c => pc'[o] = pc[o]
        PROVE  Fresh' /\ NoDuplicateChunks'
    <2>1. \A o \in Call : o # c => pc'[o] \notin {"prepare", "upsert"}
      BY <1>4 DEF SInv, AtMostOneActive, Active, AtFile
    <2>2. /\ CurrentDoc(c) \in Doc /\ sent[c] \in Nat
          /\ Batches[CurrentDoc(c)] \in Nat /\ sent[c] + 1 \in 1 .. Batches[CurrentDoc(c)]
      BY <1>4, AtFileType DEF AtFile, Sending, SendingAt, TypeOK
    <2>3. points[NextBatch(c)] = 0
      BY <1>4, <2>2 DEF SInv, Fresh, NextBatch
    <2>4. NoDuplicateChunks'
      <3> SUFFICES ASSUME NEW b \in Batch PROVE points'[b] <= 1
        BY DEF NoDuplicateChunks
      <3>1. points[b] <= 1
        BY DEF SInv, NoDuplicateChunks
      <3>. QED  BY <1>4, <2>3, <3>1, StoreType
    <2>5. ASSUME pc'[c] = "upsert", NEW i \in sent'[c] + 1 .. Batches[CurrentDoc(c)]
          PROVE  points'[<<CurrentDoc(c), i>>] = 0
      <3>1. sent'[c] = sent[c] + 1 /\ i # sent[c] + 1 /\ i \in sent[c] + 1 .. Batches[CurrentDoc(c)]
        BY <1>4, <2>2, <2>5
      <3>2. <<CurrentDoc(c), i>> \in Batch /\ <<CurrentDoc(c), i>> # NextBatch(c)
        BY <2>2, <3>1 DEF Batch, NextBatch
      <3>3. points[<<CurrentDoc(c), i>>] = 0
        BY <1>4, <3>1 DEF SInv, Fresh
      <3>. QED  BY <1>4, <3>2, <3>3, StoreType
    <2>6. CurrentDoc(c)' = CurrentDoc(c)
      BY <1>4 DEF CurrentDoc
    <2>. QED  BY <1>4, <2>1, <2>4, <2>5, <2>6 DEF Fresh
  <1>5. ASSUME NEW c \in Call, UpsertBatch(c) PROVE Fresh' /\ NoDuplicateChunks'
    BY <1>4, <1>5 DEF UpsertBatch, Goto, TypeOK
  <1>6. ASSUME NEW c \in Call, UpsertFails(c) PROVE Fresh' /\ NoDuplicateChunks'
    <2>1. pc'[c] = "refused" /\ \A o \in Call : o # c => pc'[o] = pc[o]
      BY <1>6 DEF UpsertFails, Goto, TypeOK
    <2>2. UNCHANGED <<file, dup, sent>>
      BY <1>6 DEF UpsertFails, progress
    <2>3. UNCHANGED points \/ StoreBatch(c)
      BY <1>6 DEF UpsertFails
    <2>. QED  BY <1>1, <1>4, <1>6, <2>1, <2>2, <2>3 DEF UpsertFails
  <1>7. ASSUME NEW c \in Call, NEW f \in File, NEW s \in Status, Report(c, f, s), UNCHANGED points
        PROVE  Fresh' /\ NoDuplicateChunks'
    BY <1>1, <1>7 DEF Report, Goto, TypeOK
  <1>8. ASSUME NEW c \in Call,
               \/ SkipDuplicate(c) \/ EmbedFails(c) \/ Indexed(c) \/ Refused(c)
               \/ \E f \in File : SkipUnsupported(c, f) \/ LoadFails(c, f)
        PROVE  Fresh' /\ NoDuplicateChunks'
    <2>1. SkipDuplicate(c) \/ EmbedFails(c) \/ Indexed(c) \/ Refused(c) =>
            \E f \in File, s \in Status : Report(c, f, s) /\ UNCHANGED points
      BY AtFileType DEF SkipDuplicate, EmbedFails, Indexed, Refused, AtFile, Status
    <2>2. ASSUME NEW f \in File, SkipUnsupported(c, f) \/ LoadFails(c, f)
          PROVE  \E s \in Status : Report(c, f, s) /\ UNCHANGED points
      BY <2>2 DEF SkipUnsupported, LoadFails, Status
    <2>. QED  BY <1>7, <1>8, <2>1, <2>2
  <1>9. ASSUME NEW c \in Call,
               \/ Finish(c) \/ ModelFails(c) \/ RequestDirectory(c)
               \/ \E f \in File : Load(c, f) \/ RequestFile(c, f)
        PROVE  Fresh' /\ NoDuplicateChunks'
    BY <1>1, <1>9 DEF Finish, ModelFails, RequestDirectory, RequestFile, Begin, Load, Goto,
                      progress, TypeOK
  <1>10. CASE Crash
    BY <1>1, <1>10 DEF Crash, Active, AtFile, TypeOK
  <1>11. CASE (\E f \in File : Restore(f)) \/ UNCHANGED vars
    BY <1>1, <1>11 DEF Restore, vars, progress
  <1>. QED  BY <1>2, <1>3, <1>5, <1>6, <1>8, <1>9, <1>10, <1>11 DEF Next, Step

\* Serial calls with a duplicate check that answers store no chunk twice, however
\* often the same content is ingested, fails half-way and is ingested again.
THEOREM SerialNoDuplicates == ASSUME Serial PROVE Spec => []NoDuplicateChunks
  <1>1. Init => TypeOK /\ Sending /\ SInv
    BY DEF Init, TypeOK, Place, Sending, SendingAt, Active, AtFile, Ended, Status, SInv,
           AtMostOneActive, Fresh, NoDuplicateChunks
  <1>2. TypeOK /\ Sending /\ SInv /\ [Next]_vars => TypeOK' /\ Sending' /\ SInv'
    BY TypeOKStep, SendingStep, AtMostOneActiveStep, FreshStep DEF SInv
  <1>3. SInv => NoDuplicateChunks
    BY DEF SInv
  <1>. QED  BY <1>1, <1>2, <1>3, PTL DEF Spec
=============================================================================
