-------------------------- MODULE GenerationProofs --------------------------
(***************************************************************************)
(* The generator's safety, for every set of entities, every set of schemas *)
(* and every bound.                                                        *)
(***************************************************************************)
EXTENDS Generation, WellFoundedInduction, TLAPS

Tracked == File \ EntFiles

(***************************************************************************)
(* What is true while a run is under way.                                  *)
(***************************************************************************)
PlanInv ==
    /\ pc = "ent" => written = {} /\ pending = {} /\ temp = {} /\ scan = {}
    /\ pc = "render" => written \subseteq Outputs(schema) /\ temp = {} /\ scan = {}
    /\ pc \in {"write", "cleanup"} => written = Outputs(schema)
    /\ pc = "cleanup" => pending = {}
    /\ pc # "idle" => outcome = "none"
    /\ \A f \in temp : IsNextWrite(f, pending)

DiskInv ==
    /\ pc \in {"ent", "render"} => \A f \in Tracked : disk[f] = before[f]
    /\ pc = "render" => pending = written
    /\ pc = "write" => \A f \in Tracked :
          disk[f] = IF f \in written \ pending THEN Fresh ELSE before[f]
    /\ pc = "cleanup" => \A f \in Tracked :
          IF f \in written THEN disk[f] = Fresh
          ELSE disk[f] = before[f] \/ (disk[f] = Absent /\ before[f].marker # "none")

\* The part of the directory the cleanup loop has passed holds nothing stale.
ScanInv ==
    pc = "cleanup" => \A f \in File :
        IsCleanupCandidate(f) /\ f \notin scan /\ f \notin written => ~Marked(f)

IInv ==
    /\ TypeOK /\ PlanInv /\ DiskInv /\ ScanInv
    /\ PhaseOneKeepsOutput /\ DeletesOnlyAfterAllWritten
    /\ SuccessConverges /\ EmbedHasDocument

-----------------------------------------------------------------------------
\* Ent's files, the extension's and the consumer's never share a name, and a
\* run writes extension files only, the embed exactly when the document.
LEMMA OutputsFacts ==
    ASSUME NEW s \in Schemas
    PROVE  /\ Outputs(s) \subseteq ExtFiles
           /\ Embed \in Outputs(s) <=> Document \in Outputs(s)
<1>. s \in Schema
  BY ConstantsAssumption
<1>1. Outputs(s) \subseteq ExtFiles
  BY DEF Outputs, ExtFiles, Schema, GraphKind, PerTypeKind
<1>2. Embed \in Outputs(s) <=> Document \in Outputs(s)
  BY DEF Outputs, Embed, Document, PerTypeKind
<1>. QED  BY <1>1, <1>2

LEMMA FileFacts ==
    /\ ExtFiles \subseteq File /\ ConsumerFiles \subseteq File
    /\ ExtFiles \cap EntFiles = {} /\ ConsumerFiles \cap EntFiles = {}
    /\ ExtFiles \cap ConsumerFiles = {}
    /\ Embed \in ExtFiles /\ Document \in ExtFiles /\ Embed # Document
    /\ IsCleanupCandidate(Embed) /\ IsCleanupCandidate(Document)
BY DEF File, ExtFiles, EntFiles, ConsumerFiles, Embed, Document, PerTypeKind,
       GraphKind, ConsumerKind, IsCleanupCandidate

\* Every component of the state keeps its type: an output set is always one of
\* extension files, whatever schema the consumer has.
THEOREM TypeCorrect == Spec => []TypeOK
<1>. USE ConstantsAssumption DEF TypeOK, Run, Marker, Content
<1>1. Init => TypeOK
  BY DEF Init, Absent, Outcome
<1>2. ASSUME TypeOK, [Next]_vars PROVE TypeOK'
  <2>. USE <1>2
  <2>1. CASE EditSchema
    BY <2>1 DEF EditSchema, runVars, Outcome
  <2>2. ASSUME NEW f \in File, NEW c \in Content, ConsumerWrites(f, c) PROVE TypeOK'
    BY <2>2 DEF ConsumerWrites, runVars, Outcome
  <2>3. ASSUME NEW f \in File, StripMarker(f) PROVE TypeOK'
    BY <2>2, <2>3 DEF StripMarker
  <2>4. ASSUME NEW f \in File, HandWrite(f) PROVE TypeOK'
    BY <2>2, <2>4 DEF HandWrite
  <2>5. ASSUME NEW f \in File, NEW g \in File, CopyGenerated(f, g) PROVE TypeOK'
    <3>1. [disk[f] EXCEPT !.by = "consumer"] \in Content
      OBVIOUS
    <3>. QED  BY <2>2, <2>5, <3>1 DEF CopyGenerated
  <2>6. CASE Consumer
    BY <2>1, <2>3, <2>4, <2>5, <2>6, FileFacts DEF Consumer
  <2>7. CASE StartRun
    BY <2>7 DEF StartRun, Outcome
  <2>8. \A f \in EntFiles : pc = "ent" => EntOutput(f) \in Content
    BY DEF EntOutput, Absent
  <2>9. CASE EntGenerate
    BY <2>8, <2>9 DEF EntGenerate
  <2>10. CASE EntFails
    BY <2>8, <2>10 DEF EntFails, EndRun, Outcome
  <2>11. Fresh \in Content
    BY DEF Fresh
  <2>12. CASE Render
    BY <2>12, OutputsFacts DEF Render
  <2>13. CASE RenderFails
    BY <2>13 DEF RenderFails, EndRun, Outcome
  <2>14. CASE RenderDone
    BY <2>14 DEF RenderDone
  <2>15. CASE CreateTemp
    BY <2>15 DEF CreateTemp
  <2>16. CASE Rename
    BY <2>11, <2>16, ZenonT(60) DEF Rename
  <2>17. CASE WriteFails
    BY <2>17 DEF WriteFails, EndRun, Outcome
  <2>18. CASE ReadDir
    BY <2>18 DEF ReadDir
  <2>19. CASE ReadDirFails
    BY <2>19 DEF ReadDirFails, EndRun, Outcome
  <2>20. CASE Visit
    BY <2>20 DEF Visit, Absent
  <2>21. CASE VisitFails
    BY <2>21 DEF VisitFails, EndRun, Outcome
  <2>22. CASE Finish
    BY <2>22 DEF Finish, EndRun, Outcome
  <2>23. CASE Kill
    BY <2>23 DEF Kill, Outcome
  <2>24. CASE UNCHANGED vars
    BY <2>24 DEF vars, runVars
  <2>. QED
    BY <2>6, <2>7, <2>9, <2>10, <2>12, <2>13, <2>14, <2>15, <2>16, <2>17, <2>18,
       <2>19, <2>20, <2>21, <2>22, <2>23, <2>24
       DEF Next, Generator, Failure
<1>. QED  BY <1>1, <1>2, PTL DEF Spec

(***************************************************************************)
(* The inductive step: the consumer, the ways a run ends, and each stage.  *)
(***************************************************************************)
LEMMA IInvInit == Init => IInv
<1>1. Init => TypeOK
  BY ConstantsAssumption
     DEF Init, TypeOK, Run, Marker, Content, Absent, Outcome
<1>2. Init => PlanInv /\ DiskInv /\ ScanInv
  BY DEF Init, PlanInv, DiskInv, ScanInv
<1>3. Init => PhaseOneKeepsOutput /\ DeletesOnlyAfterAllWritten /\ SuccessConverges
  BY DEF Init, PhaseOneKeepsOutput, DeletesOnlyAfterAllWritten, SuccessConverges
<1>4. Init => EmbedHasDocument
  BY FileFacts DEF Init, EmbedHasDocument, Marked, Absent, Embed
<1>. QED  BY <1>1, <1>2, <1>3, <1>4 DEF IInv

LEMMA ConsumerKeepsIInv ==
    ASSUME IInv, TypeOK', Consumer PROVE IInv'
<1>1. pc = "idle" /\ pc' = "idle" /\ outcome' = "none" /\ temp' = temp /\ temp = {}
  BY DEF IInv, TypeOK, Consumer, EditSchema, StripMarker, HandWrite, CopyGenerated,
         ConsumerWrites, runVars
<1>2. PlanInv' /\ DiskInv' /\ ScanInv'
  BY <1>1 DEF PlanInv, DiskInv, ScanInv
<1>3. PhaseOneKeepsOutput' /\ DeletesOnlyAfterAllWritten' /\ SuccessConverges'
  BY <1>1 DEF PhaseOneKeepsOutput, DeletesOnlyAfterAllWritten, SuccessConverges
<1>4. EmbedHasDocument'
  <2>. USE FileFacts DEF IInv, TypeOK, EmbedHasDocument, Marked, Present, Absent
  <2>1. CASE EditSchema
    BY <2>1 DEF EditSchema
  <2>2. ASSUME NEW f \in File, StripMarker(f) PROVE EmbedHasDocument'
    BY <2>2 DEF StripMarker, ConsumerWrites
  <2>3. ASSUME NEW f \in File, HandWrite(f) PROVE EmbedHasDocument'
    BY <2>3 DEF HandWrite, ConsumerWrites
  <2>4. ASSUME NEW f \in File, NEW g \in ConsumerFiles, CopyGenerated(f, g)
        PROVE  EmbedHasDocument'
    <3>1. disk'[Embed] = disk[Embed] /\ disk'[Document] = disk[Document]
      BY <2>4 DEF CopyGenerated, ConsumerWrites
    <3>. QED  BY <3>1
  <2>. QED  BY <2>1, <2>2, <2>3, <2>4 DEF Consumer
<1>. QED  BY <1>2, <1>3, <1>4 DEF IInv

\* A run that ends without touching a tracked file keeps the invariant, if the
\* way it ends is one its stage allows.
LEMMA EndKeepsIInv ==
    ASSUME IInv, TypeOK', pc # "idle",
           pc' = "idle", temp' = {},
           UNCHANGED <<schema, run, before>>,
           \A f \in Tracked : disk'[f] = disk[f],
           outcome' \in {"refused", "entfail", "renderfail"} => pc \in {"ent", "render"},
           outcome' = "writefail" => pc = "write",
           outcome' = "ok" => pc = "cleanup" /\ scan = {} /\ disk' = disk
    PROVE  IInv'
<1>1. PlanInv' /\ DiskInv' /\ ScanInv'
  BY DEF PlanInv, DiskInv, ScanInv
<1>2. PhaseOneKeepsOutput'
  BY DEF PhaseOneKeepsOutput, IInv, DiskInv, Tracked
<1>3. Outputs(schema) \subseteq Tracked /\ schema \in Schemas
  BY OutputsFacts, FileFacts DEF Tracked, IInv, TypeOK
<1>4. DeletesOnlyAfterAllWritten'
  <2>. SUFFICES ASSUME NEW f \in Tracked, Gone(f)', outcome' # "none"
       PROVE  /\ outcome' \in {"none", "ok", "cleanfail", "killed"}
              /\ before'[f].marker # "none"
              /\ f \notin Outputs(schema')
              /\ \A g \in Outputs(schema') : disk'[g] = Fresh'
    BY DEF DeletesOnlyAfterAllWritten, Tracked
  <2>1. Gone(f)
    BY DEF Gone
  <2>2. pc = "cleanup" /\ f \notin written /\ before[f].marker # "none"
    BY <2>1 DEF Gone, IInv, DiskInv, TypeOK, Fresh, Absent
  <2>3. outcome' \in {"none", "ok", "cleanfail", "killed"}
    BY <2>2 DEF TypeOK, Outcome
  <2>4. \A g \in Outputs(schema) : disk[g] = Fresh
    BY <1>3, <2>2 DEF IInv, DiskInv, PlanInv
  <2>. QED  BY <1>3, <2>2, <2>3, <2>4 DEF IInv, PlanInv, Fresh
<1>5. SuccessConverges'
  <2>. SUFFICES ASSUME outcome' = "ok", NEW f \in File, IsCleanupCandidate(f)
       PROVE  IF f \in Outputs(schema) THEN disk[f] = Fresh ELSE ~Marked(f)
    BY DEF SuccessConverges, Fresh, Marked
  <2>. QED  BY <1>3 DEF IInv, PlanInv, DiskInv, ScanInv
<1>6. EmbedHasDocument'
  BY FileFacts DEF EmbedHasDocument, IInv, Tracked, Marked, Present
<1>. QED  BY <1>1, <1>2, <1>4, <1>5, <1>6 DEF IInv

LEMMA StartKeepsIInv ==
    ASSUME IInv, TypeOK', StartRun PROVE IInv'
<1>. USE DEF StartRun
<1>1. PlanInv' /\ DiskInv' /\ ScanInv'
  BY DEF PlanInv, DiskInv, ScanInv, IInv, TypeOK
<1>2. PhaseOneKeepsOutput' /\ SuccessConverges'
  BY DEF PhaseOneKeepsOutput, SuccessConverges, IInv, TypeOK
<1>3. DeletesOnlyAfterAllWritten'
  BY DEF DeletesOnlyAfterAllWritten, Gone
<1>4. EmbedHasDocument'
  BY DEF EmbedHasDocument, Marked, Present, IInv
<1>. QED  BY <1>1, <1>2, <1>3, <1>4 DEF IInv

LEMMA PhaseOneKeepsIInv ==
    ASSUME IInv, TypeOK', EntGenerate \/ Render \/ RenderDone PROVE IInv'
<1>1. schema \in Schemas /\ Outputs(schema) \subseteq Tracked
  BY OutputsFacts, FileFacts DEF IInv, TypeOK, Tracked
<1>2. /\ \A f \in Tracked : disk'[f] = disk[f]
      /\ UNCHANGED <<schema, run, before, outcome>>
      /\ pc' \in {"render", "write"}
      /\ \A f \in Tracked : disk[f] = before[f]
      /\ outcome = "none"
  BY DEF EntGenerate, Render, RenderDone, IInv, DiskInv, PlanInv, Tracked, TypeOK
<1>3. PlanInv'
  BY DEF PlanInv, IInv, EntGenerate, Render, RenderDone
<1>4. DiskInv'
  BY <1>2 DEF DiskInv, IInv, PlanInv, EntGenerate, Render, RenderDone
<1>5. ScanInv' /\ PhaseOneKeepsOutput' /\ SuccessConverges' /\ DeletesOnlyAfterAllWritten'
  BY <1>2 DEF ScanInv, PhaseOneKeepsOutput, SuccessConverges,
              DeletesOnlyAfterAllWritten, Gone, Tracked
<1>6. EmbedHasDocument'
  BY <1>2, FileFacts DEF EmbedHasDocument, IInv, Tracked, Marked, Present
<1>. QED  BY <1>3, <1>4, <1>5, <1>6 DEF IInv

\* In phase 2 the document is renamed into place before the embed, because
\* phase 1 put it first.
LEMMA PhaseTwoKeepsIInv ==
    ASSUME IInv, TypeOK', CreateTemp \/ Rename PROVE IInv'
<1>1. schema \in Schemas /\ Outputs(schema) \subseteq Tracked
  BY OutputsFacts, FileFacts DEF IInv, TypeOK, Tracked
<1>2. /\ UNCHANGED <<schema, run, before, outcome, written, pc>>
      /\ pc = "write" /\ outcome = "none" /\ written = Outputs(schema)
  BY DEF CreateTemp, Rename, IInv, PlanInv
<1>3. PlanInv'
  BY DEF PlanInv, IInv, CreateTemp, Rename, IsNextWrite, WritesBefore
<1>4. \A f \in Tracked :
        disk'[f] = IF f \in written' \ pending' THEN Fresh' ELSE before'[f]
  <2>1. CASE CreateTemp
    BY <1>2, <2>1 DEF CreateTemp, IInv, DiskInv, Fresh
  <2>2. CASE Rename
    <3>. PICK f \in temp : disk' = [disk EXCEPT ![f] = Fresh] /\ pending' = pending \ {f}
      BY <2>2 DEF Rename
    <3>. QED  BY <1>1, <1>2, <2>2 DEF IInv, DiskInv, TypeOK, Fresh, Tracked
  <2>. QED  BY <2>1, <2>2
<1>5. DiskInv' /\ ScanInv' /\ PhaseOneKeepsOutput' /\ SuccessConverges'
  BY <1>2, <1>4 DEF DiskInv, ScanInv, PhaseOneKeepsOutput, SuccessConverges
<1>6. DeletesOnlyAfterAllWritten'
  BY <1>2, <1>4 DEF DeletesOnlyAfterAllWritten, Gone, Tracked, Fresh, Absent
<1>7. EmbedHasDocument'
  <2>1. CASE CreateTemp
    BY <2>1 DEF CreateTemp, IInv, EmbedHasDocument, Marked, Present
  <2>2. CASE Rename
    <3>. PICK f \in temp : disk' = [disk EXCEPT ![f] = Fresh] /\ pending' = pending \ {f}
      BY <2>2 DEF Rename
    <3>1. CASE f = Embed
      <4>1. Document \in written
        BY <1>1, <1>2, <3>1, OutputsFacts DEF IInv, TypeOK
      <4>2. Document \notin pending
        BY <3>1, FileFacts DEF IInv, PlanInv, IsNextWrite, WritesBefore, KindRank,
                               Embed, Document
      <4>3. disk[Document] = Fresh
        BY <1>2, <4>1, <4>2, FileFacts DEF IInv, DiskInv, Tracked
      <4>. QED  BY <3>1, <4>3, FileFacts
                DEF EmbedHasDocument, Present, Fresh, Absent, IInv, TypeOK
    <3>2. CASE f # Embed
      BY <3>2, FileFacts
         DEF EmbedHasDocument, Present, Marked, Fresh, Absent, IInv, TypeOK
    <3>. QED  BY <3>1, <3>2
  <2>. QED  BY <2>1, <2>2
<1>. QED  BY <1>3, <1>5, <1>6, <1>7 DEF IInv

\* The scan lists the embed before the document, so when both are stale the
\* embed is removed first.
LEMMA CleanupKeepsIInv ==
    ASSUME IInv, TypeOK', ReadDir \/ Visit PROVE IInv'
<1>1. schema \in Schemas /\ Outputs(schema) \subseteq Tracked
  BY OutputsFacts, FileFacts DEF IInv, TypeOK, Tracked
<1>2. /\ UNCHANGED <<schema, run, before, outcome, written, pending, temp>>
      /\ pc' = "cleanup" /\ outcome = "none" /\ written = Outputs(schema)
      /\ pending = {} /\ temp = {}
  BY DEF ReadDir, Visit, IInv, PlanInv, TypeOK
<1>3. PlanInv' /\ PhaseOneKeepsOutput' /\ SuccessConverges'
  BY <1>2 DEF PlanInv, PhaseOneKeepsOutput, SuccessConverges, Outputs, IsNextWrite
<1>4. \A f \in Tracked :
        IF f \in written THEN disk'[f] = Fresh
        ELSE disk'[f] = before[f] \/ (disk'[f] = Absent /\ before[f].marker # "none")
  <2>1. CASE ReadDir
    BY <1>2, <2>1 DEF ReadDir, IInv, DiskInv
  <2>2. CASE Visit
    BY <1>2, <2>2 DEF Visit, Stale, Marked, IInv, DiskInv, TypeOK, Absent
  <2>. QED  BY <2>1, <2>2
<1>5. DiskInv'
  BY <1>2, <1>4 DEF DiskInv, Fresh
<1>6. ScanInv'
  <2>1. CASE ReadDir
    BY <1>2, <2>1 DEF ReadDir, ScanInv, Marked, Present, Absent
  <2>2. CASE Visit
    BY <1>2, <2>2 DEF Visit, ScanInv, Stale, Marked, Absent, IInv, TypeOK
  <2>. QED  BY <2>1, <2>2
<1>7. DeletesOnlyAfterAllWritten'
  BY <1>1, <1>2, <1>4 DEF DeletesOnlyAfterAllWritten, Gone, Tracked, Fresh, Absent
<1>8. EmbedHasDocument'
  <2>1. CASE ReadDir
    BY <2>1 DEF ReadDir, EmbedHasDocument, Marked, Present, IInv
  <2>2. CASE Visit
    <3>. PICK f \in scan :
           /\ IsNextScanned(f)
           /\ disk' = IF Stale(f) THEN [disk EXCEPT ![f] = Absent] ELSE disk
      BY <2>2 DEF Visit
    <3>1. CASE f = Document /\ Stale(f)
      <4>1. Embed \notin scan
        BY <3>1, ScanAssumption, FileFacts DEF IsNextScanned
      <4>2. Embed \notin written
        BY <1>1, <1>2, <3>1, OutputsFacts DEF Stale
      <4>3. ~Marked(Embed)
        BY <2>2, <4>1, <4>2, FileFacts DEF Visit, IInv, ScanInv
      <4>. QED  BY <3>1, <4>3, FileFacts DEF EmbedHasDocument, Marked, IInv, TypeOK
    <3>2. CASE ~(f = Document /\ Stale(f))
      BY <3>2, FileFacts DEF EmbedHasDocument, Marked, Present, Absent, IInv, TypeOK
    <3>. QED  BY <3>1, <3>2
  <2>. QED  BY <2>1, <2>2
<1>. QED  BY <1>3, <1>5, <1>6, <1>7, <1>8 DEF IInv

LEMMA IInvInductive == Spec => []IInv
<1>1. ASSUME IInv, TypeOK', [Next]_vars PROVE IInv'
  <2>. USE <1>1
  <2>1. CASE EntFails \/ RenderFails \/ WriteFails \/ ReadDirFails \/ VisitFails \/ Finish \/ Kill
    <3>1. /\ pc # "idle" /\ pc' = "idle" /\ temp' = {}
          /\ UNCHANGED <<schema, run, before>>
          /\ \A f \in Tracked : disk'[f] = disk[f]
      BY <2>1 DEF EntFails, RenderFails, WriteFails, ReadDirFails, VisitFails, Finish,
                  Kill, EndRun, Tracked
    <3>2. /\ outcome' \in {"refused", "entfail", "renderfail"} => pc \in {"ent", "render"}
          /\ outcome' = "writefail" => pc = "write"
          /\ outcome' = "ok" => pc = "cleanup" /\ scan = {} /\ disk' = disk
      BY <2>1 DEF EntFails, RenderFails, WriteFails, ReadDirFails, VisitFails, Finish,
                  Kill, EndRun
    <3>. QED  BY <3>1, <3>2, EndKeepsIInv
  <2>2. CASE UNCHANGED vars
    BY <2>2 DEF vars, runVars, IInv, TypeOK, PlanInv, DiskInv, ScanInv, IsNextWrite,
                PhaseOneKeepsOutput, DeletesOnlyAfterAllWritten, SuccessConverges,
                EmbedHasDocument, Gone, Marked, Present, Fresh
  <2>. QED
    BY <2>1, <2>2, ConsumerKeepsIInv, StartKeepsIInv, PhaseOneKeepsIInv,
       PhaseTwoKeepsIInv, CleanupKeepsIInv DEF Next, Generator, Failure
<1>. QED  BY <1>1, IInvInit, TypeCorrect, PTL DEF Spec

\* A run that fails in phase 1 leaves every file but ent's own as it found it.
THEOREM PhaseOneIsHarmless == Spec => []PhaseOneKeepsOutput
BY IInvInductive, PTL DEF IInv

\* Whatever a run deleted was marked, was not one of its outputs, and went only
\* after every output was on disk.
THEOREM DeletionIsLast == Spec => []DeletesOnlyAfterAllWritten
BY IInvInductive, PTL DEF IInv

\* A run that reports success leaves exactly this schema's outputs marked, all
\* of this run, whatever interrupted runs came before it.
THEOREM Convergence == Spec => []SuccessConverges
BY IInvInductive, PTL DEF IInv

\* A generated embed never lacks the document it embeds, at any kill point and
\* wherever a cleanup stopped.
THEOREM EmbedIsBacked == Spec => []EmbedHasDocument
BY IInvInductive, PTL DEF IInv

\* No run touches a file without the marker, except ent's generator its own and
\* a rename an output of the run.
THEOREM OwnershipByMarker == Spec => UnmarkedLeftAlone
<1>1. ASSUME IInv, [Next]_vars
      PROVE  \A f \in File :
               /\ pc # "idle" /\ ~(pc = "ent" /\ f \in EntFiles)
               /\ Present(f) /\ ~Marked(f) /\ disk'[f] # disk[f]
               => f \in Outputs(schema) /\ disk'[f] = Fresh
  <2>. SUFFICES ASSUME NEW f \in File,
                       pc # "idle", ~(pc = "ent" /\ f \in EntFiles),
                       Present(f), ~Marked(f), disk'[f] # disk[f]
                PROVE  f \in Outputs(schema) /\ disk'[f] = Fresh
    OBVIOUS
  <2>. USE <1>1 DEF IInv
  <2>1. CASE Rename
    BY <2>1 DEF Rename, TypeOK, PlanInv
  <2>2. CASE Visit
    BY <2>2 DEF Visit, Stale, TypeOK
  <2>3. CASE EntGenerate \/ EntFails
    BY <2>3 DEF EntGenerate, EntFails, TypeOK
  <2>4. CASE ~(Rename \/ Visit \/ EntGenerate \/ EntFails)
    BY <2>4 DEF Next, Consumer, EditSchema, StripMarker, HandWrite, CopyGenerated,
                ConsumerWrites, StartRun, Generator, Render, RenderDone, CreateTemp,
                ReadDir, Finish, Failure, RenderFails, WriteFails, ReadDirFails,
                VisitFails, Kill, EndRun, vars, runVars
  <2>. QED  BY <2>1, <2>2, <2>3, <2>4
<1>. QED  BY <1>1, IInvInductive, PTL DEF Spec, UnmarkedLeftAlone

-----------------------------------------------------------------------------
(***************************************************************************)
(* The generator implements the contract.                                  *)
(***************************************************************************)
Tree  == [f \in Tracked |-> disk[f]]
Stage == CASE pc = "write" -> "replace" [] pc = "cleanup" -> "prune"
           [] pc = "idle" -> "rest" [] OTHER -> "prepare"
Plan  == IF pc \in {"write", "cleanup"} THEN written ELSE {}
Done  == IF pc \in {"write", "cleanup"} THEN written \ pending ELSE {}

LEMMA MappedStep ==
    ASSUME IInv, IInv', [Next]_vars
    PROVE  [Contract!Next]_(Contract!vars)
<1>. USE DEF Contract!vars, IInv
<1>1. Tree \in [Tracked -> Content] /\ Tree' \in [Tracked -> Content]
  BY DEF Tree, Tracked, TypeOK
<1>2. Fresh \in Content /\ Fresh' \in Content
  BY DEF Fresh, Content, Marker, TypeOK
<1>3. CASE Consumer \/ (StartRun /\ pc' = "idle")
  <2>1. pc = "idle" /\ pc' = "idle"
    BY <1>3 DEF Consumer, EditSchema, StripMarker, HandWrite, CopyGenerated,
                ConsumerWrites, StartRun, runVars
  <2>2. Contract!Change
    BY <1>1, <1>2, <2>1 DEF Contract!Change, Tree, Tracked
  <2>. QED  BY <2>2 DEF Contract!Next
<1>4. CASE StartRun /\ pc' # "idle"
  <2>1. Contract!Begin
    BY <1>2, <1>4 DEF StartRun, Contract!Begin
  <2>. QED  BY <2>1 DEF Contract!Next
<1>5. CASE EntGenerate \/ Render \/ CreateTemp \/ UNCHANGED vars
  BY <1>5 DEF EntGenerate, Render, CreateTemp, vars, runVars, Fresh
<1>6. CASE RenderDone
  <2>1. Contract!Commit
    BY <1>6, FileFacts DEF RenderDone, Contract!Commit, DiskInv, TypeOK, Fresh
  <2>. QED  BY <2>1 DEF Contract!Next
<1>7. CASE Rename
  <2>. PICK f \in temp : disk' = [disk EXCEPT ![f] = Fresh] /\ pending' = pending \ {f}
    BY <1>7 DEF Rename
  <2>1. f \in Tracked /\ f \in pending /\ f \in written
    BY FileFacts DEF TypeOK, Tracked
  <2>2. Contract!Replace(f)
    BY <1>7, <2>1 DEF Rename, Contract!Replace, Tracked, TypeOK, Fresh
  <2>. QED  BY <2>1, <2>2 DEF Contract!Next, Tracked
<1>8. CASE ReadDir
  <2>1. Contract!Prune
    BY <1>8 DEF ReadDir, Contract!Prune, Fresh
  <2>. QED  BY <2>1 DEF Contract!Next
<1>9. CASE Visit
  <2>. PICK f \in scan : disk' = IF Stale(f) THEN [disk EXCEPT ![f] = Absent] ELSE disk
    BY <1>9 DEF Visit
  <2>1. CASE Stale(f) /\ f \in Tracked
    <3>1. Contract!Remove(f)
      BY <1>9, <2>1 DEF Visit, Contract!Remove, Stale, Marked, Tracked, TypeOK, Fresh
    <3>. QED  BY <2>1, <3>1 DEF Contract!Next, Tracked
  <2>2. CASE ~(Stale(f) /\ f \in Tracked)
    <3>1. Tree' = Tree
      BY <2>2 DEF Tree, Tracked, TypeOK
    <3>. QED  BY <1>9, <3>1 DEF Visit, Fresh, Tree, Tracked
  <2>. QED  BY <2>1, <2>2
<1>10. CASE EntFails \/ RenderFails \/ WriteFails \/ ReadDirFails \/ VisitFails
            \/ Finish \/ Kill
  <2>1. pc # "idle" /\ pc' = "idle" /\ run' = run /\ Tree' = Tree
    BY <1>10 DEF EntFails, RenderFails, WriteFails, ReadDirFails, VisitFails, Finish,
                 Kill, EndRun, Tree, Tracked
  <2>2. Contract!End
    BY <2>1 DEF Contract!End, Fresh, Tree, Tracked, TypeOK
  <2>. QED  BY <2>2 DEF Contract!Next
<1>. QED
  BY <1>3, <1>4, <1>5, <1>6, <1>7, <1>8, <1>9, <1>10 DEF Next, Generator, Failure

\* Seen from the tree, every run is: prepare, replace whole files, prune marked
\* files, and possibly stop early - nothing else ever happens to it.
THEOREM GeneratorKeepsContract == Spec => KeepsContract
<1>1. Init => Contract!Init
  BY IInvInit, FileFacts
     DEF Init, Contract!Init, IInv, TypeOK, Fresh, Content, Marker, Run
<1>. QED
  BY <1>1, IInvInductive, MappedStep, PTL DEF Spec, KeepsContract, Contract!Spec

-----------------------------------------------------------------------------
(***************************************************************************)
(* Progress: what RunEnds rests on, short of fairness.                     *)
(***************************************************************************)
LEMMA LeastNat ==
    ASSUME NEW S \in SUBSET Nat, S # {}
    PROVE  \E n \in S : \A m \in S : n <= m
<1>1. PICK n \in S : \A m \in S : ~(<<m, n>> \in OpToRel(<, Nat))
  BY NatLessThanWellFounded, WFMin
<1>2. ASSUME NEW m \in S, ~(n <= m) PROVE FALSE
  <2>1. <<m, n>> \in OpToRel(<, Nat)
    BY <1>2 DEF OpToRel
  <2>. QED  BY <1>1, <1>2, <2>1
<1>. QED  BY <1>2

\* The kinds of file of one entity, or of the graph, have an order.
LEMMA KindsAreRanked ==
    /\ \A k \in PerTypeKind \cup GraphKind : KindRank[k] \in Nat
    /\ \A k, l \in PerTypeKind : KindRank[k] = KindRank[l] => k = l
    /\ \A k, l \in GraphKind : KindRank[k] = KindRank[l] => k = l
BY DEF KindRank, PerTypeKind, GraphKind

LEMMA ExtFile ==
    ASSUME NEW f \in ExtFiles
    PROVE  /\ f = <<f[1], f[2]>> /\ f[1] \in Nat /\ f[2] \in PerTypeKind \cup GraphKind
           /\ f[1] # 0 => f[2] \in PerTypeKind
           /\ f[1] = 0 => f[2] \in GraphKind
<1>1. CASE f \in Entity \X PerTypeKind
  <2>1. PICK e \in Entity, k \in PerTypeKind : f = <<e, k>>
    BY <1>1
  <2>2. e \in Nat /\ e # 0
    BY ConstantsAssumption
  <2>. QED  BY <2>1, <2>2
<1>2. CASE f \in {0} \X GraphKind
  BY <1>2
<1>. QED  BY <1>1, <1>2 DEF ExtFiles

LEMMA FirstKind ==
    ASSUME NEW S \in SUBSET ExtFiles, NEW e, \E f \in S : f[1] = e
    PROVE  \E f \in S : /\ f[1] = e
                        /\ \A g \in S \ {f} : g[1] = e => KindRank[f[2]] < KindRank[g[2]]
<1>. DEFINE Ranks == {KindRank[f[2]] : f \in {g \in S : g[1] = e}}
<1>1. Ranks \in SUBSET Nat /\ Ranks # {}
  BY ExtFile, KindsAreRanked
<1>2. PICK n \in Ranks : \A m \in Ranks : n <= m
  BY <1>1, LeastNat
<1>3. PICK f \in S : f[1] = e /\ n = KindRank[f[2]]
  BY <1>2
<1>4. ASSUME NEW g \in S \ {f}, g[1] = e PROVE KindRank[f[2]] < KindRank[g[2]]
  <2>1. KindRank[g[2]] \in Ranks
    BY <1>4
  <2>2. n <= KindRank[g[2]] /\ n \in Nat /\ KindRank[g[2]] \in Nat
    BY <1>1, <1>2, <2>1
  <2>3. f[2] # g[2]
    BY <1>3, <1>4, ExtFile
  <2>4. KindRank[f[2]] # KindRank[g[2]]
    BY <1>3, <1>4, <2>3, ExtFile, KindsAreRanked
  <2>. QED  BY <1>3, <2>2, <2>4
<1>. QED  BY <1>3, <1>4

\* Of any outputs that are left, one comes first.
LEMMA OneComesFirst ==
    ASSUME NEW S \in SUBSET ExtFiles, S # {}
    PROVE  \E f \in S : IsNextWrite(f, S)
<1>. DEFINE Entities == {f[1] : f \in {g \in S : g[1] # 0}}
<1>1. Entities \in SUBSET Nat
  BY ExtFile
<1>2. CASE Entities # {}
  <2>1. PICK e \in Entities : \A d \in Entities : e <= d
    BY <1>1, <1>2, LeastNat
  <2>2. e # 0 /\ e \in Nat /\ \E f \in S : f[1] = e
    BY <1>1, <2>1
  <2>3. PICK f \in S : /\ f[1] = e
                       /\ \A g \in S \ {f} : g[1] = e => KindRank[f[2]] < KindRank[g[2]]
    BY <2>2, FirstKind
  <2>4. ASSUME NEW g \in S \ {f} PROVE WritesBefore(f, g)
    <3>1. g[1] # 0 => g[1] \in Entities /\ g[1] \in Nat /\ e <= g[1]
      BY <1>1, <2>1
    <3>2. CASE g[1] = 0
      BY <2>2, <2>3, <3>2 DEF WritesBefore
    <3>3. CASE g[1] = e
      BY <2>3, <2>4, <3>3 DEF WritesBefore
    <3>4. CASE g[1] # 0 /\ g[1] # e
      BY <2>2, <2>3, <3>1, <3>4 DEF WritesBefore
    <3>. QED  BY <3>2, <3>3, <3>4
  <2>. QED  BY <2>3, <2>4 DEF IsNextWrite
<1>3. CASE Entities = {}
  <2>1. \A f \in S : f[1] = 0
    BY <1>3
  <2>2. PICK f \in S : /\ f[1] = 0
                       /\ \A g \in S \ {f} : g[1] = 0 => KindRank[f[2]] < KindRank[g[2]]
    <3>1. \E f \in S : f[1] = 0
      BY <2>1
    <3>. QED  BY <3>1, FirstKind
  <2>. QED  BY <2>1, <2>2 DEF WritesBefore, IsNextWrite
<1>. QED  BY <1>2, <1>3

LEMMA OneIsScannedFirst ==
    ASSUME NEW S \in SUBSET File, S # {}
    PROVE  \E f \in S : \A g \in S : ScanRank[f] <= ScanRank[g]
<1>. DEFINE Ranks == {ScanRank[f] : f \in S}
<1>1. Ranks \in SUBSET Nat /\ Ranks # {}
  BY ScanAssumption
<1>2. PICK n \in Ranks : \A m \in Ranks : n <= m
  BY <1>1, LeastNat
<1>. QED  BY <1>2

\* A run is never stuck: whatever a step needs is there until the step is done.
\* Phase 1 has a next output to render until it has them all, phase 2 has a
\* temporary file to rename or a next output to write, and cleanup a next file
\* to visit; so one of the generator's actions is enabled.
THEOREM RunsGoOn ==
    Spec => [](/\ pc = "render" /\ written # Outputs(schema) =>
                    \E f \in Outputs(schema) \ written :
                        IsNextWrite(f, Outputs(schema) \ written)
               /\ pc = "write" /\ pending # {} /\ temp = {} =>
                    \E f \in pending : IsNextWrite(f, pending)
               /\ temp # {} => pc = "write"
               /\ pc = "cleanup" /\ scan # {} => \E f \in scan : IsNextScanned(f))
<1>1. ASSUME IInv
      PROVE  /\ pc = "render" /\ written # Outputs(schema) =>
                    \E f \in Outputs(schema) \ written :
                        IsNextWrite(f, Outputs(schema) \ written)
             /\ pc = "write" /\ pending # {} /\ temp = {} =>
                    \E f \in pending : IsNextWrite(f, pending)
             /\ temp # {} => pc = "write"
             /\ pc = "cleanup" /\ scan # {} => \E f \in scan : IsNextScanned(f)
  <2>1. /\ Outputs(schema) \in SUBSET ExtFiles /\ pending \in SUBSET ExtFiles
        /\ scan \in SUBSET File
    BY <1>1, OutputsFacts DEF IInv, TypeOK
  <2>2. pc = "render" => written \subseteq Outputs(schema)
    BY <1>1 DEF IInv, PlanInv
  <2>3. temp # {} => pc = "write"
    BY <1>1 DEF IInv, PlanInv, TypeOK
  <2>. QED  BY <2>1, <2>2, <2>3, OneComesFirst, OneIsScannedFirst DEF IsNextScanned
<1>. QED  BY <1>1, IInvInductive, PTL

\* The stage after a stage; a part that lacks something.
Later(stage) == CASE stage = "ent"    -> {"render"}
                  [] stage = "render" -> {"write"}
                  [] stage = "write"  -> {"cleanup"}
                  [] OTHER            -> {"idle"}
Fewer(S, T)  == S \subseteq T /\ S # T

\* A run does not turn back: each step of the generator takes it to a later
\* stage, or within its stage to fewer outputs to render, fewer files to rename,
\* a temporary file opened for the next of them, or fewer files to visit.
THEOREM RunsRunOut ==
    Spec => [][Generator =>
        \/ pc' \in Later(pc)
        \/ /\ pc' = pc /\ pc = "render"
           /\ Fewer(Outputs(schema)' \ written', Outputs(schema) \ written)
        \/ /\ pc' = pc /\ pc = "write"
           /\ \/ Fewer(pending', pending)
              \/ pending' = pending /\ temp = {} /\ temp' # {}
        \/ /\ pc' = pc /\ pc = "cleanup" /\ Fewer(scan', scan)]_vars
<1>1. ASSUME IInv, Generator
      PROVE  \/ pc' \in Later(pc)
             \/ /\ pc' = pc /\ pc = "render"
                /\ Fewer(Outputs(schema)' \ written', Outputs(schema) \ written)
             \/ /\ pc' = pc /\ pc = "write"
                /\ \/ Fewer(pending', pending)
                   \/ pending' = pending /\ temp = {} /\ temp' # {}
             \/ /\ pc' = pc /\ pc = "cleanup" /\ Fewer(scan', scan)
  <2>1. CASE EntGenerate \/ RenderDone \/ ReadDir \/ Finish
    BY <2>1 DEF EntGenerate, RenderDone, ReadDir, Finish, EndRun, Later
  <2>2. CASE Render
    <3>1. Outputs(schema)' = Outputs(schema)
      BY <2>2 DEF Render, Outputs
    <3>. QED  BY <2>2, <3>1 DEF Render, Fewer
  <2>3. CASE CreateTemp
    BY <2>3 DEF CreateTemp
  <2>4. CASE Rename
    BY <1>1, <2>4 DEF Rename, Fewer, IInv, TypeOK
  <2>5. CASE Visit
    BY <2>5 DEF Visit, Fewer
  <2>. QED  BY <1>1, <2>1, <2>2, <2>3, <2>4, <2>5 DEF Generator
<1>. QED  BY <1>1, IInvInductive, PTL DEF Spec
=============================================================================
