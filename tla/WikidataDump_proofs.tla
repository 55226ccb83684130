------------------------- MODULE WikidataDump_proofs -------------------------
(***************************************************************************)
(* The safety properties of WikidataDump, for every size of a dump, every  *)
(* cooldown and every clock.  One invariant, IInv, carries them all.       *)
(***************************************************************************)
EXTENDS WikidataDump, SequenceTheorems, TLAPS

(***************************************************************************)
(* The strengthening.                                                      *)
(***************************************************************************)
Downloading == pc \in {"get", "read", "rename"}

\* What each step of a call finds, because of the steps before it.
StepInv ==
  /\ Downloading => dump = None
  /\ pc \in {"read", "rename"} => part # None
  /\ pc = "read" => serving # None
  /\ pc = "rename" => Len(part.pieces) = Size
  /\ pc \in {"load", "rmtree", "meta"} => graph # None
  /\ pc = "rmtree" => call = "force"
  /\ pc \in {"clean", "save", "meta"} => dump # None /\ call # "fetch"

\* The server's answers, and what is recorded of them, are not ahead of it.
AnswerInv ==
  /\ remote <= now
  /\ probe # None => probe <= remote
  /\ stamp # None => stamp <= remote
  /\ StampNotAhead

\* The dump in place is the last one downloaded; it is dropped for another
\* only when it is old.
SpacingInv ==
  /\ dump # None => fetched = dump.at
  /\ dump = None => fetched = None \/ Age(fetched) >= Cooldown

\* A call between its decision to build and the save of the new graph.
Rebuilding ==
  call # "fetch" /\ pc \in {"head", "ensure", "get", "read", "rename", "clean", "save"}

\* The cached instance is not younger than the graph, and where a new graph
\* is about to be saved it is older than anything saved now.
CacheInv ==
  /\ graph # None /\ cache # None =>
       /\ cache.at <= graph.at
       /\ cache.at = graph.at => cache.pieces = graph.pieces
  /\ cache # None /\ (graph = None \/ Rebuilding) => cache.at < now

IInv == TypeOK /\ StepInv /\ WholeDump /\ AnswerInv /\ SpacingInv /\ CacheInv

(***************************************************************************)
(* The pieces of a file.                                                   *)
(***************************************************************************)
\* A file that a 200 answer has just started.
LEMMA NoPieces == <<>> \in Pieces /\ Len(<<>>) = 0
<1>1. <<>> \in [1 .. 0 -> Times] OBVIOUS
<1> QED BY <1>1, NumbersAssumption DEF Pieces

\* Pieces are sequences of versions, of at most Size of them.
LEMMA PiecesAreSequences ==
  ASSUME NEW s \in Pieces
  PROVE  s \in Seq(Times) /\ Len(s) \in 0 .. Size
<1>1. PICK n \in 0 .. Size : s \in [1 .. n -> Times] BY DEF Pieces
<1>2. s \in Seq(Times) /\ Len(s) = n BY <1>1, NumbersAssumption
<1> QED BY <1>2

\* A piece more, while there is room for it.
LEMMA MorePieces ==
  ASSUME NEW s \in Pieces, Len(s) < Size, NEW v \in Times
  PROVE  Append(s, v) \in Pieces
<1>1. s \in Seq(Times) /\ Len(s) \in 0 .. Size BY PiecesAreSequences
<1>2. Append(s, v) \in Seq(Times) /\ Len(Append(s, v)) = Len(s) + 1 BY <1>1
<1>3. Append(s, v) \in [1 .. Len(s) + 1 -> Times] BY <1>2, LenProperties
<1> QED BY <1>1, <1>3, NumbersAssumption DEF Pieces

(***************************************************************************)
(* Files and graphs.                                                       *)
(***************************************************************************)
\* What a File holds, and how one is made.
LEMMA Files ==
  /\ \A f \in File : f # None /\ f.pieces \in Pieces /\ f.at \in Times
  /\ \A p \in Pieces, t \in Times : [pieces |-> p, at |-> t] \in File
BY NoneAssumption DEF File

\* What a Graph holds, and how one is torn and stamped.
LEMMA Graphs ==
  ASSUME NEW g \in Graph
  PROVE  /\ g # None /\ g.pieces \in Pieces /\ g.at \in Times
         /\ [g EXCEPT !.whole = FALSE] \in Graph
         /\ \A m \in Meta : [g EXCEPT !.meta = m] \in Graph
BY NoneAssumption DEF Graph

\* What a torn graph and a stamped one keep.
LEMMA GraphParts ==
  ASSUME NEW g \in Graph
  PROVE  /\ [g EXCEPT !.whole = FALSE].pieces = g.pieces
         /\ [g EXCEPT !.whole = FALSE].at = g.at
         /\ [g EXCEPT !.whole = FALSE].meta = g.meta
         /\ \A m \in Meta : /\ [g EXCEPT !.meta = m].pieces = g.pieces
                            /\ [g EXCEPT !.meta = m].at = g.at
                            /\ [g EXCEPT !.meta = m].meta = m
BY DEF Graph

\* The times a state holds.
LEMMA Numbers ==
  ASSUME TypeOK
  PROVE  /\ now \in Int /\ remote \in Int
         /\ probe # None => probe \in Int
         /\ stamp # None => stamp \in Int
         /\ fetched # None => fetched \in Int
         /\ dump # None => dump.at \in Int
         /\ cache # None => cache.at \in Int
         /\ graph # None => graph.at \in Int
         /\ graph # None /\ graph.meta # None /\ graph.meta.remote # None
              => graph.meta.remote \in Int
<1>1. Times \subseteq Int BY NumbersAssumption DEF Times
<1>2. \A f \in File : f.at \in Int BY <1>1 DEF File
<1>3. \A m \in Meta : m.remote # None => m.remote \in Int BY <1>1 DEF Meta
<1>4. \A g \in Graph : g.at \in Int /\ (g.meta # None => g.meta \in Meta) BY <1>1 DEF Graph
<1> QED BY <1>1, <1>2, <1>3, <1>4 DEF TypeOK

(***************************************************************************)
(* Types, and what the steps of a call find.                               *)
(***************************************************************************)
\* Every step keeps the types.
LEMMA TypeStep == TypeOK /\ StepInv /\ [Next]_vars => TypeOK'
<1>1. SUFFICES ASSUME TypeOK, StepInv, [Next]_vars PROVE TypeOK' OBVIOUS
<1>2. now \in Nat /\ MaxNow \in Nat /\ now \in Times
  BY <1>1, NumbersAssumption DEF TypeOK, Times
<1>ProcessHit. CASE ProcessHit
  BY <1>1, <1>ProcessHit DEF ProcessHit, Return, TypeOK, Steps, diskVars, callVars
<1>ProcessMiss. CASE ProcessMiss
  BY <1>1, <1>ProcessMiss DEF ProcessMiss, TypeOK, Steps, diskVars, callVars
<1>ProbeRemote. CASE ProbeRemote
  BY <1>1, <1>ProbeRemote DEF ProbeRemote, Ask, TypeOK, Steps, diskVars, callVars
<1>DecideStep. CASE DecideStep
  BY <1>1, <1>DecideStep DEF DecideStep, Decide, TypeOK, Steps, diskVars, callVars
<1>LoadCached. CASE LoadCached
  <2>1. graph \in Graph BY <1>1, <1>LoadCached DEF LoadCached, StepInv, TypeOK
  <2>2. [pieces |-> graph.pieces, at |-> graph.at] \in File BY <2>1, Files, Graphs
  <2> QED BY <1>1, <1>LoadCached, <2>2 DEF LoadCached, Return, TypeOK, Steps, diskVars, callVars
<1>RmtreeForced. CASE RmtreeForced
  BY <1>1, <1>RmtreeForced, Graphs
     DEF RmtreeForced, Break, StepInv, TypeOK, Steps, diskVars, callVars
<1>RmtreeOld. CASE RmtreeOld
  BY <1>1, <1>RmtreeOld, Graphs DEF RmtreeOld, Break, TypeOK, Steps, diskVars, callVars
<1>Save. CASE Save
  BY <1>1, <1>Save, Files DEF Save, StepInv, Graph, TypeOK, Steps, diskVars, callVars
<1>WriteMeta. CASE WriteMeta
  BY <1>1, <1>WriteMeta, Files, Graphs
     DEF WriteMeta, Return, StepInv, Meta, TypeOK, Steps, diskVars, callVars
<1>HeadDump. CASE HeadDump
  BY <1>1, <1>HeadDump DEF HeadDump, Ask, TypeOK, Steps, diskVars, callVars
<1>KeepDump. CASE KeepDump
  BY <1>1, <1>KeepDump, Files
     DEF KeepDump, Resolved, Return, Outdated, TypeOK, Steps, diskVars, callVars
<1>DropDump. CASE DropDump
  BY <1>1, <1>DropDump DEF DropDump, Outdated, TypeOK, Steps, diskVars, callVars
<1>NoDump. CASE NoDump
  BY <1>1, <1>NoDump DEF NoDump, TypeOK, Steps, diskVars, callVars
<1>Get. CASE Get
  BY <1>1, <1>Get, NoPieces, Files DEF Get, TypeOK, Steps, diskVars, callVars
<1>ReadPiece. CASE ReadPiece
  BY <1>1, <1>ReadPiece, MorePieces, Files
     DEF ReadPiece, StepInv, TypeOK, Steps, diskVars, callVars
<1>ReadEnd. CASE ReadEnd
  BY <1>1, <1>ReadEnd DEF ReadEnd, TypeOK, Steps, diskVars, callVars
<1>RenamePart. CASE RenamePart
  BY <1>1, <1>RenamePart, Files
     DEF RenamePart, Resolved, Return, StepInv, TypeOK, Steps, diskVars, callVars
<1>CallFails. CASE CallFails
  BY <1>1, <1>CallFails DEF CallFails, Return, TypeOK, Steps, diskVars, callVars
<1>Call. ASSUME NEW c \in {"open", "force", "fetch"}, Call(c)
         PROVE  TypeOK'
  BY <1>1, <1>Call DEF Call, TypeOK, Steps, diskVars, callVars
<1>Tick. CASE Tick
  BY <1>1, <1>Tick, <1>2 DEF Tick, Times, TypeOK, Steps, diskVars, callVars
<1>Crash. CASE Crash
  BY <1>1, <1>Crash DEF Crash, Return, TypeOK, Steps, diskVars, callVars
<1>CacheClear. CASE CacheClear
  BY <1>1, <1>CacheClear DEF CacheClear, TypeOK, Steps, diskVars, callVars
<1>Rival. CASE Rival
  BY <1>1, <1>Rival, Files DEF Rival, Graph, Meta, TypeOK, Steps, diskVars, callVars
<1>Stutter. CASE UNCHANGED vars
  BY <1>1, <1>Stutter DEF vars, TypeOK, Steps, diskVars, callVars
<1> QED
  BY <1>1, <1>ProcessHit, <1>ProcessMiss, <1>ProbeRemote, <1>DecideStep, <1>LoadCached,
     <1>RmtreeForced, <1>RmtreeOld, <1>Save, <1>WriteMeta, <1>HeadDump, <1>KeepDump,
     <1>DropDump, <1>NoDump, <1>Get, <1>ReadPiece, <1>ReadEnd, <1>RenamePart,
     <1>CallFails, <1>Call, <1>Tick, <1>Crash, <1>CacheClear, <1>Rival, <1>Stutter
     DEF Next, Open, Ensure

\* Every step leaves what the next one of the call relies on.
LEMMA StepsFound == TypeOK /\ StepInv /\ [Next]_vars => StepInv'
<1>1. SUFFICES ASSUME TypeOK, StepInv, [Next]_vars PROVE StepInv' OBVIOUS
<1>Written. ASSUME Get \/ ReadPiece PROVE part' \in File /\ serving' # None
  <2>1. CASE Get BY <1>1, <2>1, NoPieces, Files, NoneAssumption DEF Get, Start, TypeOK
  <2>2. CASE ReadPiece
    <3>1. part \in File /\ serving \in Times BY <1>1, <2>2 DEF ReadPiece, TypeOK, StepInv
    <3>2. Append(part.pieces, serving) \in Pieces BY <2>2, <3>1, MorePieces, Files DEF ReadPiece
    <3>3. now \in Times BY <1>1 DEF TypeOK
    <3>4. [pieces |-> Append(part.pieces, serving), at |-> now] \in File BY <3>2, <3>3, Files
    <3> QED BY <2>2, <3>1, <3>4, NoneAssumption DEF ReadPiece, callVars
  <2> QED BY <1>Written, <2>1, <2>2
<1>ProcessHit. CASE ProcessHit
  BY <1>1, <1>ProcessHit DEF ProcessHit, Return, StepInv, Downloading, diskVars, callVars
<1>ProcessMiss. CASE ProcessMiss
  BY <1>1, <1>ProcessMiss DEF ProcessMiss, StepInv, Downloading, diskVars, callVars
<1>ProbeRemote. CASE ProbeRemote
  BY <1>1, <1>ProbeRemote DEF ProbeRemote, Ask, StepInv, Downloading, diskVars, callVars
<1>DecideStep. CASE DecideStep
  BY <1>1, <1>DecideStep DEF DecideStep, Decide, StepInv, Downloading, diskVars, callVars
<1>LoadCached. CASE LoadCached
  BY <1>1, <1>LoadCached DEF LoadCached, Return, StepInv, Downloading, diskVars, callVars
<1>RmtreeForced. CASE RmtreeForced
  BY <1>1, <1>RmtreeForced, Graphs
     DEF RmtreeForced, Break, TypeOK, StepInv, Downloading, diskVars, callVars
<1>RmtreeOld. CASE RmtreeOld
  BY <1>1, <1>RmtreeOld DEF RmtreeOld, Break, StepInv, Downloading, diskVars, callVars
<1>Save. CASE Save
  <2>1. dump \in File /\ now \in Times BY <1>1, <1>Save DEF Save, StepInv, TypeOK
  <2>2. graph' \in Graph BY <1>Save, <2>1, Files DEF Save, Graph
  <2> QED BY <1>1, <1>Save, <2>2, Graphs DEF Save, StepInv, Downloading, diskVars, callVars
<1>WriteMeta. CASE WriteMeta
  BY <1>1, <1>WriteMeta DEF WriteMeta, Return, StepInv, Downloading, diskVars, callVars
<1>HeadDump. CASE HeadDump
  BY <1>1, <1>HeadDump DEF HeadDump, Ask, StepInv, Downloading, diskVars, callVars
<1>KeepDump. CASE KeepDump
  BY <1>1, <1>KeepDump
     DEF KeepDump, Resolved, Return, Outdated, StepInv, Downloading, diskVars, callVars
<1>DropDump. CASE DropDump
  BY <1>1, <1>DropDump DEF DropDump, Outdated, StepInv, Downloading, diskVars, callVars
<1>NoDump. CASE NoDump
  BY <1>1, <1>NoDump DEF NoDump, StepInv, Downloading, diskVars, callVars
<1>Get. CASE Get
  BY <1>1, <1>Get, <1>Written, Files DEF Get, StepInv, Downloading, diskVars, callVars
<1>ReadPiece. CASE ReadPiece
  BY <1>1, <1>ReadPiece, <1>Written, Files
     DEF ReadPiece, StepInv, Downloading, diskVars, callVars
<1>ReadEnd. CASE ReadEnd
  BY <1>1, <1>ReadEnd DEF ReadEnd, StepInv, Downloading, diskVars, callVars
<1>RenamePart. CASE RenamePart
  BY <1>1, <1>RenamePart
     DEF RenamePart, Resolved, Return, StepInv, Downloading, diskVars, callVars
<1>CallFails. CASE CallFails
  BY <1>1, <1>CallFails DEF CallFails, Return, StepInv, Downloading, diskVars, callVars
<1>Call. ASSUME NEW c \in {"open", "force", "fetch"}, Call(c)
         PROVE  StepInv'
  BY <1>1, <1>Call DEF Call, StepInv, Downloading, diskVars, callVars
<1>Tick. CASE Tick
  BY <1>1, <1>Tick DEF Tick, StepInv, Downloading, diskVars, callVars
<1>Crash. CASE Crash
  BY <1>1, <1>Crash DEF Crash, Return, StepInv, Downloading, diskVars, callVars
<1>CacheClear. CASE CacheClear
  BY <1>1, <1>CacheClear DEF CacheClear, StepInv, Downloading, diskVars, callVars
<1>Rival. CASE Rival
  BY <1>1, <1>Rival DEF Rival, StepInv, Downloading, diskVars, callVars
<1>Stutter. CASE UNCHANGED vars
  BY <1>1, <1>Stutter DEF vars, StepInv, Downloading, diskVars, callVars
<1> QED
  BY <1>1, <1>ProcessHit, <1>ProcessMiss, <1>ProbeRemote, <1>DecideStep, <1>LoadCached,
     <1>RmtreeForced, <1>RmtreeOld, <1>Save, <1>WriteMeta, <1>HeadDump, <1>KeepDump,
     <1>DropDump, <1>NoDump, <1>Get, <1>ReadPiece, <1>ReadEnd, <1>RenamePart,
     <1>CallFails, <1>Call, <1>Tick, <1>Crash, <1>CacheClear, <1>Rival, <1>Stutter
     DEF Next, Open, Ensure

(***************************************************************************)
(* What the properties need.                                               *)
(***************************************************************************)
\* Only a complete .part is renamed, and what is built or cached comes from it.
LEMMA WholeStep == TypeOK /\ StepInv /\ WholeDump /\ [Next]_vars => WholeDump'
<1>1. SUFFICES ASSUME TypeOK, StepInv, WholeDump, [Next]_vars PROVE WholeDump' OBVIOUS
<1>LoadCached. CASE LoadCached
  BY <1>1, <1>LoadCached DEF LoadCached, Return, StepInv, WholeDump, diskVars, callVars
<1>RmtreeForced. CASE RmtreeForced
  BY <1>1, <1>RmtreeForced
     DEF RmtreeForced, Break, StepInv, TypeOK, Graph, WholeDump, diskVars, callVars
<1>RmtreeOld. CASE RmtreeOld
  BY <1>1, <1>RmtreeOld DEF RmtreeOld, Break, TypeOK, Graph, WholeDump, diskVars, callVars
<1>Save. CASE Save
  BY <1>1, <1>Save DEF Save, StepInv, WholeDump, diskVars, callVars
<1>WriteMeta. CASE WriteMeta
  BY <1>1, <1>WriteMeta
     DEF WriteMeta, Return, StepInv, TypeOK, Graph, WholeDump, diskVars, callVars
<1>DropDump. CASE DropDump
  BY <1>1, <1>DropDump DEF DropDump, Outdated, WholeDump, diskVars, callVars
<1>NoDump. CASE NoDump
  BY <1>1, <1>NoDump DEF NoDump, WholeDump, diskVars, callVars
<1>Get. CASE Get
  BY <1>1, <1>Get DEF Get, StepInv, Downloading, WholeDump, diskVars, callVars
<1>ReadPiece. CASE ReadPiece
  BY <1>1, <1>ReadPiece DEF ReadPiece, StepInv, Downloading, WholeDump, diskVars, callVars
<1>RenamePart. CASE RenamePart
  BY <1>1, <1>RenamePart
     DEF RenamePart, Resolved, Return, StepInv, WholeDump, diskVars, callVars
<1>Crash. CASE Crash
  BY <1>1, <1>Crash DEF Crash, Return, WholeDump, diskVars, callVars
<1>CacheClear. CASE CacheClear
  BY <1>1, <1>CacheClear DEF CacheClear, WholeDump, diskVars, callVars
<1>Rival. CASE Rival
  BY <1>1, <1>Rival DEF Rival, WholeDump, diskVars, callVars
<1>Others. ASSUME ProcessHit \/ ProcessMiss \/ ProbeRemote \/ DecideStep \/ HeadDump \/ KeepDump \/
                 ReadEnd \/ CallFails \/ Tick \/ UNCHANGED vars \/ \E c \in {"open",
                 "force", "fetch"} : Call(c)
         PROVE  UNCHANGED <<dump, part, graph, cache>>
  BY <1>Others
     DEF ProcessHit, ProcessMiss, ProbeRemote, DecideStep, HeadDump, KeepDump, ReadEnd,
         CallFails, Tick, Call, Return, Ask, Resolved, diskVars, callVars, vars
<1>Kept. ASSUME UNCHANGED <<dump, part, graph, cache>> PROVE WholeDump'
  BY <1>1, <1>Kept DEF WholeDump, diskVars, callVars
<1> QED
  BY <1>1, <1>LoadCached, <1>RmtreeForced, <1>RmtreeOld, <1>Save, <1>WriteMeta,
     <1>DropDump, <1>NoDump, <1>Get, <1>ReadPiece, <1>RenamePart, <1>Crash, <1>CacheClear,
     <1>Rival, <1>Others, <1>Kept
     DEF Next, Open, Ensure

\* The server's version only grows, so an answer is never ahead of it.
LEMMA AnswerStep == TypeOK /\ StepInv /\ AnswerInv /\ [Next]_vars => AnswerInv'
<1>1. SUFFICES ASSUME TypeOK, StepInv, AnswerInv, [Next]_vars PROVE AnswerInv' OBVIOUS
<1>ProcessHit. CASE ProcessHit
  BY <1>1, <1>ProcessHit, Numbers
     DEF ProcessHit, Return, AnswerInv, StampNotAhead, diskVars, callVars
<1>ProbeRemote. CASE ProbeRemote
  BY <1>1, <1>ProbeRemote, Numbers
     DEF ProbeRemote, Ask, AnswerInv, StampNotAhead, diskVars, callVars
<1>LoadCached. CASE LoadCached
  BY <1>1, <1>LoadCached, Numbers
     DEF LoadCached, Return, AnswerInv, StampNotAhead, diskVars, callVars
<1>RmtreeForced. CASE RmtreeForced
  BY <1>1, <1>RmtreeForced, GraphParts, Numbers
     DEF RmtreeForced, Break, StepInv, TypeOK, AnswerInv, StampNotAhead, diskVars,
         callVars
<1>RmtreeOld. CASE RmtreeOld
  BY <1>1, <1>RmtreeOld, GraphParts, Numbers
     DEF RmtreeOld, Break, TypeOK, AnswerInv, StampNotAhead, diskVars, callVars
<1>Save. CASE Save
  BY <1>1, <1>Save, Numbers DEF Save, AnswerInv, StampNotAhead, diskVars, callVars
<1>WriteMeta. CASE WriteMeta
  BY <1>1, <1>WriteMeta, GraphParts, Numbers
     DEF WriteMeta, Return, StepInv, TypeOK, AnswerInv, StampNotAhead, diskVars, callVars
<1>HeadDump. CASE HeadDump
  BY <1>1, <1>HeadDump, Numbers
     DEF HeadDump, Ask, AnswerInv, StampNotAhead, diskVars, callVars
<1>KeepDump. CASE KeepDump
  BY <1>1, <1>KeepDump, Numbers
     DEF KeepDump, Resolved, Return, Outdated, AnswerInv, StampNotAhead, diskVars,
         callVars
<1>RenamePart. CASE RenamePart
  BY <1>1, <1>RenamePart, Numbers
     DEF RenamePart, Resolved, Return, AnswerInv, StampNotAhead, diskVars, callVars
<1>CallFails. CASE CallFails
  BY <1>1, <1>CallFails, Numbers
     DEF CallFails, Return, AnswerInv, StampNotAhead, diskVars, callVars
<1>Tick. CASE Tick
  BY <1>1, <1>Tick, Numbers
     DEF Tick, TypeOK, Times, AnswerInv, StampNotAhead, diskVars, callVars
<1>Crash. CASE Crash
  BY <1>1, <1>Crash, Numbers DEF Crash, Return, AnswerInv, StampNotAhead, diskVars, callVars
<1>Rival. CASE Rival
  BY <1>1, <1>Rival, NoneAssumption, Numbers
     DEF Rival, TypeOK, AnswerInv, StampNotAhead, diskVars, callVars
<1>Others. ASSUME ProcessMiss \/ DecideStep \/ DropDump \/ NoDump \/ Get \/ ReadPiece \/ ReadEnd \/
                 CacheClear \/ UNCHANGED vars \/ \E c \in {"open", "force", "fetch"}
                 : Call(c)
         PROVE  UNCHANGED <<now, remote, probe, stamp, graph>>
  BY <1>Others
     DEF ProcessMiss, DecideStep, DropDump, NoDump, Get, ReadPiece, ReadEnd, CacheClear,
         Call, diskVars, callVars, vars
<1>Kept. ASSUME UNCHANGED <<now, remote, probe, stamp, graph>> PROVE AnswerInv'
  BY <1>1, <1>Kept DEF AnswerInv, StampNotAhead, diskVars, callVars
<1> QED
  BY <1>1, <1>ProcessHit, <1>ProbeRemote, <1>LoadCached, <1>RmtreeForced, <1>RmtreeOld,
     <1>Save, <1>WriteMeta, <1>HeadDump, <1>KeepDump, <1>RenamePart, <1>CallFails,
     <1>Tick, <1>Crash, <1>Rival, <1>Others, <1>Kept
     DEF Next, Open, Ensure

\* Only a dump older than the cooldown is dropped.
LEMMA SpacingStep == TypeOK /\ StepInv /\ SpacingInv /\ [Next]_vars => SpacingInv'
<1>1. SUFFICES ASSUME TypeOK, StepInv, SpacingInv, [Next]_vars PROVE SpacingInv' OBVIOUS
<1>DropDump. CASE DropDump
  BY <1>1, <1>DropDump, Numbers, NumbersAssumption
     DEF DropDump, Outdated, SpacingInv, Age, diskVars, callVars
<1>RenamePart. CASE RenamePart
  BY <1>1, <1>RenamePart, Numbers, NumbersAssumption
     DEF RenamePart, Resolved, Return, StepInv, SpacingInv, Age, diskVars, callVars
<1>Tick. CASE Tick
  BY <1>1, <1>Tick, Numbers, NumbersAssumption DEF Tick, SpacingInv, Age, diskVars, callVars
<1>Others. ASSUME ProcessHit \/ ProcessMiss \/ ProbeRemote \/ DecideStep \/ LoadCached \/
                 RmtreeForced \/ RmtreeOld \/ Save \/ WriteMeta \/ HeadDump \/
                 KeepDump \/ NoDump \/ Get \/ ReadPiece \/ ReadEnd \/ CallFails \/
                 Crash \/ CacheClear \/ Rival \/ UNCHANGED vars \/ \E c \in {"open",
                 "force", "fetch"} : Call(c)
         PROVE  UNCHANGED <<now, dump, fetched>>
  BY <1>Others
     DEF ProcessHit, ProcessMiss, ProbeRemote, DecideStep, LoadCached, RmtreeForced,
         RmtreeOld, Save, WriteMeta, HeadDump, KeepDump, NoDump, Get, ReadPiece, ReadEnd,
         CallFails, Crash, CacheClear, Rival, Call, Return, Ask, Resolved, diskVars,
         callVars, vars
<1>Kept. ASSUME UNCHANGED <<now, dump, fetched>> PROVE SpacingInv'
  BY <1>1, <1>Kept DEF SpacingInv, Age, diskVars, callVars
<1> QED
  BY <1>1, <1>DropDump, <1>RenamePart, <1>Tick, <1>Others, <1>Kept DEF Next, Open, Ensure

\* A new graph is younger than any cached instance that is left.
LEMMA CacheStep == TypeOK /\ StepInv /\ CacheInv /\ [Next]_vars => CacheInv'
<1>1. SUFFICES ASSUME TypeOK, StepInv, CacheInv, [Next]_vars PROVE CacheInv' OBVIOUS
<1>DecideStep. CASE DecideStep
  BY <1>1, <1>DecideStep, NumbersAssumption, Numbers
     DEF DecideStep, Decide, Age, CacheInv, Rebuilding, diskVars, callVars
<1>LoadCached. CASE LoadCached
  BY <1>1, <1>LoadCached, Graphs, Numbers
     DEF LoadCached, Return, StepInv, TypeOK, CacheInv, Rebuilding, diskVars, callVars
<1>RmtreeForced. CASE RmtreeForced
  <2>1. graph \in Graph /\ pc = "rmtree" BY <1>1, <1>RmtreeForced DEF RmtreeForced, StepInv, TypeOK
  <2>2. CASE graph.whole
    <3>1. graph' = [graph EXCEPT !.whole = FALSE] /\ UNCHANGED <<now, cache, pc, call>>
      BY <1>RmtreeForced, <2>2 DEF RmtreeForced, Break, callVars
    <3>2. graph' # None /\ graph'.at = graph.at /\ graph'.pieces = graph.pieces
      BY <2>1, <3>1, GraphParts, Graphs
    <3> QED BY <1>1, <2>1, <3>1, <3>2, Graphs DEF CacheInv, Rebuilding
  <2>3. CASE ~graph.whole
    BY <1>RmtreeForced, <2>3 DEF RmtreeForced, CacheInv
  <2> QED BY <2>2, <2>3
<1>RmtreeOld. CASE RmtreeOld
  <2>1. graph \in Graph \union {None} /\ pc = "clean" /\ Rebuilding
    BY <1>1, <1>RmtreeOld DEF RmtreeOld, StepInv, TypeOK, Rebuilding
  <2>2. UNCHANGED <<now, cache, call>> BY <1>RmtreeOld DEF RmtreeOld, callVars
  <2>3. cache # None => cache.at < now BY <1>1, <2>1 DEF CacheInv
  <2>4. CASE graph' = graph BY <1>1, <2>2, <2>3, <2>4 DEF CacheInv
  <2>5. CASE graph' = None BY <2>2, <2>3, <2>5 DEF CacheInv
  <2>6. CASE graph # None /\ graph' = [graph EXCEPT !.whole = FALSE]
    <3>1. graph'.at = graph.at /\ graph'.pieces = graph.pieces BY <2>1, <2>6, GraphParts
    <3> QED BY <1>1, <2>2, <2>3, <2>6, <3>1 DEF CacheInv
  <2> QED BY <1>RmtreeOld, <2>4, <2>5, <2>6 DEF RmtreeOld, Break
<1>Save. CASE Save
  <2>1. dump \in File /\ now \in Times /\ Rebuilding
    BY <1>1, <1>Save DEF Save, StepInv, TypeOK, Rebuilding
  <2>2. graph' \in Graph /\ graph'.at = now BY <1>Save, <2>1, Files DEF Save, Graph
  <2>3. pc' = "meta" /\ UNCHANGED <<now, cache>> BY <1>Save DEF Save
  <2>4. cache # None => cache.at < now BY <1>1, <2>1 DEF CacheInv
  <2> QED BY <1>1, <2>2, <2>3, <2>4, Numbers, Graphs DEF CacheInv, Rebuilding
<1>WriteMeta. CASE WriteMeta
  <2>1. graph \in Graph /\ dump \in File BY <1>1, <1>WriteMeta DEF WriteMeta, StepInv, TypeOK
  <2>2. [remote |-> stamp, source |-> dump.at] \in Meta BY <1>1, <2>1, Files DEF TypeOK, Meta
  <2>3. graph' # None /\ graph'.at = graph.at /\ graph'.pieces = graph.pieces
    BY <1>WriteMeta, <2>1, <2>2, GraphParts, Graphs DEF WriteMeta
  <2>4. cache' = [pieces |-> graph.pieces, at |-> graph.at] /\ pc' = "idle"
    BY <1>WriteMeta DEF WriteMeta, Return
  <2>5. graph.at \in Int BY <1>1, <2>1, Numbers, Graphs
  <2> QED BY <2>3, <2>4, <2>5 DEF CacheInv, Rebuilding
<1>Tick. CASE Tick
  BY <1>1, <1>Tick, Numbers DEF Tick, CacheInv, Rebuilding, diskVars, callVars
<1>Crash. CASE Crash
  BY <1>1, <1>Crash, Numbers DEF Crash, Return, CacheInv, Rebuilding, diskVars, callVars
<1>CacheClear. CASE CacheClear
  BY <1>1, <1>CacheClear, Numbers DEF CacheClear, CacheInv, Rebuilding, diskVars, callVars
<1>Rival. CASE Rival
  BY <1>1, <1>Rival, Numbers DEF Rival, CacheInv, Rebuilding, diskVars, callVars
<1>Others. ASSUME ProcessHit \/ ProcessMiss \/ ProbeRemote \/ HeadDump \/ KeepDump \/ DropDump \/
                 NoDump \/ Get \/ ReadPiece \/ ReadEnd \/ RenamePart \/ CallFails \/
                 UNCHANGED vars \/ \E c \in {"open", "force", "fetch"} : Call(c)
         PROVE  UNCHANGED <<now, graph, cache>> /\ (Rebuilding' => Rebuilding)
  BY <1>Others, <1>1
     DEF ProcessHit, ProcessMiss, ProbeRemote, HeadDump, KeepDump, DropDump, NoDump, Get,
         ReadPiece, ReadEnd, RenamePart, CallFails, Call, Return, Ask, Resolved,
         Rebuilding, diskVars, callVars, vars
<1>Kept. ASSUME UNCHANGED <<now, graph, cache>> /\ (Rebuilding' => Rebuilding) PROVE CacheInv'
  BY <1>1, <1>Kept DEF CacheInv, Rebuilding, diskVars, callVars
<1> QED
  BY <1>1, <1>DecideStep, <1>LoadCached, <1>RmtreeForced, <1>RmtreeOld, <1>Save,
     <1>WriteMeta, <1>Tick, <1>Crash, <1>CacheClear, <1>Rival, <1>Others, <1>Kept
     DEF Next, Open, Ensure

\* The invariant, by induction over the steps of the calls and of the world.
THEOREM DumpCorrect == Spec => []IInv
<1>1. Init => IInv
  <2> SUFFICES ASSUME Init PROVE IInv OBVIOUS
  <2>1. 0 \in Times BY NumbersAssumption DEF Times
  <2>2. TypeOK BY <2>1 DEF Init, TypeOK, Steps
  <2>3. StepInv /\ WholeDump BY DEF Init, StepInv, Downloading, WholeDump
  <2>4. AnswerInv /\ SpacingInv /\ CacheInv
    BY DEF Init, AnswerInv, StampNotAhead, SpacingInv, CacheInv
  <2> QED BY <2>2, <2>3, <2>4 DEF IInv
<1>2. IInv /\ [Next]_vars => IInv'
  BY TypeStep, StepsFound, WholeStep, AnswerStep, SpacingStep, CacheStep DEF IInv
<1> QED BY <1>1, <1>2, PTL DEF Spec

\* Every variable holds a value of its kind, for every dump and every clock.
THEOREM TypeCorrect == Spec => []TypeOK
<1>1. IInv => TypeOK BY DEF IInv
<1> QED BY <1>1, DumpCorrect, PTL

\* A dump, a graph and a cached instance are always of a complete download,
\* whenever it was cut, killed or resumed.
THEOREM DumpsWhole == Spec => []WholeDump
<1>1. IInv => WholeDump BY DEF IInv
<1> QED BY <1>1, DumpCorrect, PTL

\* No graph is stamped with a version the server has not published.
THEOREM StampsBehind == Spec => []StampNotAhead
<1>1. IInv => StampNotAhead BY DEF IInv, AnswerInv
<1> QED BY <1>1, DumpCorrect, PTL

\* The process cache hands out the instance of the committed graph only.
THEOREM CacheIsCurrent == Spec => []CacheCurrent
<1>1. IInv => CacheCurrent BY DEF IInv, CacheInv, CacheCurrent, CacheHit
<1> QED BY <1>1, DumpCorrect, PTL

\* Two downloads complete a whole cooldown apart.
THEOREM DownloadSpacing == Spec => DownloadsSpaced
<1>1. IInv /\ [Next]_vars => [fetched' # fetched => fetched = None \/ Age(fetched) >= Cooldown]_vars
  <2>1. ASSUME IInv, Next, fetched' # fetched PROVE RenamePart
    BY <2>1 DEF Next, Open, Ensure, Call, ProcessHit, ProcessMiss, ProbeRemote, DecideStep,
         LoadCached, RmtreeForced, RmtreeOld, Save, WriteMeta, HeadDump, KeepDump, DropDump,
         NoDump, Get, ReadPiece, ReadEnd, CallFails, Tick, Crash, CacheClear, Rival, Ask
  <2>2. ASSUME IInv, RenamePart PROVE fetched = None \/ Age(fetched) >= Cooldown
    BY <2>2 DEF RenamePart, IInv, StepInv, Downloading, SpacingInv
  <2> QED BY <2>1, <2>2 DEF vars
<1> QED BY <1>1, DumpCorrect, PTL DEF Spec, DownloadsSpaced

\* A committed graph is changed only with a complete dump at hand, or on the
\* caller's demand.
THEOREM GraphKept == Spec => RefreshKeepsGraph
<1>1. IInv /\ [Next]_vars =>
        [graph # None /\ graph.whole /\ graph' # graph => call = "force" \/ dump # None]_vars
  <2>1. ASSUME IInv, Next, graph' # graph
        PROVE  RmtreeForced \/ RmtreeOld \/ Save \/ WriteMeta \/ Rival
    BY <2>1 DEF Next, Open, Ensure, Call, ProcessHit, ProcessMiss, ProbeRemote, DecideStep,
         LoadCached, HeadDump, KeepDump, DropDump, NoDump, Get, ReadPiece, ReadEnd, RenamePart,
         CallFails, Tick, Crash, CacheClear, Ask, diskVars
  <2>2. ASSUME IInv, RmtreeForced \/ RmtreeOld \/ Save \/ WriteMeta \/ Rival
        PROVE  call = "force" \/ dump # None
    BY <2>2 DEF IInv, StepInv, RmtreeForced, RmtreeOld, Save, WriteMeta, Rival
  <2> QED BY <2>1, <2>2 DEF vars
<1> QED BY <1>1, DumpCorrect, PTL DEF Spec, RefreshKeepsGraph
=============================================================================
