------------------------- MODULE AgentVersionsProofs -------------------------
(***************************************************************************)
(* Theorems about AgentVersions for any number of versions, revisions,     *)
(* contents and requests.                                                  *)
(***************************************************************************)
EXTENDS AgentVersions, Integers, WellFoundedInduction, TLAPS

(* Versions are numbered without a gap.                                    *)
Numbered == \E n \in 0 .. MaxVersions : Made = 1 .. n

(* The agent and its triggers are on versions there are.                   *)
TiedToMade ==
  /\ current # 0 => current \in Made
  /\ \A t \in Trigger : at[t] # 0 => t \in Made /\ at[t] \in Made

(* A version that is current or that a pass has listed is approved.        *)
InUseApproved ==
  /\ current # 0 => current \in approved
  /\ \A t \in Trigger : listed[t] # 0 => listed[t] \in approved

(* Every version has a row, and every row of it shows its instructions.    *)
RowsMatch ==
  /\ \A v \in Made : \E r \in files : r.version = v
  /\ \A r \in files : r.version # 0 =>
       r.version \in Made /\ r.content = instructions[r.version]

IInv ==
  /\ TypeOK
  /\ Numbered
  /\ TiedToMade
  /\ InUseApproved
  /\ RowsMatch
  /\ TriggersFollowCurrent
  /\ OnlyApprovedRuns

USE DEF Version, Revision, Trigger, AgentStatus

-----------------------------------------------------------------------------
(* The rows of a file.                                                     *)

LEMMA Largest ==
  ASSUME NEW N \in Nat, NEW S \in SUBSET (1 .. N), S # {}
  PROVE  \E x \in S : \A y \in S : y <= x
<1> DEFINE T == {N - k : k \in S}
<1>1. T \subseteq Nat /\ T # {}
  <2>1. \A k \in S : k \in 1 .. N /\ N - k \in Nat
    OBVIOUS
  <2> QED BY <2>1
<1>2. PICK m \in T : \A n \in T : <<n, m>> \notin OpToRel(<, Nat)
  <2>1. \E x \in T : \A y \in T : ~ (<<y, x>> \in OpToRel(<, Nat))
    <3> HIDE DEF T
    <3> QED BY <1>1, NatLessThanWellFounded, WFMin, Zenon
  <2> QED BY <2>1
<1>3. \A n \in T : ~ (n < m)
  BY <1>1, <1>2 DEF OpToRel
<1>4. PICK x \in S : m = N - x
  OBVIOUS
<1>5. \A y \in S : N - y \in T /\ y \in Int /\ x \in Int
  OBVIOUS
<1> QED BY <1>3, <1>4, <1>5

LEMMA LatestIsOne ==
  ASSUME NEW rows \in SUBSET Row, rows # {}
  PROVE  LatestOf(rows) \in rows
<1> DEFINE S == {r.revision : r \in rows}
<1>1. \A r \in rows : r.revision \in 1 .. MaxRevisions
  BY DEF Row
<1>2. S \in SUBSET (1 .. MaxRevisions) /\ S # {}
  BY <1>1
<1>3. MaxRevisions \in Nat
  BY ConstantsAssumption
<1>4. PICK n \in S : \A m \in S : m <= n
  <2> HIDE DEF S
  <2> QED BY <1>2, <1>3, Largest
<1>5. PICK r \in rows : r.revision = n
  OBVIOUS
<1>6. \A x \in rows : x.revision <= r.revision
  BY <1>4, <1>5
<1> QED BY <1>6 DEF LatestOf

LEMMA RowType ==
  ASSUME NEW tied \in BOOLEAN, NEW v \in 0 .. MaxVersions,
         NEW n \in 1 .. MaxRevisions, NEW c \in Content
  PROVE  RowOf(tied, v, n, c) \in Row
BY DEF RowOf, Row

LEMMA RowOfType ==
  ASSUME NEW r \in Row
  PROVE  /\ r.conversation \in BOOLEAN /\ r.version \in 0 .. MaxVersions
         /\ r.revision \in 1 .. MaxRevisions /\ r.content \in Content
BY DEF Row

(* The newest version, and the number of the next.                         *)
LEMMA NewestOfMade ==
  ASSUME NEW n \in 0 .. MaxVersions, Made = 1 .. n
  PROVE  Newest = n
<1> USE ConstantsAssumption
<1>1. CASE n = 0
  BY <1>1 DEF Newest
<1>2. CASE n # 0
  <2>1. n \in 1 .. n /\ \A y \in 1 .. n : n >= y
    BY <1>2
  <2>2. \A x \in 1 .. n : (\A y \in 1 .. n : x >= y) => x = n
    BY <1>2
  <2>3. Max(1 .. n) = n
    BY <2>1, <2>2, <1>2 DEF Max
  <2> QED BY <1>2, <2>3 DEF Newest
<1> QED BY <1>1, <1>2

-----------------------------------------------------------------------------
LEMMA InitEstablishes == Init => IInv
<1> SUFFICES ASSUME Init PROVE IInv
  OBVIOUS
<1> USE ConstantsAssumption DEF Init
<1>1. Made = {}
  BY DEF Made
<1>2. 0 \in 0 .. MaxVersions
  OBVIOUS
<1>3. instructions \in [Version -> Content]
  <2>1. (CHOOSE c \in Content : TRUE) \in Content
    OBVIOUS
  <2> QED BY <2>1
<1>4. /\ manifest \in [Version -> 0 .. MaxVersions]
      /\ at \in [Trigger -> 0 .. MaxVersions]
      /\ used \in [Request -> 0 .. MaxVersions]
      /\ listed \in [Trigger -> 0 .. MaxVersions]
  BY <1>2
<1>5. versions \in [Version -> {"absent", "READY", "DEPLOYED"}]
  OBVIOUS
<1>6. TypeOK
  BY <1>2, <1>3, <1>4, <1>5 DEF TypeOK
<1>7. Numbered
  <2>1. 1 .. 0 = {}
    OBVIOUS
  <2> QED BY <1>1, <1>2, <2>1 DEF Numbered
<1>8. TiedToMade /\ InUseApproved /\ RowsMatch
  BY <1>1 DEF TiedToMade, InUseApproved, RowsMatch
<1>9. TriggersFollowCurrent /\ OnlyApprovedRuns
  BY DEF TriggersFollowCurrent, OnlyApprovedRuns
<1> QED BY <1>6, <1>7, <1>8, <1>9 DEF IInv

LEMMA Types ==
  ASSUME IInv
  PROVE  /\ agent \in AgentStatus /\ current \in 0 .. MaxVersions
         /\ current = 0 => agent \in {"DRAFT", "DELETED"}
         /\ versions \in [Version -> {"absent", "READY", "DEPLOYED"}]
         /\ instructions \in [Version -> Content]
         /\ manifest \in [Version -> 0 .. MaxVersions]
         /\ approved \subseteq Version
         /\ at \in [Trigger -> 0 .. MaxVersions]
         /\ enabled \subseteq Trigger
         /\ files \subseteq Row
         /\ kept \in BOOLEAN
         /\ used \in [Request -> 0 .. MaxVersions]
         /\ listed \in [Trigger -> 0 .. MaxVersions]
         /\ ran \subseteq Version
BY DEF IInv, TypeOK

-----------------------------------------------------------------------------
(* Steps that touch the rows of the file only.                             *)

LEMMA FilesKeep ==
  ASSUME IInv, files' \subseteq Row, kept' \in BOOLEAN,
         \A v \in Made : \E r \in files' : r.version = v,
         \A r \in files' : r.version # 0 =>
           r.version \in Made /\ r.content = instructions[r.version],
         UNCHANGED <<definition, version, triggers, used, listed, ran>>
  PROVE  IInv'
<1>1. UNCHANGED <<agent, current, versions, instructions, manifest, approved,
                  at, enabled, used, listed, ran>>
  BY DEF definition, version, triggers
<1>2. Made' = Made
  BY <1>1 DEF Made
<1>3. TypeOK'
  BY <1>1, Types DEF TypeOK
<1>4. Numbered'
  BY <1>2 DEF IInv, Numbered
<1>5. TiedToMade' /\ InUseApproved'
  BY <1>1, <1>2 DEF IInv, TiedToMade, InUseApproved
<1>6. RowsMatch'
  BY <1>1, <1>2 DEF RowsMatch
<1>7. TriggersFollowCurrent' /\ OnlyApprovedRuns'
  BY <1>1 DEF IInv, TriggersFollowCurrent, OnlyApprovedRuns
<1> QED BY <1>3, <1>4, <1>5, <1>6, <1>7 DEF IInv

LEMMA RowsKnown ==
  ASSUME IInv
  PROVE  /\ \A v \in Made : \E r \in files : r.version = v
         /\ \A r \in files : r.version # 0 =>
              r.version \in Made /\ r.content = instructions[r.version]
         /\ 0 \notin Made /\ Made \subseteq Version
BY ConstantsAssumption DEF IInv, RowsMatch, Made

LEMMA NewRowFields ==
  ASSUME NextRevision \in Revision, NEW v \in 0 .. MaxVersions, NEW c \in Content
  PROVE  NewRow(v, c) \in Row /\ NewRow(v, c).version = v /\ NewRow(v, c).content = c
<1>1. NextRevision \in 1 .. MaxRevisions /\ TRUE \in BOOLEAN
  OBVIOUS
<1>2. RowOf(TRUE, v, NextRevision, c) \in Row
  BY <1>1, RowType, Zenon
<1>3. /\ RowOf(TRUE, v, NextRevision, c).version = v
      /\ RowOf(TRUE, v, NextRevision, c).content = c
  BY DEF RowOf
<1> QED BY <1>2, <1>3 DEF NewRow

LEMMA WriteArtifactKeeps ==
  ASSUME IInv, NEW c \in Content, WriteArtifact(c)
  PROVE  IInv'
<1>1. files' = files \cup {NewRow(0, c)} /\ kept' = kept
      /\ UNCHANGED <<definition, version, triggers, used, listed, ran>>
  BY DEF WriteArtifact
<1>2. NewRow(0, c) \in Row /\ NewRow(0, c).version = 0
  BY NewRowFields, ConstantsAssumption DEF WriteArtifact
<1>3. files' \subseteq Row /\ kept' \in BOOLEAN
  BY <1>1, <1>2, Types
<1>4. \A v \in Made : \E r \in files' : r.version = v
  BY <1>1, RowsKnown
<1>5. \A r \in files' : r.version # 0 =>
        r.version \in Made /\ r.content = instructions[r.version]
  BY <1>1, <1>2, RowsKnown
<1> QED BY <1>1, <1>3, <1>4, <1>5, FilesKeep

LEMMA RemoveConversationKeeps ==
  ASSUME IInv, RemoveConversation
  PROVE  IInv'
<1>1. /\ kept' = FALSE
      /\ files' = {RowOf(FALSE, r.version, r.revision, r.content) :
                     r \in {f \in files : f.version # 0}}
      /\ UNCHANGED <<definition, version, triggers, used, listed, ran>>
  BY DEF RemoveConversation
<1>2. \A r \in files :
        /\ RowOf(FALSE, r.version, r.revision, r.content) \in Row
        /\ RowOf(FALSE, r.version, r.revision, r.content).version = r.version
        /\ RowOf(FALSE, r.version, r.revision, r.content).content = r.content
  <2> SUFFICES ASSUME NEW r \in files
               PROVE  /\ RowOf(FALSE, r.version, r.revision, r.content) \in Row
                      /\ RowOf(FALSE, r.version, r.revision, r.content).version = r.version
                      /\ RowOf(FALSE, r.version, r.revision, r.content).content = r.content
    OBVIOUS
  <2>1. r \in Row
    BY Types
  <2>2. r.version \in 0 .. MaxVersions /\ r.revision \in 1 .. MaxRevisions /\ r.content \in Content
    BY <2>1, RowOfType
  <2>3. RowOf(FALSE, r.version, r.revision, r.content) \in Row
    BY <2>2, FALSE \in BOOLEAN, RowType, Zenon
  <2>4. /\ RowOf(FALSE, r.version, r.revision, r.content).version = r.version
        /\ RowOf(FALSE, r.version, r.revision, r.content).content = r.content
    BY DEF RowOf
  <2> QED BY <2>3, <2>4
<1>3. files' \subseteq Row
  BY <1>1, <1>2
<1>4. \A v \in Made : \E r \in files' : r.version = v
  <2> SUFFICES ASSUME NEW v \in Made PROVE \E r \in files' : r.version = v
    OBVIOUS
  <2>1. PICK r \in files : r.version = v
    BY RowsKnown
  <2>2. r.version # 0
    BY <2>1, RowsKnown
  <2>3. RowOf(FALSE, r.version, r.revision, r.content) \in files'
    BY <1>1, <2>2
  <2> QED BY <1>2, <2>1, <2>3
<1>5. \A r \in files' : r.version # 0 =>
        r.version \in Made /\ r.content = instructions[r.version]
  <2> SUFFICES ASSUME NEW x \in files', x.version # 0
               PROVE  x.version \in Made /\ x.content = instructions[x.version]
    OBVIOUS
  <2>1. PICK r \in files : x = RowOf(FALSE, r.version, r.revision, r.content)
    BY <1>1
  <2>2. x.version = r.version /\ x.content = r.content
    BY <1>2, <2>1
  <2> QED BY <2>2, RowsKnown
<1> QED BY <1>1, <1>3, <1>4, <1>5, FilesKeep

(* A snapshot of version v adds nothing but a row of v that shows c.       *)
LEMMA SnapshotRows ==
  ASSUME IInv, NextRevision \in Revision, NEW v \in Version, NEW c \in Content
  PROVE  /\ Snapshot(v, c) \subseteq Row
         /\ \E r \in Snapshot(v, c) : r.version = v
         /\ \A r \in Snapshot(v, c) :
              r \in files \/ (r.version = v /\ r.content = c)
         /\ \A r \in files : r.version # 0 => r \in Snapshot(v, c)
<1> DEFINE latest == LatestOf(InConversation)
<1>1. InConversation \subseteq files /\ files \subseteq Row
  BY Types DEF InConversation
<1>2. InConversation # {} => latest \in files /\ latest \in Row
  BY <1>1, LatestIsOne
<1>3. v \in 0 .. MaxVersions
  OBVIOUS
<1>4. CASE InConversation # {} /\ latest.content = c /\ latest.version = v
  BY <1>1, <1>2, <1>4 DEF Snapshot
<1>5. CASE InConversation # {} /\ latest.content = c /\ latest.version = 0
  <2>1. latest.version # v
    BY <1>5
  <2>2. Snapshot(v, c) = (files \ {latest}) \cup {RowOf(TRUE, v, latest.revision, c)}
    BY <1>5, <2>1 DEF Snapshot
  <2>3. latest.revision \in 1 .. MaxRevisions
    BY <1>2, <1>5, RowOfType
  <2>4. /\ RowOf(TRUE, v, latest.revision, c) \in Row
        /\ RowOf(TRUE, v, latest.revision, c).version = v
        /\ RowOf(TRUE, v, latest.revision, c).content = c
    <3> HIDE DEF latest
    <3>1. RowOf(TRUE, v, latest.revision, c) \in Row
      BY <1>3, <2>3, TRUE \in BOOLEAN, RowType, Zenon
    <3>2. /\ RowOf(TRUE, v, latest.revision, c).version = v
          /\ RowOf(TRUE, v, latest.revision, c).content = c
      BY DEF RowOf
    <3> QED BY <3>1, <3>2
  <2> QED BY <1>1, <1>5, <2>2, <2>4
<1>6. CASE ~ (InConversation # {} /\ latest.content = c /\ latest.version \in {0, v})
  <2>1. Snapshot(v, c) = files \cup {NewRow(v, c)}
    BY <1>6 DEF Snapshot
  <2>2. NewRow(v, c) \in Row /\ NewRow(v, c).version = v /\ NewRow(v, c).content = c
    BY <1>3, NewRowFields
  <2> QED BY <1>1, <2>1, <2>2
<1> QED BY <1>4, <1>5, <1>6

LEMMA SaveDraftAgainKeeps ==
  ASSUME IInv, NEW c \in Content, SaveDraftAgain(c)
  PROVE  IInv'
<1>1. /\ NextRevision \in Revision /\ Newest # 0
      /\ versions[Newest] = "READY" /\ instructions[Newest] = c
      /\ files' = Snapshot(Newest, c) /\ kept' = kept
      /\ UNCHANGED <<definition, version, triggers, used, listed, ran>>
  BY DEF SaveDraftAgain
<1>2. Newest \in Made /\ Newest \in Version
  <2>1. PICK n \in 0 .. MaxVersions : Made = 1 .. n
    BY DEF IInv, Numbered
  <2>2. Newest = n
    BY <2>1, NewestOfMade
  <2> QED BY <1>1, <2>1, <2>2
<1>3. /\ files' \subseteq Row
      /\ \A r \in files' : r \in files \/ (r.version = Newest /\ r.content = c)
      /\ \A r \in files : r.version # 0 => r \in files'
  BY <1>1, <1>2, SnapshotRows
<1>4. \A v \in Made : \E r \in files' : r.version = v
  BY <1>3, RowsKnown
<1>5. \A r \in files' : r.version # 0 =>
        r.version \in Made /\ r.content = instructions[r.version]
  BY <1>1, <1>2, <1>3, RowsKnown
<1>6. kept' \in BOOLEAN
  BY <1>1, Types
<1> QED BY <1>1, <1>3, <1>4, <1>5, <1>6, FilesKeep

-----------------------------------------------------------------------------
(* Steps that add a version.                                               *)

LEMMA VersionAdded ==
  ASSUME IInv, NEW v, v = Newest + 1, NEW status \in {"READY", "DEPLOYED"},
         NEW c \in Content, NEW lists \in 0 .. MaxVersions, NEW approves,
         AddVersion(v, status, c, lists, approves)
  PROVE  /\ v \in Version /\ v \notin Made /\ v # 0
         /\ Made' = Made \cup {v} /\ Numbered'
         /\ versions' \in [Version -> {"absent", "READY", "DEPLOYED"}]
         /\ instructions' \in [Version -> Content]
         /\ manifest' \in [Version -> 0 .. MaxVersions]
         /\ approved' \subseteq Version /\ approved \subseteq approved'
         /\ approves => v \in approved'
         /\ instructions'[v] = c
         /\ \A w \in Made : instructions'[w] = instructions[w]
<1> USE ConstantsAssumption
<1>1. PICK n \in 0 .. MaxVersions : Made = 1 .. n
  BY DEF IInv, Numbered
<1>2. v = n + 1 /\ v \in Version
  BY <1>1, NewestOfMade DEF AddVersion
<1>3. n + 1 \in 0 .. MaxVersions /\ 1 .. n + 1 = (1 .. n) \cup {n + 1}
      /\ n + 1 \notin 1 .. n
  BY <1>2
<1>4. /\ versions' = [versions EXCEPT ![v] = status]
      /\ instructions' = [instructions EXCEPT ![v] = c]
      /\ manifest' = [manifest EXCEPT ![v] = lists]
      /\ approved' = IF approves THEN approved \cup {v} ELSE approved
  BY DEF AddVersion
<1>5. /\ versions \in [Version -> {"absent", "READY", "DEPLOYED"}]
      /\ instructions \in [Version -> Content]
      /\ manifest \in [Version -> 0 .. MaxVersions]
      /\ approved \subseteq Version
  BY Types
<1>6. Made' = Made \cup {v}
  <2> SUFFICES ASSUME NEW w \in Version
               PROVE  versions'[w] # "absent" <=> versions[w] # "absent" \/ w = v
    BY <1>2 DEF Made
  <2> QED BY <1>2, <1>4, <1>5
<1>7. Numbered'
  BY <1>1, <1>2, <1>3, <1>6 DEF Numbered
<1>8. \A w \in Made : w \in Version /\ w # v
  BY <1>1, <1>2, <1>3
<1>9. /\ versions' \in [Version -> {"absent", "READY", "DEPLOYED"}]
      /\ instructions' \in [Version -> Content]
      /\ manifest' \in [Version -> 0 .. MaxVersions]
  BY <1>2, <1>4, <1>5
<1>10. /\ approved' \subseteq Version /\ approved \subseteq approved'
       /\ approves => v \in approved'
  BY <1>2, <1>4, <1>5
<1>11. /\ instructions'[v] = c
       /\ \A w \in Made : instructions'[w] = instructions[w]
  BY <1>2, <1>4, <1>5, <1>8
<1> QED BY <1>1, <1>2, <1>3, <1>6, <1>7, <1>9, <1>10, <1>11

LEMMA SaveDraftKeeps ==
  ASSUME IInv, NEW c \in Content, SaveDraft(c)
  PROVE  IInv'
<1> DEFINE v == Newest + 1
<1>1. /\ agent # "DELETED" /\ NextRevision \in Revision
      /\ AddVersion(v, "READY", c, v, FALSE)
      /\ at' = [at EXCEPT ![v] = v] /\ enabled' = enabled
      /\ files' = Snapshot(v, c)
      /\ UNCHANGED <<agent, current, kept, used, listed, ran>>
  BY DEF SaveDraft, definition, EnabledOnDraft
<1>2. v \in 0 .. MaxVersions
  BY <1>1, ConstantsAssumption DEF AddVersion
<1>3. /\ v \in Version /\ v \notin Made /\ v # 0
      /\ Made' = Made \cup {v} /\ Numbered'
      /\ versions' \in [Version -> {"absent", "READY", "DEPLOYED"}]
      /\ instructions' \in [Version -> Content]
      /\ manifest' \in [Version -> 0 .. MaxVersions]
      /\ approved' \subseteq Version /\ approved \subseteq approved'
      /\ instructions'[v] = c
      /\ \A w \in Made : instructions'[w] = instructions[w]
  BY <1>1, <1>2, VersionAdded
<1> HIDE DEF v
<1>4. /\ files' \subseteq Row
      /\ \E r \in files' : r.version = v
      /\ \A r \in files' : r \in files \/ (r.version = v /\ r.content = c)
      /\ \A r \in files : r.version # 0 => r \in files'
  BY <1>1, <1>3, SnapshotRows
<1>5. at' \in [Trigger -> 0 .. MaxVersions]
  BY <1>1, <1>2, <1>3, Types
<1>6. TypeOK'
  BY <1>1, <1>3, <1>4, <1>5, Types DEF TypeOK
<1>7. TiedToMade'
  <2>1. TiedToMade
    BY DEF IInv
  <2>2. \A t \in Trigger : at'[t] # 0 => t \in Made' /\ at'[t] \in Made'
    BY <1>1, <1>3, <2>1, Types DEF TiedToMade
  <2> QED BY <1>1, <1>3, <2>1, <2>2 DEF TiedToMade
<1>8. InUseApproved'
  BY <1>1, <1>3 DEF IInv, InUseApproved
<1>9. RowsMatch'
  <2>1. \A w \in Made' : \E r \in files' : r.version = w
    BY <1>3, <1>4, RowsKnown
  <2>2. \A r \in files' : r.version # 0 =>
          r.version \in Made' /\ r.content = instructions'[r.version]
    BY <1>3, <1>4, RowsKnown
  <2> QED BY <2>1, <2>2 DEF RowsMatch
<1>10. TriggersFollowCurrent'
  <2>1. TriggersFollowCurrent /\ TiedToMade
    BY DEF IInv
  <2>2. current # v /\ (current # 0 => \A t \in Trigger : at[t] = current => t # v)
    BY <1>3, <2>1 DEF TiedToMade
  <2>3. current # 0 => {t \in Trigger : at'[t] = current} = {t \in Trigger : at[t] = current}
    BY <1>1, <1>3, <2>2, Types
  <2> QED BY <1>1, <2>1, <2>3 DEF TriggersFollowCurrent
<1>11. OnlyApprovedRuns'
  BY <1>1, <1>3 DEF IInv, OnlyApprovedRuns
<1> QED BY <1>3, <1>6, <1>7, <1>8, <1>9, <1>10, <1>11 DEF IInv

LEMMA EditKeeps ==
  ASSUME IInv, NEW q \in Request, NEW c \in Content, current # 0, Edit(q, c, c)
  PROVE  IInv'
<1> DEFINE v == Newest + 1
           approves == current \in approved
           row == RowOf(FALSE, v, LatestOf(FileOf(current)).revision, c)
<1>1. /\ agent # "DELETED"
      /\ AddVersion(v, versions[current], c, manifest[current], approves)
      /\ files' = files \cup {row}
      /\ current' = v
      /\ at' = [t \in Trigger |-> IF at[t] = current THEN v ELSE at[t]]
      /\ used' = [used EXCEPT ![q] = v]
      /\ UNCHANGED <<agent, enabled, kept, listed, ran>>
  BY DEF Edit, Carried, Repointed
<1>2. TiedToMade /\ TriggersFollowCurrent /\ InUseApproved
  BY DEF IInv
<1>3. /\ current \in Made /\ current \in Version /\ approves
      /\ versions[current] \in {"READY", "DEPLOYED"}
      /\ manifest[current] \in 0 .. MaxVersions
  BY <1>2, Types DEF TiedToMade, InUseApproved, Made
<1>4. /\ v \in Version /\ v \notin Made /\ v # 0
      /\ Made' = Made \cup {v} /\ Numbered'
      /\ versions' \in [Version -> {"absent", "READY", "DEPLOYED"}]
      /\ instructions' \in [Version -> Content]
      /\ manifest' \in [Version -> 0 .. MaxVersions]
      /\ approved' \subseteq Version /\ approved \subseteq approved'
      /\ approves => v \in approved'
      /\ instructions'[v] = c
      /\ \A w \in Made : instructions'[w] = instructions[w]
  <2> HIDE DEF approves
  <2> QED BY <1>1, <1>3, VersionAdded
<1>5. row \in Row /\ row.version = v /\ row.content = c
  <2>1. FileOf(current) \in SUBSET Row /\ FileOf(current) # {}
    BY <1>3, RowsKnown, Types DEF FileOf
  <2>2. LatestOf(FileOf(current)) \in Row
    BY <2>1, LatestIsOne
  <2>3. LatestOf(FileOf(current)).revision \in 1 .. MaxRevisions
    BY <2>2, RowOfType
  <2>4. v \in 0 .. MaxVersions
    BY <1>4
  <2>5. row \in Row
    BY <2>3, <2>4, FALSE \in BOOLEAN, RowType, Zenon
  <2>6. row.version = v /\ row.content = c
    BY DEF RowOf
  <2> QED BY <2>5, <2>6
<1> HIDE DEF v, row, approves
<1>6. v \in 0 .. MaxVersions
  BY <1>4
<1>7. at' \in [Trigger -> 0 .. MaxVersions] /\ used' \in [Request -> 0 .. MaxVersions]
  BY <1>1, <1>6, Types
<1>8. files' \subseteq Row
  BY <1>1, <1>5, Types
<1>9. TypeOK'
  BY <1>1, <1>4, <1>6, <1>7, <1>8, Types DEF TypeOK
<1>10. TiedToMade'
  <2>1. \A t \in Trigger : at'[t] # 0 => t \in Made' /\ at'[t] \in Made'
    BY <1>1, <1>2, <1>3, <1>4, Types DEF TiedToMade
  <2> QED BY <1>1, <1>4, <2>1 DEF TiedToMade
<1>11. InUseApproved'
  BY <1>1, <1>2, <1>3, <1>4 DEF InUseApproved
<1>12. RowsMatch'
  <2>1. \A w \in Made' : \E r \in files' : r.version = w
    BY <1>1, <1>4, <1>5, RowsKnown
  <2>2. \A r \in files' : r.version # 0 =>
          r.version \in Made' /\ r.content = instructions'[r.version]
    BY <1>1, <1>4, <1>5, RowsKnown
  <2> QED BY <2>1, <2>2 DEF RowsMatch
<1>13. TriggersFollowCurrent'
  <2>1. \A t \in Trigger : at[t] # v
    BY <1>2, <1>4 DEF TiedToMade
  <2>2. {t \in Trigger : at'[t] = v} = {t \in Trigger : at[t] = current}
    BY <1>1, <2>1
  <2> QED BY <1>1, <1>2, <1>4, <2>2 DEF TriggersFollowCurrent
<1>14. OnlyApprovedRuns'
  BY <1>1, <1>4 DEF IInv, OnlyApprovedRuns
<1> QED BY <1>4, <1>9, <1>10, <1>11, <1>12, <1>13, <1>14 DEF IInv

LEMMA EditingKeeps ==
  ASSUME IInv, NEW q \in Request, Editing(q)
  PROVE  IInv'
<1>1. CASE Revise(q)
  <2>1. current # 0
        /\ Edit(q, instructions[current], LatestOf(FileOf(current)).content)
    BY <1>1 DEF Revise
  <2>2. current \in Made /\ current \in Version
    BY <2>1, RowsKnown DEF IInv, TiedToMade
  <2>3. FileOf(current) \in SUBSET Row /\ FileOf(current) # {}
    BY <2>2, RowsKnown, Types DEF FileOf
  <2>4. LatestOf(FileOf(current)) \in FileOf(current)
    BY <2>3, LatestIsOne
  <2>5. LatestOf(FileOf(current)).content = instructions[current]
    BY <2>1, <2>4, RowsKnown DEF FileOf
  <2>6. instructions[current] \in Content
    BY <2>2, Types
  <2> QED BY <2>1, <2>5, <2>6, EditKeeps
<1>2. CASE \E c \in Content : SaveFile(q, c)
  BY <1>2, EditKeeps DEF SaveFile
<1> QED BY <1>1, <1>2 DEF Editing

-----------------------------------------------------------------------------
(* Deployment, status and runs: the versions stay what they are.           *)

LEMMA DeployKeeps ==
  ASSUME IInv, NEW q \in Request, NEW v \in Version, Deploy(q, v)
  PROVE  IInv'
<1>1. /\ v \in Made
      /\ versions' = [w \in Version |-> IF w = v THEN "DEPLOYED"
                                       ELSE IF versions[w] = "DEPLOYED" THEN "READY"
                                       ELSE versions[w]]
      /\ approved' = approved \cup {v}
      /\ current' = v /\ agent' = "LIVE"
      /\ enabled' = {t \in Trigger : at[t] = v}
      /\ used' = [used EXCEPT ![q] = v]
      /\ UNCHANGED <<instructions, manifest, at, files, kept, listed, ran>>
  BY DEF Deploy, ApprovedOnDeploy
<1>2. v \in 0 .. MaxVersions /\ v # 0
  OBVIOUS
<1>3. versions' \in [Version -> {"absent", "READY", "DEPLOYED"}]
      /\ \A w \in Version : versions'[w] = "absent" <=> versions[w] = "absent"
  <2>1. versions \in [Version -> {"absent", "READY", "DEPLOYED"}]
    BY Types
  <2> QED BY <1>1, <2>1 DEF Made
<1>4. Made' = Made
  BY <1>3 DEF Made
<1>5. used' \in [Request -> 0 .. MaxVersions]
  BY <1>1, <1>2, Types
<1>6. TypeOK'
  BY <1>1, <1>2, <1>3, <1>5, Types DEF TypeOK
<1>7. Numbered' /\ RowsMatch'
  BY <1>1, <1>4 DEF IInv, Numbered, RowsMatch
<1>8. TiedToMade' /\ InUseApproved'
  BY <1>1, <1>4 DEF IInv, TiedToMade, InUseApproved
<1>9. TriggersFollowCurrent' /\ OnlyApprovedRuns'
  BY <1>1, <1>2 DEF IInv, TriggersFollowCurrent, OnlyApprovedRuns
<1> QED BY <1>6, <1>7, <1>8, <1>9 DEF IInv

(* A step that changes the agent's status, its triggers' or what passes    *)
(* know, and nothing else.                                                 *)
LEMMA StatusKeeps ==
  ASSUME IInv, agent' \in AgentStatus, current = 0 => agent' \in {"DRAFT", "DELETED"},
         enabled' \subseteq Trigger, TriggersFollowCurrent',
         listed' \in [Trigger -> 0 .. MaxVersions],
         \A t \in Trigger : listed'[t] # 0 => listed'[t] \in approved,
         ran' \subseteq approved,
         UNCHANGED <<current, version, at, files, kept, used>>
  PROVE  IInv'
<1>1. UNCHANGED <<versions, instructions, manifest, approved>>
  BY DEF version
<1>2. Made' = Made
  BY <1>1 DEF Made
<1>3. TypeOK'
  BY <1>1, Types DEF TypeOK
<1>4. Numbered' /\ RowsMatch'
  BY <1>1, <1>2 DEF IInv, Numbered, RowsMatch
<1>5. TiedToMade' /\ InUseApproved' /\ OnlyApprovedRuns'
  BY <1>1, <1>2 DEF IInv, TiedToMade, InUseApproved, OnlyApprovedRuns
<1> QED BY <1>3, <1>4, <1>5 DEF IInv

LEMMA Listed ==
  ASSUME IInv
  PROVE  /\ \A t \in Trigger : listed[t] # 0 => listed[t] \in approved
         /\ ran \subseteq approved
         /\ current # 0 => current \in approved
         /\ TriggersFollowCurrent
BY DEF IInv, InUseApproved, OnlyApprovedRuns

LEMMA StatusesKeep ==
  ASSUME IInv, Statuses
  PROVE  IInv'
<1>1. CASE \E from \in SUBSET {"LIVE", "PAUSED", "ARCHIVED"}, to \in {"LIVE", "PAUSED", "ARCHIVED"} :
             ChangeStatus(from, to)
  <2>1. PICK from \in SUBSET {"LIVE", "PAUSED", "ARCHIVED"} :
          \E to \in {"LIVE", "PAUSED", "ARCHIVED"} : ChangeStatus(from, to)
    BY <1>1
  <2>2. PICK to \in {"LIVE", "PAUSED", "ARCHIVED"} : ChangeStatus(from, to)
    BY <2>1
  <2>3. /\ agent \in {"LIVE", "PAUSED", "ARCHIVED"} /\ agent' \in {"LIVE", "PAUSED", "ARCHIVED"}
        /\ UNCHANGED <<current, version, at, enabled, files, kept, used, listed, ran>>
    BY <2>2 DEF ChangeStatus, triggers
  <2>4. current # 0
    BY <2>3, Types
  <2>5. TriggersFollowCurrent'
    BY <2>3, Listed DEF TriggersFollowCurrent
  <2> QED BY <2>3, <2>4, <2>5, StatusKeeps, Listed, Types
<1>2. CASE Remove
  <2>1. /\ agent' = "DELETED" /\ enabled' = {}
        /\ UNCHANGED <<current, version, at, files, kept, used, listed, ran>>
    BY <1>2 DEF Remove
  <2>2. TriggersFollowCurrent'
    BY <2>1 DEF TriggersFollowCurrent
  <2> QED BY <2>1, <2>2, StatusKeeps, Listed, Types
<1> QED BY <1>1, <1>2 DEF Statuses, Pause, Resume, Archive, Restore, Restorable

LEMMA QueueingKeeps ==
  ASSUME IInv, Queueing
  PROVE  IInv'
<1>1. CASE ListTriggers
  <2>1. /\ agent = "LIVE"
        /\ listed' = [t \in Trigger |-> IF t \in enabled THEN at[t] ELSE 0]
        /\ UNCHANGED <<agent, current, version, at, enabled, files, kept, used, ran>>
    BY <1>1 DEF ListTriggers, definition, triggers
  <2>2. current # 0 /\ \A t \in enabled : at[t] = current
    BY <2>1, Listed, Types DEF TriggersFollowCurrent
  <2>3. 0 \in 0 .. MaxVersions
    BY ConstantsAssumption
  <2>4. listed' \in [Trigger -> 0 .. MaxVersions]
    BY <2>1, <2>3, Types
  <2>5. \A t \in Trigger : listed'[t] # 0 => listed'[t] \in approved
    BY <2>1, <2>2, Listed
  <2>6. TriggersFollowCurrent'
    BY <2>1, Listed DEF TriggersFollowCurrent
  <2> QED BY <2>1, <2>4, <2>5, <2>6, StatusKeeps, Listed, Types
<1>2. CASE \E t \in Trigger : QueueRun(t)
  <2>1. PICK t \in Trigger : QueueRun(t)
    BY <1>2
  <2>2. /\ listed[t] # 0 /\ listed' = [listed EXCEPT ![t] = 0]
        /\ ran' \in {ran, ran \cup {listed[t]}}
        /\ UNCHANGED <<agent, current, version, at, enabled, files, kept, used>>
    BY <2>1 DEF QueueRun, definition, triggers
  <2>3. 0 \in 0 .. MaxVersions
    BY ConstantsAssumption
  <2>4. listed' \in [Trigger -> 0 .. MaxVersions]
    BY <2>2, <2>3, Types
  <2>5. \A u \in Trigger : listed'[u] # 0 => listed'[u] \in approved
    BY <2>2, Listed, Types
  <2>6. ran' \subseteq approved
    BY <2>2, Listed
  <2>7. TriggersFollowCurrent'
    BY <2>2, Listed DEF TriggersFollowCurrent
  <2> QED BY <2>2, <2>4, <2>5, <2>6, <2>7, StatusKeeps, Types
<1>3. CASE RunNow
  <2>1. /\ current # 0 /\ ran' = ran \cup {current}
        /\ UNCHANGED <<agent, current, version, at, enabled, files, kept, used, listed>>
    BY <1>3 DEF RunNow, definition, triggers
  <2>2. TriggersFollowCurrent'
    BY <2>1, Listed DEF TriggersFollowCurrent
  <2> QED BY <2>1, <2>2, StatusKeeps, Listed, Types
<1> QED BY <1>1, <1>2, <1>3 DEF Queueing

LEMMA StepKeeps == IInv /\ [Next]_vars => IInv'
<1> SUFFICES ASSUME IInv, [Next]_vars PROVE IInv'
  OBVIOUS
<1>1. CASE Building
  BY <1>1, WriteArtifactKeeps, RemoveConversationKeeps, SaveDraftKeeps,
     SaveDraftAgainKeeps DEF Building
<1>2. CASE Statuses
  BY <1>2, StatusesKeep
<1>3. CASE Queueing
  BY <1>3, QueueingKeeps
<1>4. CASE \E q \in Request : Editing(q) \/ \E v \in Version : Deploy(q, v)
  BY <1>4, EditingKeeps, DeployKeeps
<1>5. CASE UNCHANGED vars
  <2>1. UNCHANGED <<agent, current, version, at, enabled, files, kept, used, listed, ran>>
    BY <1>5 DEF vars, version
  <2>2. TriggersFollowCurrent'
    BY <2>1, Listed DEF TriggersFollowCurrent
  <2> QED BY <2>1, <2>2, StatusKeeps, Listed, Types
<1> QED BY <1>1, <1>2, <1>3, <1>4, <1>5 DEF Next

-----------------------------------------------------------------------------
(* The theorems.                                                           *)

(* The invariant: versions are numbered without a gap, what is in use is   *)
(* approved, every row of a version shows its instructions.                *)
THEOREM Invariant == Spec => []IInv
BY InitEstablishes, StepKeeps, PTL DEF Spec

(* Every variable keeps its type; an agent that left DRAFT and was not     *)
(* deleted has a version.                                                  *)
THEOREM TypeCorrect == Spec => []TypeOK
<1>1. IInv => TypeOK
  BY DEF IInv
<1> QED BY Invariant, <1>1, PTL

(* The enabled triggers are those of the current version.                  *)
THEOREM TriggersFollow == Spec => []TriggersFollowCurrent
<1>1. IInv => TriggersFollowCurrent
  BY DEF IInv
<1> QED BY Invariant, <1>1, PTL

(* Runs are queued with approved versions only, however old the list of    *)
(* triggers a pass works from.                                             *)
THEOREM ApprovedRuns == Spec => []OnlyApprovedRuns
<1>1. IInv => OnlyApprovedRuns
  BY DEF IInv
<1> QED BY Invariant, <1>1, PTL

(* The latest file row of every version says what the version runs with.   *)
THEOREM FilesMatch == Spec => []FilesMatchVersions
<1>1. IInv => FilesMatchVersions
  <2> SUFFICES ASSUME IInv, NEW v \in Made
               PROVE  /\ FileOf(v) # {}
                      /\ LatestOf(FileOf(v)).content = instructions[v]
    BY DEF FilesMatchVersions
  <2>1. FileOf(v) # {} /\ FileOf(v) \in SUBSET Row
    BY RowsKnown, Types DEF FileOf
  <2>2. LatestOf(FileOf(v)) \in FileOf(v)
    BY <2>1, LatestIsOne
  <2>3. v # 0
    BY RowsKnown
  <2> QED BY <2>1, <2>2, <2>3, RowsKnown DEF FileOf
<1> QED BY Invariant, <1>1, PTL

(* What makes another version current is a request that was not served     *)
(* before: a retry never undoes what came after it.                        *)
THEOREM RetriesChange == Spec => RetriesChangeNothing
<1> DEFINE Served == current' # current =>
                       \E q \in Request : used[q] = 0 /\ used'[q] = current'
<1>1. IInv /\ [Next]_vars => Served
  <2> SUFFICES ASSUME IInv, [Next]_vars, current' # current
               PROVE  \E q \in Request : used[q] = 0 /\ used'[q] = current'
    OBVIOUS
  <2>1. CASE Building \/ Statuses \/ Queueing \/ UNCHANGED vars
    BY <2>1 DEF Building, Statuses, Queueing, WriteArtifact, RemoveConversation,
       SaveDraft, SaveDraftAgain, Pause, Resume, Archive, Restore, Remove,
       ChangeStatus, ListTriggers, QueueRun, RunNow, definition, vars
  <2>2. CASE \E q \in Request : Editing(q) \/ \E v \in Version : Deploy(q, v)
    <3>1. PICK q \in Request : Editing(q) \/ \E v \in Version : Deploy(q, v)
      BY <2>2
    <3>2. used[q] = 0 /\ \E v : current' = v /\ used' = [used EXCEPT ![q] = v]
      BY <3>1 DEF Editing, Revise, SaveFile, Edit, Deploy, Fresh
    <3> QED BY <3>2, Types
  <2> QED BY <2>1, <2>2 DEF Next
<1>2. Served => [Served]_vars
  OBVIOUS
<1> QED BY Invariant, <1>1, <1>2, PTL DEF Spec, RetriesChangeNothing
=============================================================================
