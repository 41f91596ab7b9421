---------------------------- MODULE AgentVersions -----------------------------
(***************************************************************************)
(* The versions of one team agent: its builder conversation drafts them    *)
(* (builder-runtime.ts), people deploy them, edit the files and settings   *)
(* of the current one and change the agent's status                        *)
(* (agent-definitions.service.ts), and the agent's triggers and people     *)
(* queue runs of them (custom-agent-dispatch.ts, agent-runs.service.ts).   *)
(*                                                                         *)
(* A version is its number, which is given under the agent's lock.  Of a   *)
(* version's content only its instructions are kept, with the file that    *)
(* shows them; each draft comes with one trigger, named by its draft.      *)
(***************************************************************************)
EXTENDS Naturals, FiniteSetsExt

CONSTANTS
  MaxVersions,  \* bound on the versions of the agent
  MaxRevisions, \* bound on the revisions of the file in the conversation
  Content,      \* what the instructions may say
  Request       \* client request ids of deployments and edits

ASSUME ConstantsAssumption ==
  MaxVersions \in Nat \ {0} /\ MaxRevisions \in Nat \ {0} /\ Content # {}

Version  == 1 .. MaxVersions
Revision == 1 .. MaxRevisions
Trigger  == Version

VARIABLES
  agent,    \* status of the agent
  current,  \* its currentVersionId; 0 for none
  versions, \* status of each version
  instructions, \* of each version
  manifest, \* the trigger each version's manifest lists; 0 for no version
  approved, \* the versions with an approvedAt
  at,       \* versionId of each trigger; 0 for none
  enabled,  \* the enabled triggers
  files,    \* the rows of agentBuilderArtifact for the instructions
  kept,     \* the builder conversation has not been removed
  used,     \* the version a request id deployed or made; 0 for none
  listed,   \* the version a pass read of each due trigger; 0 for none
  ran       \* the versions runs were queued with

vars == <<agent, current, versions, instructions, manifest, approved, at,
          enabled, files, kept, used, listed, ran>>
definition == <<agent, current>>
version    == <<versions, instructions, manifest, approved>>
triggers   == <<at, enabled>>

AgentStatus == {"DRAFT", "LIVE", "PAUSED", "ARCHIVED", "DELETED"}

(* A row is WRITING exactly while it has no version.                       *)
Row == [conversation : BOOLEAN, version : 0 .. MaxVersions, revision : Revision,
        content : Content]

(* Types; an agent that left DRAFT and was not deleted has a version.      *)
TypeOK ==
  /\ agent \in AgentStatus
  /\ current \in 0 .. MaxVersions
  /\ current = 0 => agent \in {"DRAFT", "DELETED"}
  /\ versions \in [Version -> {"absent", "READY", "DEPLOYED"}]
  /\ instructions \in [Version -> Content]
  /\ manifest \in [Version -> 0 .. MaxVersions]
  /\ approved \subseteq Version
  /\ at \in [Trigger -> 0 .. MaxVersions]
  /\ enabled \subseteq Trigger
  /\ files \subseteq Row
  /\ kept \in BOOLEAN
  /\ used \in [Request -> 0 .. MaxVersions]
  /\ listed \in [Trigger -> 0 .. MaxVersions]
  /\ ran \subseteq Version

Made == {v \in Version : versions[v] # "absent"}

-----------------------------------------------------------------------------
(* Rows of the file.                                                       *)

LatestOf(rows) == CHOOSE r \in rows : \A x \in rows : x.revision <= r.revision

InConversation == {r \in files : r.conversation}
FileOf(v)      == {r \in files : r.version = v}

NextRevision ==
  IF InConversation = {} THEN 1 ELSE LatestOf(InConversation).revision + 1

RowOf(tied, v, n, c) ==
  [conversation |-> tied, version |-> v, revision |-> n, content |-> c]

NewRow(v, c) == RowOf(TRUE, v, NextRevision, c)

(* persistArtifactSnapshots: version v shows c.                            *)
Snapshot(v, c) ==
  LET latest == LatestOf(InConversation) IN
  IF InConversation # {} /\ latest.content = c /\ latest.version = v
  THEN files
  ELSE IF InConversation # {} /\ latest.content = c /\ latest.version = 0
       THEN (files \ {latest}) \cup {RowOf(TRUE, v, latest.revision, c)}
       ELSE files \cup {NewRow(v, c)}

(* Fault: the copy goes to the new version with its old content.           *)
CarriedUnedited(v, c) ==
  LET r == LatestOf(FileOf(current)) IN {RowOf(FALSE, v, r.revision, r.content)}

(* carryArtifactsForward, then the edit of the copied row.                 *)
Carried(v, c) == {RowOf(FALSE, v, LatestOf(FileOf(current)).revision, c)}

(* writeBuilderArtifact: the session writes the file before it saves.      *)
WriteArtifact(c) ==
  /\ kept /\ NextRevision \in Revision
  /\ InConversation # {} => LatestOf(InConversation).content # c
  /\ files' = files \cup {NewRow(0, c)}
  /\ UNCHANGED <<definition, version, triggers, kept, used, listed, ran>>

(* Removing the conversation deletes its unsaved rows and unties the rest. *)
RemoveConversation ==
  /\ kept /\ kept' = FALSE
  /\ files' = {RowOf(FALSE, r.version, r.revision, r.content) :
                 r \in {f \in files : f.version # 0}}
  /\ UNCHANGED <<definition, version, triggers, used, listed, ran>>

-----------------------------------------------------------------------------
(* Drafts and edits.                                                       *)

Newest == IF Made = {} THEN 0 ELSE Max(Made)

AddVersion(v, status, c, lists, approves) ==
  /\ v \in Version
  /\ versions' = [versions EXCEPT ![v] = status]
  /\ instructions' = [instructions EXCEPT ![v] = c]
  /\ manifest' = [manifest EXCEPT ![v] = lists]
  /\ approved' = IF approves THEN approved \cup {v} ELSE approved

(* Fault: a draft's triggers start enabled.                                *)
EnabledOnDraftAll(v) == enabled \cup {v}

EnabledOnDraft(v) == enabled

(* saveBuilderDraft with something new.                                    *)
SaveDraft(c) ==
  LET v == Newest + 1 IN
  /\ kept /\ agent # "DELETED" /\ NextRevision \in Revision
  /\ AddVersion(v, "READY", c, v, FALSE)
  /\ at' = [at EXCEPT ![v] = v] /\ enabled' = EnabledOnDraft(v)
  /\ files' = Snapshot(v, c)
  /\ UNCHANGED <<definition, kept, used, listed, ran>>

(* ... or with what its newest version holds already.                      *)
SaveDraftAgain(c) ==
  /\ kept /\ agent # "DELETED" /\ NextRevision \in Revision
  /\ Newest # 0 /\ versions[Newest] = "READY" /\ instructions[Newest] = c
  /\ files' = Snapshot(Newest, c)
  /\ UNCHANGED <<definition, version, triggers, kept, used, listed, ran>>

(* Fault: the audit log is not asked for the request first.                *)
FreshUnasked(q) == TRUE

(* The request has not been served yet.                                    *)
Fresh(q) == used[q] = 0

(* Fault: an edit leaves the triggers on the version it replaces.          *)
RepointedNot(v) == at

Repointed(v) == [t \in Trigger |-> IF at[t] = current THEN v ELSE at[t]]

(* saveFile and revise copy the current version, its status and approval   *)
(* included, make the copy current and move the triggers to it.            *)
Edit(q, c, shown) ==
  LET v == Newest + 1 IN
  /\ agent # "DELETED" /\ Fresh(q)
  /\ AddVersion(v, versions[current], c, manifest[current], current \in approved)
  /\ files' = files \cup Carried(v, shown)
  /\ current' = v
  /\ at' = Repointed(v)
  /\ used' = [used EXCEPT ![q] = v]
  /\ UNCHANGED <<agent, enabled, kept, listed, ran>>

SaveFile(q, c) ==
  current # 0 /\ c # LatestOf(FileOf(current)).content /\ Edit(q, c, c)

(* revise changes the settings and carries the file as it is.              *)
Revise(q) ==
  /\ current # 0
  /\ Edit(q, instructions[current], LatestOf(FileOf(current)).content)

-----------------------------------------------------------------------------
(* Deployment and status.                                                  *)

(* Fault: a deployment does not stamp its version approved.                *)
ApprovedOnDeployNot(v) == approved

ApprovedOnDeploy(v) == approved \cup {v}

Deploy(q, v) ==
  /\ agent # "DELETED" /\ Fresh(q) /\ v \in Made
  /\ versions' = [w \in Version |-> IF w = v THEN "DEPLOYED"
                                    ELSE IF versions[w] = "DEPLOYED" THEN "READY"
                                    ELSE versions[w]]
  /\ approved' = ApprovedOnDeploy(v)
  /\ current' = v /\ agent' = "LIVE"
  /\ enabled' = {t \in Trigger : at[t] = v}
  /\ used' = [used EXCEPT ![q] = v]
  /\ UNCHANGED <<instructions, manifest, at, files, kept, listed, ran>>

ChangeStatus(from, to) ==
  /\ agent \in from /\ agent' = to
  /\ UNCHANGED <<current, version, triggers, files, kept, used, listed, ran>>

Restorable == {"ARCHIVED"}

Pause   == ChangeStatus({"LIVE"}, "PAUSED")
Resume  == ChangeStatus({"PAUSED"}, "LIVE")
Archive == ChangeStatus({"LIVE", "PAUSED"}, "ARCHIVED")
Restore == ChangeStatus(Restorable, "PAUSED")

Remove ==
  /\ agent # "DELETED" /\ agent' = "DELETED"
  /\ enabled' = {}
  /\ UNCHANGED <<current, version, at, files, kept, used, listed, ran>>

-----------------------------------------------------------------------------
(* Runs.  queueDueAgentRuns and queueEventAgentRuns read the triggers      *)
(* once, and look at each again in the transaction that queues its run.    *)

ListTriggers ==
  /\ agent = "LIVE" /\ \A t \in Trigger : listed[t] = 0
  /\ listed' = [t \in Trigger |-> IF t \in enabled THEN at[t] ELSE 0]
  /\ UNCHANGED <<definition, version, triggers, files, kept, used, ran>>

Eligible(t) == agent = "LIVE" /\ t \in enabled

QueueRun(t) ==
  /\ listed[t] # 0 /\ listed' = [listed EXCEPT ![t] = 0]
  /\ ran' = IF Eligible(t) THEN ran \cup {listed[t]} ELSE ran
  /\ UNCHANGED <<definition, version, triggers, files, kept, used>>

RunNow ==
  /\ agent = "LIVE" /\ current # 0
  /\ ran' = ran \cup {current}
  /\ UNCHANGED <<definition, version, triggers, files, kept, used, listed>>

-----------------------------------------------------------------------------
Init ==
  /\ agent = "DRAFT" /\ current = 0
  /\ versions = [v \in Version |-> "absent"]
  /\ instructions = [v \in Version |-> CHOOSE c \in Content : TRUE]
  /\ manifest = [v \in Version |-> 0]
  /\ approved = {}
  /\ at = [t \in Trigger |-> 0] /\ enabled = {}
  /\ files = {} /\ kept = TRUE
  /\ used = [q \in Request |-> 0]
  /\ listed = [t \in Trigger |-> 0] /\ ran = {}

Building == \/ RemoveConversation
            \/ \E c \in Content : WriteArtifact(c) \/ SaveDraft(c) \/ SaveDraftAgain(c)
Editing(q)   == Revise(q) \/ \E c \in Content : SaveFile(q, c)
Statuses     == Pause \/ Resume \/ Archive \/ Restore \/ Remove
Queueing     == ListTriggers \/ RunNow \/ \E t \in Trigger : QueueRun(t)

Next ==
  \/ Building \/ Statuses \/ Queueing
  \/ \E q \in Request : Editing(q) \/ \E v \in Version : Deploy(q, v)

Spec == Init /\ [][Next]_vars

-----------------------------------------------------------------------------
(* The enabled triggers are those of the current version, through every    *)
(* order of drafts, edits, deployments and returns to older versions; a    *)
(* deleted agent has none.                                                 *)
TriggersFollowCurrent ==
  enabled = IF agent = "DELETED" \/ current = 0 THEN {}
            ELSE {t \in Trigger : at[t] = current}

(* Runs are queued with approved versions only: a pass that read its       *)
(* triggers before an edit or a deployment queues what was approved then.  *)
OnlyApprovedRuns == ran \subseteq approved

(* The file a person reads and edits says what the version runs with.      *)
FilesMatchVersions ==
  \A v \in Made : FileOf(v) # {} /\ LatestOf(FileOf(v)).content = instructions[v]

(* A retried request changes nothing: it never undoes a later deployment   *)
(* or edit whose answer arrived first.                                     *)
RetriesChangeNothing ==
  [][current' # current => \E q \in Request : used[q] = 0 /\ used'[q] = current']_vars

(* Deployment enables every trigger on the approved version, as            *)
(* docs/agent.md says.  The code falls short of it: the trigger a version  *)
(* came with follows the versions edited since, and is disabled when the   *)
(* older version is deployed again.                                        *)
DeployEnablesTriggers ==
  [][\A v \in Version :
       (\E q \in Request : Deploy(q, v)) => manifest[v] \in enabled']_vars
=============================================================================
