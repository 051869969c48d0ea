----------------------------- MODULE HostsFile ------------------------------
(***************************************************************************)
(* hosts.json (src/hosts.rs): the host inventory and the daemon's policy,  *)
(* in one file that MCP tool calls, remote starts and an operator's editor *)
(* rewrite with no lock.  A writer loads the whole file, changes its copy  *)
(* and replaces the whole file by a temporary one; it may be killed before *)
(* the replacement, and a failed save is ignored.  The editor is outside   *)
(* the code: it may replace the file or write it in place, and leave it    *)
(* half-written.                                                           *)
(*                                                                         *)
(* `stale` remembers of every writer whether somebody else changed the     *)
(* file after it loaded it.                                                *)
(***************************************************************************)
EXTENDS Naturals

CONSTANTS
    Proc,           \* tool calls and remote starts
    Host, NoHost,   \* names of hosts, and none
    Versions,       \* versions daemons report; "" when they report none
    MaxOps,         \* bound on the operations begun
    MaxEdits        \* bound on the operator's edits

ASSUME HostsConstants ==
    /\ "" \in Versions /\ Versions # {""} /\ NoHost \notin Host
    /\ MaxOps \in Nat /\ MaxEdits \in Nat

\* HostInfo.  `known`: the host has an entry; `connected` stands for
\* last_connected, "bad" for every text that is_valid_uid rejects.
HostInfo == [known : BOOLEAN, connected : BOOLEAN, description : {"", "text"},
             uid : {"", "good", "bad"}, version : Versions]
NoEntry == [known |-> FALSE, connected |-> FALSE, description |-> "",
            uid |-> "", version |-> ""]

\* HostsConfig.  policy: policy.unattended_eligible.
HostsConfig == [hosts : [Host -> HostInfo], policy : BOOLEAN]

\* (for mutation) a default that permits
DefaultEligible == [hosts |-> [h \in Host |-> NoEntry], policy |-> TRUE]

DefaultConfig == [hosts |-> [h \in Host |-> NoEntry], policy |-> FALSE]

\* touch_host (and what is left of run_remote once the uid is known),
\* update_host, run_remote.
Operation == [kind : {"touch", "update", "remote"}, host : Host]

NoOperation == [kind |-> "none", host |-> NoHost]

VARIABLES
    file,        \* [state, config]: "absent", "partial" or "whole"
    pc,          \* "idle", "ssh", "save", "rename"
    op,          \* the operation of each process
    copy,        \* its HostsConfig
    stale,
    uidUsed,     \* the uid it would put into ssh's -L argument
    editor,      \* "closed", "open", "writing", "died"
    draft,       \* what the editor will write
    enabled,     \* the operator has permitted unattended execution at some time
    eligible,    \* ServerConfig.unattended_eligible of the last daemon started
    ops, edits

counters == <<ops, edits>>
editing  == <<editor, draft, enabled>>
calls    == <<pc, op, copy, uidUsed>>
vars     == <<file, calls, stale, editing, eligible, counters>>

----------------------------------------------------------------------------
Whole(config) == [state |-> "whole", config |-> config]
Partial == [state |-> "partial", config |-> DefaultConfig]

\* HostsConfig::load: a file that is missing or does not parse is a default.
Load == IF file.state = "whole" THEN file.config ELSE DefaultConfig

\* Whoever changes the file makes every other loaded copy stale.
Changed(by) == stale' = [p \in Proc |-> pc[p] # "idle" /\ (stale[p] \/ p \notin by)]

\* The call ends, and its copy with it.
Finish(p) ==
    /\ pc' = [pc EXCEPT ![p] = "idle"]
    /\ op' = [op EXCEPT ![p] = NoOperation]
    /\ copy' = [copy EXCEPT ![p] = DefaultConfig]
    /\ uidUsed' = [uidUsed EXCEPT ![p] = ""]

Entry(config, h, info) == [config EXCEPT !.hosts[h] = info]

\* (for mutation) a grant given at a prompt is persisted with the entry
TouchPersistingGrant(config, h) ==
    [config EXCEPT !.hosts[h].known = TRUE, !.hosts[h].connected = TRUE,
                   !.policy = TRUE]

Touch(config, h) ==
    Entry(config, h, [config.hosts[h] EXCEPT !.known = TRUE, !.connected = TRUE])

\* (for mutation) an empty version is recorded like any other
RecordAnyVersion(config, h, v) ==
    Entry(config, h, [config.hosts[h] EXCEPT !.known = TRUE, !.version = v])

RecordVersion(config, h, v) ==
    IF v = "" THEN config
    ELSE Entry(config, h, [config.hosts[h] EXCEPT !.known = TRUE, !.version = v])

Describe(config, h) ==
    Entry(config, h, [config.hosts[h] EXCEPT !.known = TRUE, !.description = "text"])

\* (for mutation) the text ssh printed, with its newline
RecordUidUntrimmed(config, h) ==
    Entry(config, h, [config.hosts[h] EXCEPT !.known = TRUE, !.uid = "good\n"])

RecordUid(config, h) ==
    Entry(config, h, [config.hosts[h] EXCEPT !.known = TRUE, !.uid = "good"])

\* What earlier runs leave: a file or none, a host with everything known, or
\* with the uid of an older build.
KnownEntry(uid) == [known |-> TRUE, connected |-> TRUE, description |-> "text",
                    uid |-> uid, version |-> CHOOSE v \in Versions : v # ""]

Init ==
    /\ \/ file = [state |-> "absent", config |-> DefaultConfig]
       \/ \E h \in Host, uid \in {"good", "bad"} :
            file = Whole(Entry(DefaultConfig, h, KnownEntry(uid)))
    /\ pc = [p \in Proc |-> "idle"]
    /\ op = [p \in Proc |-> NoOperation]
    /\ copy = [p \in Proc |-> DefaultConfig]
    /\ stale = [p \in Proc |-> FALSE]
    /\ uidUsed = [p \in Proc |-> ""]
    /\ editor = "closed" /\ draft = DefaultConfig /\ enabled = FALSE
    /\ eligible = FALSE
    /\ ops = 0 /\ edits = 0

----------------------------------------------------------------------------
(* The tool calls and `sudo-proxy --host`.                                 *)

Begin(p, o) ==
    /\ pc[p] = "idle" /\ ops < MaxOps
    /\ ops' = ops + 1
    /\ op' = [op EXCEPT ![p] = o]
    /\ stale' = [stale EXCEPT ![p] = FALSE]
    /\ UNCHANGED <<file, editing, eligible, edits>>

BeginTouch(p) ==
    /\ \E h \in Host, v \in Versions :
         /\ Begin(p, [kind |-> "touch", host |-> h])
         /\ copy' = [copy EXCEPT ![p] = RecordVersion(Touch(Load, h), h, v)]
    /\ pc' = [pc EXCEPT ![p] = "save"]
    /\ uidUsed' = [uidUsed EXCEPT ![p] = ""]

BeginUpdate(p) ==
    /\ \E h \in Host :
         /\ Begin(p, [kind |-> "update", host |-> h])
         /\ copy' = [copy EXCEPT ![p] = Describe(Load, h)]
    /\ pc' = [pc EXCEPT ![p] = "save"]
    /\ uidUsed' = [uidUsed EXCEPT ![p] = ""]

\* (for mutation) whatever the cache holds is used
AnyCachedUid(uid) == uid # ""

ValidUid(uid) == uid = "good"

\* resolve_uid: a valid cached uid is used at once, anything else is asked for
\* over ssh, which takes as long as the human types a password.
BeginRemote(p) ==
    \E h \in Host :
        LET uid == Load.hosts[h].uid IN
        \/ /\ ValidUid(uid)
           /\ Begin(p, [kind |-> "touch", host |-> h])
           /\ copy' = [copy EXCEPT ![p] = Touch(Load, h)]
           /\ pc' = [pc EXCEPT ![p] = "save"]
           /\ uidUsed' = [uidUsed EXCEPT ![p] = uid]
        \/ /\ ~ValidUid(uid)
           /\ Begin(p, [kind |-> "remote", host |-> h])
           /\ copy' = [copy EXCEPT ![p] = Load]
           /\ pc' = [pc EXCEPT ![p] = "ssh"]
           /\ uidUsed' = [uidUsed EXCEPT ![p] = ""]

\* The answer is recorded and saved; the touch before ssh is saved after it,
\* from the same copy.
SshAnswers(p) ==
    /\ pc[p] = "ssh"
    /\ \E uid \in {"good", "bad", ""} :
         \/ /\ uid = "good"
            /\ copy' = [copy EXCEPT ![p] = RecordUid(@, op[p].host)]
            /\ pc' = [pc EXCEPT ![p] = "save"]
            /\ uidUsed' = [uidUsed EXCEPT ![p] = uid]
            /\ UNCHANGED op
         \/ uid # "good" /\ Finish(p)
    /\ UNCHANGED <<file, stale, editing, eligible, counters>>

\* (for mutation) the file itself is truncated and written
WriteInPlace(p) ==
    /\ pc[p] = "save"
    /\ pc' = [pc EXCEPT ![p] = "rename"]
    /\ file' = Partial /\ Changed({p})
    /\ UNCHANGED <<op, copy, uidUsed, editing, eligible, counters>>

\* save_to up to sync_all: a temporary file of this call's own name.
WriteTemporary(p) ==
    /\ pc[p] = "save"
    /\ pc' = [pc EXCEPT ![p] = "rename"]
    /\ UNCHANGED <<file, op, copy, uidUsed, stale, editing, eligible, counters>>

\* After resolve_uid's save comes the touch of run_remote, and its save.
AfterSave(p) ==
    IF op[p].kind = "remote"
    THEN /\ pc' = [pc EXCEPT ![p] = "save"]
         /\ op' = [op EXCEPT ![p].kind = "touch"]
         /\ copy' = [copy EXCEPT ![p] = Touch(@, op[p].host)]
         /\ UNCHANGED uidUsed
    ELSE Finish(p)

Rename(p) ==
    /\ pc[p] = "rename"
    /\ file' = Whole(copy[p]) /\ Changed({p})
    /\ AfterSave(p)
    /\ UNCHANGED <<editing, eligible, counters>>

\* save ignores what save_to returns: the disk is full, the directory is gone.
SaveFails(p) ==
    /\ pc[p] \in {"save", "rename"}
    /\ AfterSave(p)
    /\ UNCHANGED <<file, stale, editing, eligible, counters>>

Killed(p) ==
    /\ pc[p] # "idle"
    /\ Finish(p)
    /\ UNCHANGED <<file, stale, editing, eligible, counters>>

----------------------------------------------------------------------------
(* The operator, and a daemon's start.                                     *)

EditorOpens ==
    /\ editor \in {"closed", "died"} /\ edits < MaxEdits
    /\ edits' = edits + 1
    /\ editor' = "open"
    /\ \E policy \in BOOLEAN :
         /\ draft' = [Load EXCEPT !.policy = policy]
         /\ enabled' = (enabled \/ policy)
    /\ UNCHANGED <<file, calls, stale, eligible, ops>>

EditorTruncates ==
    /\ editor = "open"
    /\ editor' = "writing"
    /\ file' = Partial /\ Changed({})
    /\ UNCHANGED <<calls, draft, enabled, eligible, counters>>

\* By a rename from "open", or the end of a write in place.
EditorSaves ==
    /\ editor \in {"open", "writing"}
    /\ editor' = "closed"
    /\ file' = Whole(draft) /\ Changed({})
    /\ draft' = DefaultConfig
    /\ UNCHANGED <<calls, enabled, eligible, counters>>

EditorDies ==
    /\ editor \in {"open", "writing"}
    /\ editor' = "died" /\ draft' = DefaultConfig
    /\ UNCHANGED <<file, calls, stale, enabled, eligible, counters>>

\* main: the command line decides, else the policy in the file, once.
DaemonStarts ==
    /\ \E flag \in {"on", "off", "unset"} :
         /\ eligible' = CASE flag = "on" -> TRUE [] flag = "off" -> FALSE
                          [] OTHER -> Load.policy
         /\ enabled' = (enabled \/ flag = "on")
    /\ UNCHANGED <<file, calls, stale, editor, draft, counters>>

Next ==
    \/ \E p \in Proc :
         \/ BeginTouch(p) \/ BeginUpdate(p) \/ BeginRemote(p) \/ SshAnswers(p)
         \/ WriteTemporary(p) \/ Rename(p) \/ SaveFails(p) \/ Killed(p)
    \/ EditorOpens \/ EditorTruncates \/ EditorSaves \/ EditorDies
    \/ DaemonStarts

Spec == Init /\ [][Next]_vars

----------------------------------------------------------------------------
\* The type invariant.
TypeOK ==
    /\ file \in [state : {"absent", "partial", "whole"}, config : HostsConfig]
    /\ pc \in [Proc -> {"idle", "ssh", "save", "rename"}]
    /\ op \in [Proc -> Operation \cup {NoOperation}]
    /\ copy \in [Proc -> HostsConfig] /\ stale \in [Proc -> BOOLEAN]
    /\ uidUsed \in [Proc -> {"", "good", "bad"}]
    /\ editor \in {"closed", "open", "writing", "died"} /\ draft \in HostsConfig
    /\ enabled \in BOOLEAN /\ eligible \in BOOLEAN

\* No process of the code tears the file, whenever it is killed: only an
\* operator's editor that writes in place leaves it half-written.
NeverTorn == file.state = "partial" => editor # "closed"

\* Nothing but the operator ever permits unattended execution: not a missing
\* or half-written file, not a lost update, not a default.
EligibleOnlyByOperator ==
    eligible \/ file.config.policy => enabled

\* No corrupt uid, cached by an older build or edited by hand, reaches ssh's
\* arguments.
UidUsedIsValid == \A p \in Proc : uidUsed[p] # "bad"

Renames(p) == pc[p] = "rename" /\ pc'[p] # "rename" /\ file' # file

\* What an operation does not set, of its own host or of another one, its save
\* leaves as it was, and no version or uid it knows is forgotten, unless
\* somebody changed the file between its load and its save.
OthersChangesKept ==
    [][\A p \in Proc : Renames(p) /\ ~stale[p] =>
         LET old == file.config.hosts  new == file'.config.hosts  h == op[p].host IN
         /\ file'.config.policy = file.config.policy
         /\ \A g \in Host \ {h} : new[g] = old[g]
         /\ old[h].version # "" => new[h].version # ""
         /\ old[h].uid = "good" => new[h].uid = "good"
         /\ old[h].description # "" => new[h].description # ""]_vars

\* A policy the operator withdrew comes back only by a save whose copy is older
\* than the withdrawal.
PolicyRaisedOnlyByOverlap ==
    [][~file.config.policy /\ file'.config.policy =>
         \/ editor \in {"open", "writing"} /\ editor' = "closed"
         \/ \E p \in Proc : Renames(p) /\ stale[p]]_vars
=============================================================================
