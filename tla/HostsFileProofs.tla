--------------------------- MODULE HostsFileProofs ---------------------------
(***************************************************************************)
(* Theorems about HostsFile, for any number of writers and hosts and       *)
(* without its bounds.                                                     *)
(***************************************************************************)
EXTENDS HostsFile, TLAPS

----------------------------------------------------------------------------
(* What the operators on a HostsConfig do.                                 *)

\* `new` is what one writer may make of `old` by its operation on host h: the
\* policy and the other hosts are as they were, and nothing known of h is lost.
Extends(new, old, h) ==
    /\ new.policy = old.policy
    /\ \A g \in Host \ {h} : new.hosts[g] = old.hosts[g]
    /\ old.hosts[h].version # "" => new.hosts[h].version # ""
    /\ old.hosts[h].uid = "good" => new.hosts[h].uid = "good"
    /\ old.hosts[h].description # "" => new.hosts[h].description # ""

\* The default is a HostsConfig without permission.
LEMMA DefaultType == DefaultConfig \in HostsConfig /\ ~DefaultConfig.policy
BY HostsConstants DEF DefaultConfig, NoEntry, HostsConfig, HostInfo

\* Setting one entry sets that entry alone.
LEMMA EntryContract ==
    ASSUME NEW config \in HostsConfig, NEW h \in Host, NEW info \in HostInfo
    PROVE  /\ Entry(config, h, info) \in HostsConfig
           /\ Entry(config, h, info).policy = config.policy
           /\ Entry(config, h, info).hosts[h] = info
           /\ \A g \in Host \ {h} : Entry(config, h, info).hosts[g] = config.hosts[g]
BY DEF Entry, HostsConfig

\* An entry that forgets nothing of the old one extends the config.
LEMMA EntryExtends ==
    ASSUME NEW config \in HostsConfig, NEW h \in Host, NEW info \in HostInfo,
           config.hosts[h].version # "" => info.version # "",
           config.hosts[h].uid = "good" => info.uid = "good",
           config.hosts[h].description # "" => info.description # ""
    PROVE  Entry(config, h, info) \in HostsConfig /\ Extends(Entry(config, h, info), config, h)
<1>1. Entry(config, h, info) \in HostsConfig
  BY EntryContract
<1>2. Extends(Entry(config, h, info), config, h)
  BY EntryContract, ZenonT(60) DEF Extends
<1> QED
  BY <1>1, <1>2

\* touch, record_version, update_host and resolve_uid extend what they start
\* from (hosts.rs, mcp.rs).
LEMMA TouchContract ==
    ASSUME NEW config \in HostsConfig, NEW h \in Host
    PROVE  Touch(config, h) \in HostsConfig /\ Extends(Touch(config, h), config, h)
<1> DEFINE info == [config.hosts[h] EXCEPT !.known = TRUE, !.connected = TRUE]
<1>1. config.hosts[h] \in HostInfo
  BY DEF HostsConfig
<1>2. /\ info \in HostInfo /\ info.version = config.hosts[h].version
      /\ info.uid = config.hosts[h].uid /\ info.description = config.hosts[h].description
  BY <1>1 DEF HostInfo
<1>3. Touch(config, h) = Entry(config, h, info)
  BY DEF Touch
<1> HIDE DEF info
<1> QED
  BY <1>2, <1>3, EntryExtends

LEMMA RecordVersionContract ==
    ASSUME NEW config \in HostsConfig, NEW h \in Host, NEW v \in Versions
    PROVE  /\ RecordVersion(config, h, v) \in HostsConfig
           /\ Extends(RecordVersion(config, h, v), config, h)
<1> DEFINE info == [config.hosts[h] EXCEPT !.known = TRUE, !.version = v]
<1>1. config.hosts[h] \in HostInfo
  BY DEF HostsConfig
<1>2. /\ info \in HostInfo /\ info.version = v
      /\ info.uid = config.hosts[h].uid /\ info.description = config.hosts[h].description
  BY <1>1 DEF HostInfo
<1>3. CASE v = ""
  BY <1>3 DEF RecordVersion, Extends
<1>4. CASE v # ""
  <2>1. RecordVersion(config, h, v) = Entry(config, h, info)
    BY <1>4 DEF RecordVersion
  <2> HIDE DEF info
  <2> QED
    BY <1>2, <1>4, <2>1, EntryExtends
<1> QED
  BY <1>3, <1>4

LEMMA DescribeContract ==
    ASSUME NEW config \in HostsConfig, NEW h \in Host
    PROVE  Describe(config, h) \in HostsConfig /\ Extends(Describe(config, h), config, h)
<1> DEFINE info == [config.hosts[h] EXCEPT !.known = TRUE, !.description = "text"]
<1>1. config.hosts[h] \in HostInfo
  BY DEF HostsConfig
<1>2. /\ info \in HostInfo /\ info.version = config.hosts[h].version
      /\ info.uid = config.hosts[h].uid /\ info.description = "text"
  BY <1>1 DEF HostInfo
<1>3. Describe(config, h) = Entry(config, h, info)
  BY DEF Describe
<1> HIDE DEF info
<1> QED
  BY <1>2, <1>3, EntryExtends

LEMMA RecordUidContract ==
    ASSUME NEW config \in HostsConfig, NEW h \in Host
    PROVE  RecordUid(config, h) \in HostsConfig /\ Extends(RecordUid(config, h), config, h)
<1> DEFINE info == [config.hosts[h] EXCEPT !.known = TRUE, !.uid = "good"]
<1>1. config.hosts[h] \in HostInfo
  BY DEF HostsConfig
<1>2. /\ info \in HostInfo /\ info.version = config.hosts[h].version
      /\ info.uid = "good" /\ info.description = config.hosts[h].description
  BY <1>1 DEF HostInfo
<1>3. RecordUid(config, h) = Entry(config, h, info)
  BY DEF RecordUid
<1> HIDE DEF info
<1> QED
  BY <1>2, <1>3, EntryExtends

\* Two operations on one host, one after the other.
LEMMA ExtendsTransitive ==
    ASSUME NEW a, NEW b, NEW c, NEW h \in Host, Extends(b, a, h), Extends(c, b, h)
    PROVE  Extends(c, a, h)
BY DEF Extends

----------------------------------------------------------------------------
(* The inductive invariant.                                                *)

\* Load reads the default unless the file is whole.
UnreadableIsDefault == file.state # "whole" => file.config = DefaultConfig

\* No copy permits what the operator has not: neither the file's nor one a
\* process or the editor will write.
PolicyInv ==
    /\ eligible \/ file.config.policy \/ draft.policy => enabled
    /\ \A p \in Proc : copy[p].policy => enabled

\* A call that is under way has an operation.
OpInv == \A p \in Proc : pc[p] # "idle" => op[p] \in Operation

\* A copy that is not stale is the file with the process's own changes.
CopyInv == \A p \in Proc :
    pc[p] # "idle" /\ ~stale[p] =>
        /\ pc[p] = "ssh" => copy[p] = file.config
        /\ pc[p] # "ssh" => Extends(copy[p], file.config, op[p].host)

IInv ==
    /\ TypeOK
    /\ UnreadableIsDefault
    /\ NeverTorn
    /\ PolicyInv
    /\ UidUsedIsValid
    /\ OpInv
    /\ CopyInv

LEMMA LoadIsFile == ASSUME UnreadableIsDefault PROVE Load = file.config
BY DEF Load, UnreadableIsDefault

LEMMA ExtendsItself == ASSUME NEW c, NEW h PROVE Extends(c, c, h)
BY DEF Extends

\* The file of earlier runs permits nothing.
LEMMA InitInv == Init => IInv
<1> SUFFICES ASSUME Init PROVE IInv
  OBVIOUS
<1>1. DefaultConfig \in HostsConfig /\ ~DefaultConfig.policy
  BY DefaultType
<1>2. /\ file \in [state : {"absent", "partial", "whole"}, config : HostsConfig]
      /\ ~file.config.policy
      /\ file.state # "partial" /\ UnreadableIsDefault
  <2>1. CASE file = [state |-> "absent", config |-> DefaultConfig]
    BY <1>1, <2>1 DEF UnreadableIsDefault
  <2>2. ASSUME NEW h \in Host, NEW uid \in {"good", "bad"},
               file = Whole(Entry(DefaultConfig, h, KnownEntry(uid)))
        PROVE  <1>2
    <3>1. KnownEntry(uid) \in HostInfo
      BY HostsConstants DEF KnownEntry, HostInfo
    <3>2. /\ Entry(DefaultConfig, h, KnownEntry(uid)) \in HostsConfig
          /\ ~Entry(DefaultConfig, h, KnownEntry(uid)).policy
      BY <1>1, <3>1, EntryContract
    <3> QED
      BY <2>2, <3>2 DEF Whole, UnreadableIsDefault
  <2> QED
    BY <2>1, <2>2 DEF Init
<1>3. TypeOK
  BY <1>1, <1>2 DEF Init, TypeOK
<1> QED
  BY <1>1, <1>2, <1>3 DEF Init, IInv, NeverTorn, PolicyInv, UidUsedIsValid, OpInv, CopyInv

----------------------------------------------------------------------------
(* The calls.                                                              *)

\* A call begins from what the file holds.
LEMMA BeginInv ==
    ASSUME IInv, NEW p \in Proc, NEW h \in Host, NEW k \in {"touch", "update", "remote"},
           NEW c \in HostsConfig, NEW step \in {"ssh", "save"}, NEW uid \in {"", "good"},
           Begin(p, [kind |-> k, host |-> h]),
           copy' = [copy EXCEPT ![p] = c],
           pc' = [pc EXCEPT ![p] = step],
           uidUsed' = [uidUsed EXCEPT ![p] = uid],
           step = "ssh" => c = file.config,
           Extends(c, file.config, h)
    PROVE  IInv'
<1>1. [kind |-> k, host |-> h] \in Operation
  BY DEF Operation
<1>2. TypeOK'
  BY <1>1 DEF IInv, TypeOK, Begin, editing
<1>3. UnreadableIsDefault' /\ NeverTorn' /\ UidUsedIsValid'
  BY DEF IInv, TypeOK, UnreadableIsDefault, NeverTorn, UidUsedIsValid, Begin, editing
<1>4. PolicyInv'
  <2>1. c.policy => enabled
    BY DEF Extends, IInv, PolicyInv
  <2> QED
    BY <2>1 DEF IInv, TypeOK, PolicyInv, Begin, editing
<1>5. OpInv'
  BY <1>1 DEF IInv, TypeOK, OpInv, Begin
<1>6. CopyInv'
  <2> SUFFICES ASSUME NEW q \in Proc, pc'[q] # "idle", ~stale'[q]
               PROVE  /\ pc'[q] = "ssh" => copy'[q] = file'.config
                      /\ pc'[q] # "ssh" => Extends(copy'[q], file'.config, op'[q].host)
    BY DEF CopyInv
  <2>1. CASE q = p
    BY <2>1 DEF IInv, TypeOK, Begin
  <2>2. CASE q # p
    BY <2>2 DEF IInv, TypeOK, CopyInv, Begin
  <2> QED
    BY <2>1, <2>2
<1> QED
  BY <1>2, <1>3, <1>4, <1>5, <1>6 DEF IInv

LEMMA BeginsInv ==
    ASSUME IInv, NEW p \in Proc, BeginTouch(p) \/ BeginUpdate(p) \/ BeginRemote(p)
    PROVE  IInv'
<1>1. Load = file.config /\ file.config \in HostsConfig
  BY LoadIsFile DEF IInv, TypeOK
<1>2. CASE BeginTouch(p)
  <2>1. PICK h \in Host, v \in Versions :
           /\ Begin(p, [kind |-> "touch", host |-> h])
           /\ copy' = [copy EXCEPT ![p] = RecordVersion(Touch(Load, h), h, v)]
    BY <1>2 DEF BeginTouch
  <2> DEFINE t == Touch(file.config, h)
  <2> DEFINE c == RecordVersion(t, h, v)
  <2>2. t \in HostsConfig /\ Extends(t, file.config, h)
    BY <1>1, TouchContract
  <2> HIDE DEF t
  <2>3. c \in HostsConfig /\ Extends(c, t, h)
    BY <2>2, RecordVersionContract
  <2>4. copy' = [copy EXCEPT ![p] = c]
    BY <1>1, <2>1 DEF t
  <2> HIDE DEF c
  <2>5. Extends(c, file.config, h)
    BY <2>2, <2>3, ExtendsTransitive
  <2> QED
    BY <1>2, <2>1, <2>3, <2>4, <2>5, BeginInv DEF BeginTouch
<1>3. CASE BeginUpdate(p)
  <2>1. PICK h \in Host :
           /\ Begin(p, [kind |-> "update", host |-> h])
           /\ copy' = [copy EXCEPT ![p] = Describe(Load, h)]
    BY <1>3 DEF BeginUpdate
  <2>2. /\ Describe(file.config, h) \in HostsConfig
        /\ Extends(Describe(file.config, h), file.config, h)
    BY <1>1, DescribeContract
  <2> QED
    BY <1>1, <1>3, <2>1, <2>2, BeginInv DEF BeginUpdate
<1>4. CASE BeginRemote(p)
  <2>1. PICK h \in Host :
          \/ /\ ValidUid(Load.hosts[h].uid)
             /\ Begin(p, [kind |-> "touch", host |-> h])
             /\ copy' = [copy EXCEPT ![p] = Touch(Load, h)]
             /\ pc' = [pc EXCEPT ![p] = "save"]
             /\ uidUsed' = [uidUsed EXCEPT ![p] = Load.hosts[h].uid]
          \/ /\ Begin(p, [kind |-> "remote", host |-> h])
             /\ copy' = [copy EXCEPT ![p] = Load]
             /\ pc' = [pc EXCEPT ![p] = "ssh"]
             /\ uidUsed' = [uidUsed EXCEPT ![p] = ""]
    BY <1>4 DEF BeginRemote
  <2>2. /\ Touch(file.config, h) \in HostsConfig
        /\ Extends(Touch(file.config, h), file.config, h)
    BY <1>1, TouchContract
  <2>3. Extends(file.config, file.config, h)
    BY ExtendsItself
  <2>4. CASE /\ ValidUid(Load.hosts[h].uid)
             /\ Begin(p, [kind |-> "touch", host |-> h])
             /\ copy' = [copy EXCEPT ![p] = Touch(Load, h)]
             /\ pc' = [pc EXCEPT ![p] = "save"]
             /\ uidUsed' = [uidUsed EXCEPT ![p] = Load.hosts[h].uid]
    <3>1. uidUsed' = [uidUsed EXCEPT ![p] = "good"]
      BY <2>4 DEF ValidUid
    <3> QED
      BY <1>1, <2>2, <2>4, <3>1, BeginInv
  <2>5. CASE /\ Begin(p, [kind |-> "remote", host |-> h])
             /\ copy' = [copy EXCEPT ![p] = Load]
             /\ pc' = [pc EXCEPT ![p] = "ssh"]
             /\ uidUsed' = [uidUsed EXCEPT ![p] = ""]
    BY <1>1, <2>3, <2>5, BeginInv
  <2> QED
    BY <2>1, <2>4, <2>5
<1> QED
  BY <1>2, <1>3, <1>4

\* A step of p that leaves the file alone and ends p's call, or takes it on
\* with a copy that is p's own.
LEMMA OwnStepInv ==
    ASSUME IInv, NEW p \in Proc, NEW c \in HostsConfig, NEW step \in {"idle", "save", "rename"},
           NEW o \in Operation \cup {NoOperation}, NEW uid \in {"", "good"},
           pc' = [pc EXCEPT ![p] = step], op' = [op EXCEPT ![p] = o],
           copy' = [copy EXCEPT ![p] = c], uidUsed' = [uidUsed EXCEPT ![p] = uid],
           c.policy => enabled,
           step # "idle" => o \in Operation,
           step # "idle" /\ ~stale[p] => Extends(c, file.config, o.host),
           UNCHANGED <<file, stale, editing, eligible, counters>>
    PROVE  IInv'
<1>1. TypeOK'
  BY DEF IInv, TypeOK, editing
<1>2. UnreadableIsDefault' /\ NeverTorn' /\ UidUsedIsValid'
  BY DEF IInv, TypeOK, UnreadableIsDefault, NeverTorn, UidUsedIsValid, editing
<1>3. PolicyInv'
  BY DEF IInv, TypeOK, PolicyInv, editing
<1>4. OpInv'
  BY DEF IInv, TypeOK, OpInv
<1>5. CopyInv'
  <2> SUFFICES ASSUME NEW q \in Proc, pc'[q] # "idle", ~stale'[q]
               PROVE  /\ pc'[q] = "ssh" => copy'[q] = file'.config
                      /\ pc'[q] # "ssh" => Extends(copy'[q], file'.config, op'[q].host)
    BY DEF CopyInv
  <2>1. CASE q = p
    BY <2>1 DEF IInv, TypeOK
  <2>2. CASE q # p
    BY <2>2 DEF IInv, TypeOK, CopyInv
  <2> QED
    BY <2>1, <2>2
<1> QED
  BY <1>1, <1>2, <1>3, <1>4, <1>5 DEF IInv

\* Finish, in the form OwnStepInv takes.
LEMMA FinishInv ==
    ASSUME IInv, NEW p \in Proc, Finish(p),
           UNCHANGED <<file, stale, editing, eligible, counters>>
    PROVE  IInv'
BY DefaultType, OwnStepInv DEF Finish

LEMMA SshAnswersInv == ASSUME IInv, NEW p \in Proc, SshAnswers(p) PROVE IInv'
<1>1. CASE Finish(p)
  BY <1>1, FinishInv DEF SshAnswers
<1>2. CASE ~Finish(p)
  <2> DEFINE h == op[p].host
  <2> DEFINE c == RecordUid(copy[p], h)
  <2>1. /\ pc[p] = "ssh"
        /\ copy' = [copy EXCEPT ![p] = c]
        /\ pc' = [pc EXCEPT ![p] = "save"]
        /\ uidUsed' = [uidUsed EXCEPT ![p] = "good"]
        /\ op' = op
    BY <1>2 DEF SshAnswers
  <2>2. op[p] \in Operation /\ h \in Host /\ op' = [op EXCEPT ![p] = op[p]]
    BY <2>1 DEF IInv, TypeOK, OpInv, Operation
  <2>3. copy[p] \in HostsConfig
    BY DEF IInv, TypeOK
  <2>4. c \in HostsConfig /\ Extends(c, copy[p], h)
    BY <2>2, <2>3, RecordUidContract
  <2>5. c.policy => enabled
    BY <2>4 DEF Extends, IInv, PolicyInv
  <2>6. ~stale[p] => Extends(c, file.config, h)
    BY <2>1, <2>4 DEF IInv, CopyInv
  <2> HIDE DEF c
  <2> QED
    BY <2>1, <2>2, <2>4, <2>5, <2>6, OwnStepInv DEF SshAnswers
<1> QED
  BY <1>1, <1>2

LEMMA WriteTemporaryInv == ASSUME IInv, NEW p \in Proc, WriteTemporary(p) PROVE IInv'
<1>1. copy[p] \in HostsConfig /\ uidUsed[p] \in {"", "good"} /\ op[p] \in Operation
  BY DEF WriteTemporary, IInv, TypeOK, UidUsedIsValid, OpInv
<1>2. /\ op' = [op EXCEPT ![p] = op[p]] /\ copy' = [copy EXCEPT ![p] = copy[p]]
      /\ uidUsed' = [uidUsed EXCEPT ![p] = uidUsed[p]]
      /\ pc' = [pc EXCEPT ![p] = "rename"]
  BY DEF WriteTemporary, IInv, TypeOK
<1>3. copy[p].policy => enabled
  BY DEF IInv, PolicyInv
<1>4. ~stale[p] => Extends(copy[p], file.config, op[p].host)
  BY DEF WriteTemporary, IInv, CopyInv
<1>5. UNCHANGED <<file, stale, editing, eligible, counters>>
  BY DEF WriteTemporary
<1> QED
  BY <1>1, <1>2, <1>3, <1>4, <1>5, OwnStepInv

\* What AfterSave makes of the variables of p.
LEMMA AfterSaveStep ==
    ASSUME TypeOK, UidUsedIsValid, OpInv, NEW p \in Proc, pc[p] # "idle", AfterSave(p)
    PROVE  \E step \in {"idle", "save"}, o \in Operation \cup {NoOperation},
              uid \in {"", "good"}, c \in HostsConfig :
              /\ pc' = [pc EXCEPT ![p] = step] /\ op' = [op EXCEPT ![p] = o]
              /\ copy' = [copy EXCEPT ![p] = c] /\ uidUsed' = [uidUsed EXCEPT ![p] = uid]
              /\ c.policy => copy[p].policy
              /\ step # "idle" => /\ o \in Operation /\ o.host = op[p].host
                                  /\ Extends(c, copy[p], o.host)
<1>1. CASE op[p].kind = "remote"
  <2> DEFINE h == op[p].host
  <2> DEFINE o == [op[p] EXCEPT !.kind = "touch"]
  <2> DEFINE c == Touch(copy[p], h)
  <2>1. op[p] \in Operation /\ copy[p] \in HostsConfig /\ uidUsed[p] \in {"", "good"}
    BY DEF TypeOK, UidUsedIsValid, OpInv
  <2>2. h \in Host /\ o \in Operation /\ o.host = h
    BY <2>1 DEF Operation
  <2>3. c \in HostsConfig /\ Extends(c, copy[p], h)
    BY <2>1, <2>2, TouchContract
  <2>4. c.policy = copy[p].policy
    BY <2>3 DEF Extends
  <2>5. /\ pc' = [pc EXCEPT ![p] = "save"] /\ op' = [op EXCEPT ![p] = o]
        /\ copy' = [copy EXCEPT ![p] = c]
        /\ uidUsed' = [uidUsed EXCEPT ![p] = uidUsed[p]]
    BY <1>1 DEF AfterSave, TypeOK
  <2> HIDE DEF c, o
  <2> QED
    BY <2>1, <2>2, <2>3, <2>4, <2>5
<1>2. CASE op[p].kind # "remote"
  BY <1>2, DefaultType DEF AfterSave, Finish
<1> QED
  BY <1>1, <1>2

\* The save is done, or has failed, and the call goes on: whatever becomes of
\* the file, the copies of the others are stale or as before.
LEMMA SaveFailsInv == ASSUME IInv, NEW p \in Proc, SaveFails(p) PROVE IInv'
<1>1. PICK step \in {"idle", "save"}, o \in Operation \cup {NoOperation},
           uid \in {"", "good"}, c \in HostsConfig :
              /\ pc' = [pc EXCEPT ![p] = step] /\ op' = [op EXCEPT ![p] = o]
              /\ copy' = [copy EXCEPT ![p] = c] /\ uidUsed' = [uidUsed EXCEPT ![p] = uid]
              /\ c.policy => copy[p].policy
              /\ step # "idle" => /\ o \in Operation /\ o.host = op[p].host
                                  /\ Extends(c, copy[p], o.host)
  BY AfterSaveStep DEF IInv, SaveFails
<1>2. c.policy => enabled
  BY <1>1 DEF IInv, PolicyInv
<1>3. step # "idle" /\ ~stale[p] => Extends(c, file.config, o.host)
  <2> SUFFICES ASSUME step # "idle", ~stale[p] PROVE Extends(c, file.config, o.host)
    OBVIOUS
  <2>1. Extends(copy[p], file.config, op[p].host)
    BY DEF IInv, CopyInv, SaveFails
  <2>2. o.host \in Host
    BY <1>1 DEF Operation
  <2> QED
    BY <1>1, <2>1, <2>2, ExtendsTransitive
<1> QED
  BY <1>1, <1>2, <1>3, OwnStepInv DEF SaveFails

LEMMA RenameInv == ASSUME IInv, NEW p \in Proc, Rename(p) PROVE IInv'
<1>1. PICK step \in {"idle", "save"}, o \in Operation \cup {NoOperation},
           uid \in {"", "good"}, c \in HostsConfig :
              /\ pc' = [pc EXCEPT ![p] = step] /\ op' = [op EXCEPT ![p] = o]
              /\ copy' = [copy EXCEPT ![p] = c] /\ uidUsed' = [uidUsed EXCEPT ![p] = uid]
              /\ c.policy => copy[p].policy
              /\ step # "idle" => /\ o \in Operation /\ o.host = op[p].host
                                  /\ Extends(c, copy[p], o.host)
  BY AfterSaveStep DEF IInv, Rename
<1>2. /\ copy[p] \in HostsConfig
      /\ file' = [state |-> "whole", config |-> copy[p]]
      /\ stale' = [q \in Proc |-> pc[q] # "idle" /\ (stale[q] \/ q # p)]
  BY DEF IInv, TypeOK, Rename, Whole, Changed
<1>3. copy[p].policy => enabled
  BY DEF IInv, PolicyInv
<1>4. TypeOK'
  <2>1. stale' \in [Proc -> BOOLEAN]
    BY <1>2
  <2>2. file' \in [state : {"absent", "partial", "whole"}, config : HostsConfig]
    BY <1>2
  <2> QED
    BY <1>1, <2>1, <2>2 DEF IInv, TypeOK, Rename, editing
<1>5. UnreadableIsDefault' /\ NeverTorn' /\ UidUsedIsValid'
  BY <1>1, <1>2 DEF IInv, TypeOK, UnreadableIsDefault, NeverTorn, UidUsedIsValid
<1>6. PolicyInv'
  <2>1. UNCHANGED <<draft, enabled, eligible>>
    BY DEF Rename, editing
  <2>2. \A q \in Proc : copy'[q].policy => enabled
    BY <1>1, <1>3 DEF IInv, TypeOK, PolicyInv
  <2> QED
    BY <1>2, <1>3, <2>1, <2>2 DEF IInv, PolicyInv
<1>7. OpInv'
  BY <1>1 DEF IInv, TypeOK, OpInv
<1>8. CopyInv'
  <2> SUFFICES ASSUME NEW q \in Proc, pc'[q] # "idle", ~stale'[q]
               PROVE  /\ pc'[q] = "ssh" => copy'[q] = file'.config
                      /\ pc'[q] # "ssh" => Extends(copy'[q], file'.config, op'[q].host)
    BY DEF CopyInv
  <2>1. q = p
    BY <1>1, <1>2 DEF IInv, TypeOK
  <2> QED
    BY <1>1, <1>2, <2>1 DEF IInv, TypeOK
<1> QED
  BY <1>4, <1>5, <1>6, <1>7, <1>8 DEF IInv

LEMMA KilledInv == ASSUME IInv, NEW p \in Proc, Killed(p) PROVE IInv'
BY FinishInv DEF Killed

----------------------------------------------------------------------------
(* The operator and the daemon.                                            *)

\* The editor changes what it will write.
LEMMA EditorOpensInv == ASSUME IInv, EditorOpens PROVE IInv'
<1>1. PICK policy \in BOOLEAN : /\ draft' = [file.config EXCEPT !.policy = policy]
                                /\ enabled' = (enabled \/ policy)
  BY LoadIsFile DEF EditorOpens, IInv
<1>2. draft' \in HostsConfig /\ draft'.policy = policy
  BY <1>1 DEF IInv, TypeOK, HostsConfig
<1>3. TypeOK'
  BY <1>1, <1>2 DEF EditorOpens, IInv, TypeOK, calls
<1>4. PolicyInv'
  BY <1>1, <1>2 DEF EditorOpens, IInv, TypeOK, PolicyInv, calls
<1> QED
  BY <1>3, <1>4 DEF EditorOpens, IInv, UnreadableIsDefault, NeverTorn, UidUsedIsValid,
                    OpInv, CopyInv, calls

\* The editor changes the file: every copy is stale.
LEMMA EditorWritesInv == ASSUME IInv, EditorTruncates \/ EditorSaves PROVE IInv'
<1>1. /\ UNCHANGED <<calls, enabled, eligible, counters>>
      /\ stale' = [q \in Proc |-> pc[q] # "idle"]
      /\ editor' \in {"closed", "writing"}
  BY DEF EditorTruncates, EditorSaves, Changed, IInv, TypeOK
<1>2. \/ file' = Partial /\ draft' = draft /\ editor' = "writing"
      \/ file' = Whole(draft) /\ draft' = DefaultConfig
  BY DEF EditorTruncates, EditorSaves
<1>3. TypeOK'
  <2>1. stale' \in [Proc -> BOOLEAN]
    BY <1>1
  <2>2. /\ file' \in [state : {"absent", "partial", "whole"}, config : HostsConfig]
        /\ draft' \in HostsConfig
    <3>1. DefaultConfig \in HostsConfig /\ draft \in HostsConfig
      BY DefaultType DEF IInv, TypeOK
    <3>2. CASE file' = Partial /\ draft' = draft
      BY <3>1, <3>2 DEF Partial
    <3>3. CASE file' = Whole(draft) /\ draft' = DefaultConfig
      BY <3>1, <3>3 DEF Whole
    <3> QED
      BY <1>2, <3>2, <3>3
  <2> QED
    BY <1>1, <2>1, <2>2 DEF IInv, TypeOK, calls
<1>4. UnreadableIsDefault' /\ NeverTorn'
  BY <1>1, <1>2 DEF UnreadableIsDefault, NeverTorn, Partial, Whole
<1>5. PolicyInv'
  BY <1>1, <1>2, DefaultType DEF IInv, PolicyInv, calls, Partial, Whole
<1>6. UidUsedIsValid' /\ OpInv' /\ CopyInv'
  BY <1>1 DEF IInv, UidUsedIsValid, OpInv, CopyInv, calls
<1> QED
  BY <1>3, <1>4, <1>5, <1>6 DEF IInv

LEMMA EditorDiesInv == ASSUME IInv, EditorDies PROVE IInv'
BY DefaultType DEF EditorDies, IInv, TypeOK, UnreadableIsDefault, NeverTorn, PolicyInv,
                   UidUsedIsValid, OpInv, CopyInv, calls

LEMMA DaemonStartsInv == ASSUME IInv, DaemonStarts PROVE IInv'
<1>1. /\ UNCHANGED <<file, calls, stale, editor, draft, counters>>
      /\ eligible' \in BOOLEAN /\ enabled' \in BOOLEAN
      /\ enabled => enabled'
      /\ eligible' => enabled' \/ file.config.policy
  <2>1. PICK flag \in {"on", "off", "unset"} :
           /\ eligible' = CASE flag = "on" -> TRUE [] flag = "off" -> FALSE
                            [] OTHER -> file.config.policy
           /\ enabled' = (enabled \/ flag = "on")
    BY LoadIsFile DEF DaemonStarts, IInv
  <2>2. file.config.policy \in BOOLEAN
    BY DEF IInv, TypeOK, HostsConfig
  <2> QED
    BY <2>1, <2>2 DEF DaemonStarts, IInv, TypeOK
<1> QED
  BY <1>1 DEF IInv, TypeOK, UnreadableIsDefault, NeverTorn, PolicyInv, UidUsedIsValid,
              OpInv, CopyInv, calls

----------------------------------------------------------------------------
(* The theorems.                                                           *)

LEMMA NextInv == IInv /\ [Next]_vars => IInv'
<1> SUFFICES ASSUME IInv, [Next]_vars PROVE IInv'
  OBVIOUS
<1>1. ASSUME NEW p \in Proc, BeginTouch(p) \/ BeginUpdate(p) \/ BeginRemote(p) PROVE IInv'
  BY <1>1, BeginsInv
<1>2. ASSUME NEW p \in Proc, SshAnswers(p) PROVE IInv'
  BY <1>2, SshAnswersInv
<1>3. ASSUME NEW p \in Proc, WriteTemporary(p) PROVE IInv'
  BY <1>3, WriteTemporaryInv
<1>4. ASSUME NEW p \in Proc, Rename(p) PROVE IInv'
  BY <1>4, RenameInv
<1>5. ASSUME NEW p \in Proc, SaveFails(p) PROVE IInv'
  BY <1>5, SaveFailsInv
<1>6. ASSUME NEW p \in Proc, Killed(p) PROVE IInv'
  BY <1>6, KilledInv
<1>7. CASE EditorOpens
  BY <1>7, EditorOpensInv
<1>8. CASE EditorTruncates \/ EditorSaves
  BY <1>8, EditorWritesInv
<1>9. CASE EditorDies
  BY <1>9, EditorDiesInv
<1>10. CASE DaemonStarts
  BY <1>10, DaemonStartsInv
<1>11. CASE UNCHANGED vars
  BY <1>11 DEF vars, calls, editing, IInv, TypeOK, UnreadableIsDefault, NeverTorn,
               PolicyInv, UidUsedIsValid, OpInv, CopyInv
<1> QED
  BY <1>1, <1>2, <1>3, <1>4, <1>5, <1>6, <1>7, <1>8, <1>9, <1>10, <1>11 DEF Next

THEOREM Invariant == Spec => []IInv
BY InitInv, NextInv, PTL DEF Spec

\* The types of the file, of the copies and of the editor's draft.
THEOREM TypeCorrect == Spec => []TypeOK
<1>1. IInv => TypeOK
  BY DEF IInv
<1> QED
  BY Invariant, <1>1, PTL

\* save_to: whenever a process of the code is killed or fails, the file is not
\* torn.
THEOREM FileNeverTorn == Spec => []NeverTorn
<1>1. IInv => NeverTorn
  BY DEF IInv
<1> QED
  BY Invariant, <1>1, PTL

\* Only the operator ever permits unattended execution, whatever is lost,
\* half-written or replaced by the default (load, main).
THEOREM OnlyOperatorPermits == Spec => []EligibleOnlyByOperator
<1>1. IInv => EligibleOnlyByOperator
  BY DEF IInv, PolicyInv, EligibleOnlyByOperator
<1> QED
  BY Invariant, <1>1, PTL

\* resolve_uid: only a uid that is_valid_uid accepts gets into ssh's arguments.
THEOREM UidIsValid == Spec => []UidUsedIsValid
<1>1. IInv => UidUsedIsValid
  BY DEF IInv
<1> QED
  BY Invariant, <1>1, PTL

\* Only the renames and the editor change the file.
LEMMA Writers ==
    ASSUME Next, file' # file
    PROVE  (\E p \in Proc : Rename(p)) \/ EditorTruncates \/ EditorSaves
<1>1. ASSUME NEW p \in Proc, BeginTouch(p) \/ BeginUpdate(p) \/ BeginRemote(p)
      PROVE  FALSE
  BY <1>1 DEF BeginTouch, BeginUpdate, BeginRemote, Begin
<1>2. ASSUME NEW p \in Proc, SshAnswers(p) \/ WriteTemporary(p) \/ SaveFails(p) \/ Killed(p)
      PROVE  FALSE
  BY <1>2 DEF SshAnswers, WriteTemporary, SaveFails, Killed
<1>3. ~(EditorOpens \/ EditorDies \/ DaemonStarts)
  BY DEF EditorOpens, EditorDies, DaemonStarts
<1> QED
  BY <1>1, <1>2, <1>3 DEF Next

\* Rename moves on, and no other process with it.
LEMMA RenameMoves ==
    ASSUME IInv, NEW p \in Proc, Rename(p)
    PROVE  pc'[p] # "rename" /\ \A q \in Proc \ {p} : pc'[q] = pc[q]
<1>1. PICK step \in {"idle", "save"} : pc' = [pc EXCEPT ![p] = step]
  BY DEF Rename, AfterSave, Finish
<1> QED
  BY <1>1 DEF IInv, TypeOK

\* Of all steps only a Rename makes Renames true of a process, its own.
LEMMA RenamesIsRename ==
    ASSUME IInv, Next, NEW p \in Proc, Renames(p)
    PROVE  Rename(p)
<1>1. ASSUME NEW q \in Proc, Rename(q) PROVE q = p
  BY <1>1, RenameMoves DEF Renames
<1>2. EditorTruncates \/ EditorSaves => pc' = pc
  BY DEF EditorTruncates, EditorSaves, calls
<1> QED
  BY <1>1, <1>2, Writers DEF Renames

\* A save that nobody overtook changes of the file what its operation sets.
THEOREM OthersKept == Spec => OthersChangesKept
<1>1. ASSUME IInv, Next, NEW p \in Proc, Renames(p), ~stale[p]
      PROVE  Extends(file'.config, file.config, op[p].host)
  <2>1. Rename(p)
    BY <1>1, RenamesIsRename
  <2>2. pc[p] = "rename" /\ file'.config = copy[p]
    BY <2>1 DEF Rename, Whole
  <2> QED
    BY <1>1, <2>2 DEF IInv, CopyInv
<1>2. IInv /\ [Next]_vars => [\A p \in Proc : Renames(p) /\ ~stale[p] =>
         LET old == file.config.hosts  new == file'.config.hosts  h == op[p].host IN
         /\ file'.config.policy = file.config.policy
         /\ \A g \in Host \ {h} : new[g] = old[g]
         /\ old[h].version # "" => new[h].version # ""
         /\ old[h].uid = "good" => new[h].uid = "good"
         /\ old[h].description # "" => new[h].description # ""]_vars
  BY <1>1 DEF Extends
<1> QED
  BY Invariant, <1>2, PTL DEF Spec, OthersChangesKept

\* A policy is raised by the editor, or by a save somebody overtook.
THEOREM PolicyOnlyByOverlap == Spec => PolicyRaisedOnlyByOverlap
<1>1. ASSUME IInv, Next, ~file.config.policy, file'.config.policy
      PROVE  \/ editor \in {"open", "writing"} /\ editor' = "closed"
             \/ \E p \in Proc : Renames(p) /\ stale[p]
  <2>1. ASSUME NEW p \in Proc, Rename(p) PROVE Renames(p) /\ stale[p]
    <3>1. pc[p] = "rename" /\ file' # file /\ file'.config = copy[p]
      BY <1>1, <2>1 DEF Rename, Whole
    <3>2. pc'[p] # "rename"
      BY <1>1, <2>1, RenameMoves
    <3>3. stale[p]
      BY <1>1, <3>1, ZenonT(60) DEF IInv, CopyInv, Extends
    <3> QED
      BY <3>1, <3>2, <3>3 DEF Renames
  <2>2. ~EditorTruncates
    BY <1>1, DefaultType DEF EditorTruncates, Partial
  <2>3. EditorSaves => editor \in {"open", "writing"} /\ editor' = "closed"
    BY DEF EditorSaves
  <2> QED
    BY <1>1, <2>1, <2>2, <2>3, Writers
<1>2. IInv /\ [Next]_vars => [~file.config.policy /\ file'.config.policy =>
         \/ editor \in {"open", "writing"} /\ editor' = "closed"
         \/ \E p \in Proc : Renames(p) /\ stale[p]]_vars
  BY <1>1
<1> QED
  BY Invariant, <1>2, PTL DEF Spec, PolicyRaisedOnlyByOverlap
=============================================================================
