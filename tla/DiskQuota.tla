----------------------------- MODULE DiskQuota -----------------------------
(***************************************************************************)
(* The ids of disk quotas: the project quota driver gives out ids, marks a *)
(* directory with one (chattr) and limits the id (setquota).  A container  *)
(* asks for an id of its own and keeps it in its configuration, or is      *)
(* given one by its user (case "explicit"); a volume takes the id that its *)
(* directory has.  Ids are unsigned integers that wrap after MaxQuotaID,   *)
(* and 0 stands for none.                                                  *)
(***************************************************************************)
EXTENDS Naturals, FiniteSetsExt, Scenario

CONSTANTS
    Dirs,
    QuotaMinID, MaxQuotaID  \* 2^24 and 2^32 - 1 in the code

VARIABLES
    quotaIDs, lastID,  \* the driver: ids given out, and the last one
    attr,              \* per directory: the id in its attributes
    limited,           \* the ids that have a limit
    configID,          \* per directory: Config.QuotaID of its container
    quotaReq           \* per directory: the request for it, and its id

quotaVars == <<quotaIDs, lastID, attr, limited, configID, quotaReq>>

IDs == 0..MaxQuotaID
NoReq == [at |-> "idle", id |-> 0]
QGoto(d, at, id) == quotaReq' = [quotaReq EXCEPT ![d] = [at |-> at, id |-> id]]

MutantLoadLimited == {i \in limited : i > QuotaMinID}

\* repquota lists the ids that are used or limited.
LoadQuotaIDs == {i \in {attr[d] : d \in Dirs} \cup limited : i > QuotaMinID}

\* The loop of GetNextQuotaID: it counts from the last id to one that is not
\* given out, and 0, which follows MaxQuotaID, never is.
NextQuotaID(ids, last) ==
    LET free == {i \in (Max({last, QuotaMinID}) + 1)..MaxQuotaID : i \notin ids}
    IN IF free = {} THEN 0 ELSE Min(free)

\* GetNextQuotaID, which loads the ids when it has no last one, and goes on to step
\* at with the new id.  Only in case "wraps" the ids come to their end.
GetNextQuotaID(d, at) ==
    LET ids == IF lastID = 0 THEN LoadQuotaIDs ELSE quotaIDs
        last == IF lastID = 0 THEN Max(LoadQuotaIDs \cup {QuotaMinID}) ELSE lastID
        id == NextQuotaID(ids, last)
    IN /\ id = 0 => On("wraps")
       /\ quotaIDs' = ids \cup {id} /\ lastID' = id /\ QGoto(d, at, id)

\* prepareQuotaMap of a container with the id it was given, or with a new one.
PrepareQuotaMap(d) ==
    /\ quotaReq[d] = NoReq
    /\ IF configID[d] # 0
       THEN QGoto(d, "set", configID[d]) /\ UNCHANGED <<quotaIDs, lastID>>
       ELSE GetNextQuotaID(d, "set")
    /\ UNCHANGED <<attr, limited, configID>>

\* A container whose user chooses the id.
ExplicitQuotaID(d, i) ==
    /\ On("explicit") /\ quotaReq[d] = NoReq /\ configID[d] = 0 /\ i # 0
    /\ QGoto(d, "set", i)
    /\ UNCHANGED <<quotaIDs, lastID, attr, limited, configID>>

\* setQuotaID, for a volume and for a container that was given 0: the directory
\* keeps the id it has.
SetQuotaID(d) ==
    /\ quotaReq[d] \in {NoReq, [at |-> "set", id |-> 0]}
    /\ IF attr[d] > 0
       THEN QGoto(d, "limit", attr[d]) /\ UNCHANGED <<quotaIDs, lastID>>
       ELSE GetNextQuotaID(d, "mark")
    /\ UNCHANGED <<attr, limited, configID>>

\* chattr; an error is logged, and a container that asked for an id of its own
\* (QuotaID < 0) keeps it all the same.  Another gets a new one at every start.
SetAttr(d) ==
    LET id == quotaReq[d].id
    IN /\ quotaReq[d].at = "mark" \/ (quotaReq[d].at = "set" /\ id # 0)
       /\ \/ /\ attr' = [attr EXCEPT ![d] = id]
             /\ IF id = 0 THEN quotaReq' = [quotaReq EXCEPT ![d] = NoReq] ELSE QGoto(d, "limit", id)
          \/ /\ On("fails") /\ UNCHANGED attr
             /\ quotaReq' = [quotaReq EXCEPT ![d] = NoReq]
       /\ \/ UNCHANGED configID
          \/ quotaReq[d].at = "set" /\ configID' = [configID EXCEPT ![d] = id]
       /\ UNCHANGED <<quotaIDs, lastID, limited>>

\* setquota
SetQuota(d) ==
    /\ quotaReq[d].at = "limit"
    /\ \/ limited' = limited \cup {quotaReq[d].id}
       \/ On("fails") /\ UNCHANGED limited
    /\ quotaReq' = [quotaReq EXCEPT ![d] = NoReq]
    /\ UNCHANGED <<quotaIDs, lastID, attr, configID>>

\* The directory goes with its container or volume; the limit stays.
RemoveDir(d) ==
    /\ quotaReq[d] = NoReq
    /\ attr' = [attr EXCEPT ![d] = 0] /\ configID' = [configID EXCEPT ![d] = 0]
    /\ UNCHANGED <<quotaIDs, lastID, limited, quotaReq>>

QuotaRestart ==
    /\ On("restart")
    /\ quotaIDs' = {} /\ lastID' = 0 /\ quotaReq' = [d \in Dirs |-> NoReq]
    /\ UNCHANGED <<attr, limited, configID>>

QuotaInit ==
    /\ quotaIDs = {} /\ lastID = 0 /\ limited = {}
    /\ attr = [d \in Dirs |-> 0] /\ configID = attr
    /\ quotaReq = [d \in Dirs |-> NoReq]

QuotaNext ==
    \/ \E d \in Dirs :
          \/ PrepareQuotaMap(d) \/ SetQuotaID(d) \/ SetAttr(d) \/ SetQuota(d) \/ RemoveDir(d)
          \/ \E i \in IDs : ExplicitQuotaID(d, i)
    \/ QuotaRestart

-----------------------------------------------------------------------------
(* Properties *)

\* Every variable has its type.
QuotaTypeOK ==
    /\ quotaIDs \subseteq IDs /\ lastID \in IDs /\ limited \subseteq IDs
    /\ attr \in [Dirs -> IDs] /\ configID \in [Dirs -> IDs]
    /\ quotaReq \in [Dirs -> [at : {"idle", "set", "mark", "limit"}, id : IDs]]

\* "pouchd alloc a unique quota id": two directories never have one id, through
\* removals and restarts of the daemon, which loads the ids from repquota.  It
\* fails if the user chooses ids; if a container keeps an id that chattr has
\* refused, which the restarted daemon knows nothing of; and at the end of the
\* ids, where the driver loads them again and forgets those given out since.
QuotaIsOwn ==
    NoneOf({"explicit", "wraps"}) /\ ~(On("fails") /\ On("restart")) =>
       \A d, e \in Dirs : attr[d] # 0 /\ attr[d] = attr[e] => d = e

\* A directory that is marked has a limit, when nothing is done about it any more
\* and nothing has failed.
MarkedIsLimited ==
    NoneOf({"fails", "restart"}) =>
       \A d \in Dirs : quotaReq[d] = NoReq /\ attr[d] # 0 => attr[d] \in limited

\* Each directory with a quota has an id of its own, and the id a limit.
QuotaIsInForce == QuotaTypeOK /\ QuotaIsOwn /\ MarkedIsLimited
=============================================================================
