---------------------------- MODULE ApprovalStore ----------------------------
(***************************************************************************)
(* server/approval_store.py: pending approvals, held in memory and in      *)
(* approvals.json.  Every operation runs under the store's lock and starts *)
(* with the expiry sweep, so each is one relation here; what can go wrong  *)
(* inside (an audit append or a rewrite of the file that raises) is an     *)
(* outcome of the sweep or of the write that follows it.                   *)
(***************************************************************************)
EXTENDS BridgeFiles

VARIABLES
    pending,        \* the dict _approvals
    pendingDisk,    \* approvals.json
    audited,        \* _expiry_audited: rejection logged, entry still stored
    due             \* commands whose expires_at has passed (the clock)

storeVars == <<pending, pendingDisk, audited, due>>

StoreTypeOK ==
    /\ pending \subseteq Cmds
    /\ pendingDisk \subseteq Cmds
    /\ audited \subseteq Cmds
    /\ due \subseteq Cmds

StoreInit ==
    /\ pending = {}
    /\ pendingDisk = {}
    /\ audited = {}
    /\ due = {}

Expired == pending \cap due
Usable == pending \ due

\* One pass of _expire_locked.  Each expired entry is handled on its own: it is
\* audited and removed (gone), audited but kept because the file could not be
\* rewritten (noted), or left untouched because the audit failed (the rest).
SweepOutcomes ==
    {o \in [gone : SUBSET Expired, noted : SUBSET Expired] :
        o.gone \cap o.noted = {}}

Clean(o) == o.gone = Expired

SweptPending(o) == pending \ o.gone
SweptDisk(o) == IF o.gone = {} THEN pendingDisk ELSE SweptPending(o)

\* Slip of Sweep: entries are removed without their rejection event.
SweepSilently(o) ==
    /\ o \in SweepOutcomes
    /\ audited' = (audited \cup o.noted) \ o.gone
    /\ UNCHANGED <<log, due>>

\* The part of a sweep that no later step of the same operation touches.
Sweep(o) ==
    /\ o \in SweepOutcomes
    /\ audited' = (audited \cup o.noted) \ o.gone
    /\ log' = Recorded(o.gone \cup o.noted, "Rejected")
    /\ due' = due

\* expire_approvals and get_approvals; also _peek_pending, which goes on to
\* look c up (PeekResult), and pop_approval when it finds nothing to take or
\* cannot persist.
ExpireApprovals(o) ==
    /\ Sweep(o)
    /\ pending' = SweptPending(o)
    /\ pendingDisk' = SweptDisk(o)

PeekResult(c, found, expired, missing) ==
    IF c \in Usable THEN found ELSE IF c \in Expired THEN expired ELSE missing

\* Slips of TakeApproval: the deadline is not looked at; the entry is not removed.
TakeAnyApproval(c, o) ==
    /\ c \in pending
    /\ Sweep(o)
    /\ pending' = SweptPending(o) \ {c}
    /\ pendingDisk' = SweptPending(o) \ {c}

ReadApproval(c, o) ==
    /\ c \in Usable
    /\ ExpireApprovals(o)

\* _take_approval: the single-use pop, durable before it returns.
TakeApproval(c, o) ==
    /\ c \in Usable
    /\ Sweep(o)
    /\ pending' = SweptPending(o) \ {c}
    /\ pendingDisk' = SweptPending(o) \ {c}

\* add_approval; when the file cannot be written the entry stays in memory.
AddApproval(c, saved) ==
    /\ pending' = pending \cup {c}
    /\ pendingDisk' = IF saved THEN pending \cup {c} ELSE pendingDisk
    /\ UNCHANGED <<audited, due>>

\* cancel_mission: one rewrite for the whole cascade, and no rollback of the
\* memory when that rewrite raises.
ChildrenOf(m) == {c \in Usable : MissionOf[c] = m}

CancelMission(m, o, saved) ==
    /\ Sweep(o)
    /\ pending' = SweptPending(o) \ ChildrenOf(m)
    /\ pendingDisk' = IF saved /\ ChildrenOf(m) # {}
                      THEN SweptPending(o) \ ChildrenOf(m)
                      ELSE SweptDisk(o)

\* A new process: _ensure_loaded reads the file, the audit memory is empty.
StoreRestart ==
    /\ pending' = pendingDisk
    /\ audited' = {}
    /\ UNCHANGED <<pendingDisk, due>>

-----------------------------------------------------------------------------
(***************************************************************************)
(* server/dispatch_ledger.py: one fsynced file per command id, holding the *)
(* command and a state.  The file is replaced atomically, so it is absent, *)
(* "intent" or "claimed" at every instant, crashes included.               *)
(***************************************************************************)
VARIABLE ledger

LedgerStates == {"none", "intent", "claimed"}

LedgerTypeOK == ledger \in [Cmds -> LedgerStates]

LedgerInit == ledger = [c \in Cmds |-> "none"]

HasIntent(c) == ledger[c] # "none"
HasUnclaimedIntent(c) == ledger[c] = "intent"

\* An existing record is left untouched.
RecordIntent(c) ==
    ledger' = [ledger EXCEPT ![c] = IF HasIntent(c) THEN @ ELSE "intent"]

\* Slip of ClaimIntent: the record is removed at the claim, not after the enqueue.
ClaimAndForget(c) == ledger' = [ledger EXCEPT ![c] = "none"]

\* The caller ignores the result: a missing or claimed record is not an error.
ClaimIntent(c) ==
    ledger' = [ledger EXCEPT ![c] = IF HasUnclaimedIntent(c) THEN "claimed" ELSE @]

\* unlink, whatever the state: done_intent, and the second half of
\* release_intent_if_unclaimed (whose first half reads the state).
Unlink(c) == ledger' = [ledger EXCEPT ![c] = "none"]
=============================================================================
