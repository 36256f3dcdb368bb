--------------------------- MODULE Notifications ---------------------------
(***************************************************************************)
(* ui/notificationBanner.ts: banners queue up and are shown one at a time. *)
(* A banner is dismissed by its buttons or by the auto-dismiss timer,      *)
(* slides out, and an exit timer removes it and shows the next.  Both      *)
(* buttons and both timers call dismissCurrent, which acts on _active,     *)
(* whichever banner the call was meant for.                                *)
(***************************************************************************)
EXTENDS Naturals, Sequences, FiniteSets

CONSTANTS
    MaxBanners,         \* notifications raised
    ClickWhileLeaving   \* may the user click a banner that slides out?

Banners == 1..MaxBanners

NotificationsAssumption ==
    /\ MaxBanners \in Nat \ {0} /\ ClickWhileLeaving \in BOOLEAN

VARIABLES
    idSeq, queue,
    active,         \* _active: 0 for null
    shown,          \* banners in the container
    handle,         \* _dismissTimer: whose auto-dismiss it is, 0 once cleared
    autos,          \* banners whose auto-dismiss timer is pending
    exits,          \* banner -> exit timers pending for it
    order           \* banners in the order they were shown

vars == <<idSeq, queue, active, shown, handle, autos, exits, order>>

Leaving(b) == exits[b] > 0

TypeOK ==
    /\ idSeq \in 0..MaxBanners /\ active \in {0} \cup Banners
    /\ queue \in Seq(Banners) /\ order \in Seq(Banners)
    /\ shown \subseteq Banners /\ autos \subseteq Banners
    /\ handle \in {0} \cup Banners
    /\ exits \in [Banners -> 0..3]

Init ==
    /\ idSeq = 0 /\ queue = <<>> /\ active = 0
    /\ shown = {} /\ handle = 0 /\ autos = {}
    /\ exits = [b \in Banners |-> 0] /\ order = <<>>

-----------------------------------------------------------------------------
\* The last thing every caller does: a, q, s are _active, _queue, the container.
processQueue(a, q, s) ==
    IF a # 0 \/ q = <<>>
    THEN active' = a /\ queue' = q /\ shown' = s /\ UNCHANGED <<handle, autos, order>>
    ELSE LET item == Head(q)
         IN /\ active' = item /\ queue' = Tail(q)
            /\ shown' = s \cup {item} /\ order' = Append(order, item)
            /\ handle' = item /\ autos' = autos \cup {item}

\* Raised by the page: the pause between two notifications may be any.
showNotification ==
    /\ idSeq < MaxBanners /\ idSeq' = idSeq + 1
    /\ processQueue(active, Append(queue, idSeq'), shown)
    /\ exits' = exits

\* ts: the auto-dismiss timers left when the call comes.
dismissCurrent(ts) ==
    /\ UNCHANGED <<idSeq, queue, active, shown, order>>
    /\ IF active = 0
       THEN autos' = ts /\ UNCHANGED <<handle, exits>>
       ELSE /\ autos' = ts \ {handle} /\ handle' = 0
            /\ exits[active] < 3
            /\ exits' = [exits EXCEPT ![active] = @ + 1]

\* The action button runs its action first, then does the same.
clickClose(b) ==
    /\ b \in shown /\ (Leaving(b) => ClickWhileLeaving)
    /\ dismissCurrent(autos)

autoDismiss(b) ==
    /\ b \in autos
    /\ dismissCurrent(autos \ {b})

exitEnds(b) ==
    /\ Leaving(b)
    /\ exits' = [exits EXCEPT ![b] = @ - 1]
    /\ processQueue(0, queue, shown \ {b})
    /\ idSeq' = idSeq

Next == showNotification \/ \E b \in Banners : clickClose(b) \/ autoDismiss(b) \/ exitEnds(b)

Spec == Init /\ [][Next]_vars
(* Timers fire; nobody has to click.                                       *)
FairSpec ==
    /\ Spec
    /\ \A b \in Banners : WF_vars(autoDismiss(b)) /\ WF_vars(exitEnds(b))

-----------------------------------------------------------------------------
(* Notifications are shown in the order they were raised, none twice and   *)
(* none skipped, whichever dismissals overlap.                             *)
ShownInOrder == order \o queue = [i \in 1..idSeq |-> i]

(* "Queue para mostrar de a uno" (ui/notificationBanner.ts:3).             *)
OneBanner == Cardinality(shown) <= 1
=============================================================================
