------------------------------- MODULE Mailbox -------------------------------
(***************************************************************************)
(* What a message queue promises to its users, without the slice: a set of *)
(* held messages from which the reader takes the best one.                 *)
(*                                                                         *)
(*   - a message is lost only if it is outdated, or if the mailbox is left *)
(*     with MaxSize messages each of which is more worth keeping;          *)
(*   - the reader gets the most important message that is not outdated,    *)
(*     the oldest of them if there are several.                            *)
(*                                                                         *)
(* MessageQueue is shown to implement this specification.                  *)
(***************************************************************************)
EXTENDS Integers, FiniteSets

CONSTANT MaxSize

VARIABLES
    held,     \* the messages in the mailbox
    offered,  \* the message being deposited: a set of at most one Put
    now       \* the clock

mailboxVars == <<held, offered, now>>

Init == held = {} /\ offered = {} /\ now = 0

Expired(m) == m.outdatedAt < now

(* prune's comment: "Low priority elements are discarded, starting with    *)
(* the oldest ones".                                                       *)
MoreWorthKeeping(k, d) ==
    \/ k.priority < d.priority
    \/ k.priority = d.priority /\ k.data > d.data

MayLose(lost, kept) ==
    \A d \in lost :
        \/ Expired(d)
        \/ /\ Cardinality(kept) = MaxSize
           /\ \A k \in kept : MoreWorthKeeping(k, d)

(* Another sender begins to deposit a message.                             *)
Offer ==
    /\ offered = {}
    /\ Cardinality(offered') = 1
    /\ UNCHANGED <<held, now>>

Deposit ==
    /\ offered # {}
    /\ \E x \in offered :
         LET m == [priority |-> x.priority, outdatedAt |-> now + x.maxAge,
                   data |-> x.data]
         IN  /\ held' \subseteq held \cup {m}
             /\ MayLose((held \cup {m}) \ held', held')
    /\ offered' = {}
    /\ UNCHANGED now

(* Expired messages, or the excess, may be thrown away at any time.        *)
Clean ==
    /\ held' \subseteq held
    /\ MayLose(held \ held', held')
    /\ UNCHANGED <<offered, now>>

FirstOut(m) ==
    \A d \in held \ {m} :
        \/ Expired(d)
        \/ m.priority < d.priority
        \/ m.priority = d.priority /\ m.data < d.data

Take ==
    /\ held' \subseteq held
    /\ \E m \in held \ held' :
          /\ ~Expired(m)
          /\ FirstOut(m)
          /\ \A d \in (held \ held') \ {m} : Expired(d)
    /\ UNCHANGED <<offered, now>>

Tick == now' = now + 1 /\ UNCHANGED <<held, offered>>

Next == Offer \/ Deposit \/ Clean \/ Take \/ Tick

Spec == Init /\ [][Next]_mailboxVars

==============================================================================
