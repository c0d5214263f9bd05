--------------------------- MODULE MessageQueueOps ---------------------------
(***************************************************************************)
(* The slice algorithms of main/messagequeue.go, as operators on sequences *)
(* of queue entries.  An entry is a record with the fields of the struct   *)
(* QueueEntry that the algorithms look at: its priority (a smaller number  *)
(* is more important), the clock value outdatedAt and the payload data.    *)
(*                                                                         *)
(* prune is given twice: in closed form, which the model uses, and as the  *)
(* loops of the code, which the closed form is shown to agree with.        *)
(***************************************************************************)
EXTENDS Integers, Sequences, FiniteSets

(* time.Time.Before: an entry is still good at the instant outdatedAt.     *)
Outdated(e, now) == e.outdatedAt < now

(* The smallest and the largest element of a non-empty finite set.         *)
FirstOf(S) == CHOOSE i \in S : \A j \in S : i <= j
LastOf(S)  == CHOOSE i \in S : \A j \in S : j <= i

(***************************************************************************)
(* The contract of sort.Search(n, f): the smallest index in 0..n-1 at      *)
(* which f is true, n if there is none; here 1..Len(s)+1 with f given as   *)
(* the set of indices at which it holds.  The library searches by          *)
(* bisection, so the contract binds only if f is monotone, which it is on  *)
(* a queue ordered by priority.                                            *)
(***************************************************************************)
Search(n, true) == FirstOf(true \cup {n + 1})

(* Mutant: the >= that the comment in findInsertPosition warns against.    *)
findInsertPosition_AtEqual(s, priority) ==
    Search(Len(s), {i \in 1..Len(s) : s[i].priority >= priority})

(* "> instead of >= so we get to the first entry that is larger"           *)
findInsertPosition(s, priority) ==
    Search(Len(s), {i \in 1..Len(s) : s[i].priority > priority})

(* Put's append-and-shift: the entry goes to its insert position, what was *)
(* there moves up by one.  On an empty slice it becomes the only element.  *)
Insert(s, e) ==
    LET index == findInsertPosition(s, e.priority) IN
    SubSeq(s, 1, index - 1) \o <<e>> \o SubSeq(s, index, Len(s))

(***************************************************************************)
(* The subsequence of s at the indices K: its k-th element is the one of   *)
(* K with k indices of K up to and including it.                           *)
(***************************************************************************)
Rank(K, i) == Cardinality({j \in K : j <= i})
Keep(s, K) == [k \in 1..Cardinality(K) |-> s[CHOOSE i \in K : Rank(K, i) = k]]

(* The entries prune copies into its priority categories.                  *)
Usable(s, now) == Keep(s, {i \in 1..Len(s) : ~Outdated(s[i], now)})

(* Mutant: the newest entries of the last category are dropped.            *)
DropExcess_Newest(u, maxSize) ==
    IF Len(u) <= maxSize THEN u ELSE SubSeq(u, 1, maxSize)

(***************************************************************************)
(* The second half of prune.  Walking the categories from the least        *)
(* important one down, it drops whole categories until the one that holds  *)
(* index maxSize + 1, and drops the oldest entries of that one, so that    *)
(* maxSize entries are left.  [lo, hi] is that category.                   *)
(***************************************************************************)
DropExcess(u, maxSize) ==
    IF Len(u) <= maxSize THEN u
    ELSE LET category == {i \in 1..Len(u) :
                              u[i].priority = u[maxSize + 1].priority}
             lo == FirstOf(category)
             hi == LastOf(category)
         IN  SubSeq(u, 1, lo - 1) \o SubSeq(u, lo + hi - maxSize, hi)

prune(s, now, maxSize) == DropExcess(Usable(s, now), maxSize)

(***************************************************************************)
(* prune, loop by loop.  The first loop goes through the slice and copies  *)
(* what is not outdated: copied[n] is what it has copied after n entries.  *)
(***************************************************************************)
UsableLoop(s, now) ==
    LET copied[n \in 0..Len(s)] ==
            IF n = 0 THEN <<>>
            ELSE IF Outdated(s[n], now) THEN copied[n - 1]
            ELSE Append(copied[n - 1], s[n])
    IN  copied[Len(s)]

(* It begins a new category wherever the priority differs from the one     *)
(* before, so the category of the n-th entry is the run of its priority.   *)
CategoryStart(u, n) ==
    FirstOf({i \in 1..n : \A j \in i..n : u[j].priority = u[n].priority})

(***************************************************************************)
(* The second loop takes the categories from the last one down.  cut[n] is *)
(* what is left of the first n entries when toBeRemoved of them go.        *)
(***************************************************************************)
CategoryLoop(u, excess) ==
    LET cut[n \in 0..Len(u)] == [toBeRemoved \in Nat \ {0} |->
            LET first == CategoryStart(u, n)
                size  == n - first + 1
            IN  IF n = 0 THEN <<>>
                ELSE IF size >= toBeRemoved
                THEN SubSeq(u, 1, first - 1) \o SubSeq(u, first + toBeRemoved, n)
                ELSE cut[first - 1][toBeRemoved - size]]
    IN  cut[Len(u)][excess]

PruneLoop(s, now, maxSize) ==
    LET u == UsableLoop(s, now)
        toBeRemoved == Len(u) - maxSize
    IN  IF toBeRemoved > 0 THEN CategoryLoop(u, toBeRemoved) ELSE u

(* getFirstUsableIndex, with 0 for its -1.                                 *)
getFirstUsableIndex(s, now) ==
    LET good == {i \in 1..Len(s) : ~Outdated(s[i], now)} IN
    IF good = {} THEN 0 ELSE FirstOf(good)

(***************************************************************************)
(* What getFirst leaves in the queue: nothing if every entry is outdated,  *)
(* otherwise the entries after the first usable one, and that one too      *)
(* unless it is removed.                                                   *)
(***************************************************************************)
Stripped(s, now, remove) ==
    LET index == getFirstUsableIndex(s, now)
        gone  == IF remove THEN index ELSE index - 1
    IN  IF index = 0 THEN <<>>
        ELSE SubSeq(s, gone + 1, Len(s))

(***************************************************************************)
(* The order of the queue: by priority, and by arrival (data holds the     *)
(* arrival number) among entries of equal priority.                        *)
(***************************************************************************)
Precedes(d, e) ==
    \/ d.priority < e.priority
    \/ d.priority = e.priority /\ d.data < e.data

Ordered(s) == \A i, j \in 1..Len(s) : i < j => Precedes(s[i], s[j])

==============================================================================
