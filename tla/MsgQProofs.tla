----------------------------- MODULE MsgQProofs -----------------------------
(***************************************************************************)
(* Machine-checked proofs about the message queue, for any senders,        *)
(* messages and filters: the reference counts of filters and events, and   *)
(* that a receive takes the oldest message it asks for.                    *)
(***************************************************************************)
EXTENDS MsgQ, TLAPS

(* What the steps need to know of numbers and of finite sets.  It is       *)
(* proved at the end, from the theorems of the library.                    *)
HasLeast == \A P \in SUBSET Nat : P # {} => \E i \in P : \A j \in P : i <= j

CountsSenders ==
    \A S \in SUBSET Senders :
      /\ Cardinality(S) \in Nat /\ (Cardinality(S) = 0 <=> S = {})
      /\ \A x \in Senders \ S : Cardinality(S \cup {x}) = Cardinality(S) + 1

(***************************************************************************)
(* The queue and its search.                                               *)
(***************************************************************************)

(* A sequence without its element i. *)
LEMMA RemoveAtElements ==
    ASSUME NEW S, NEW q \in Seq(S), NEW i \in DOMAIN q
    PROVE  /\ RemoveAt(q, i) \in Seq(S)
           /\ Len(RemoveAt(q, i)) = Len(q) - 1
           /\ \A j \in 1 .. Len(q) - 1 :
                /\ j < i => RemoveAt(q, i)[j] = q[j]
                /\ j >= i => RemoveAt(q, i)[j] = q[j + 1]
<1>1. Len(q) \in Nat /\ i \in 1 .. Len(q)
  OBVIOUS
<1>2. PICK a : a = SubSeq(q, 1, i - 1)
  BY Zenon
<1>3. PICK b : b = SubSeq(q, i + 1, Len(q))
  BY Zenon
<1>4. a \in Seq(S) /\ Len(a) = i - 1 /\ \A j \in 1 .. i - 1 : a[j] = q[j]
  BY <1>1, <1>2
<1>5. b \in Seq(S) /\ Len(b) = Len(q) - i
  BY <1>1, <1>3
<1>6. \A j \in 1 .. Len(q) - i : b[j] = q[i + j]
  BY <1>1, <1>3
<1>7. RemoveAt(q, i) = a \o b
  BY <1>2, <1>3 DEF RemoveAt
<1>8. a \o b \in Seq(S) /\ Len(a \o b) = Len(q) - 1
  BY <1>1, <1>4, <1>5
<1>9. ASSUME NEW j \in 1 .. Len(q) - 1, j < i
      PROVE  (a \o b)[j] = q[j]
  BY <1>1, <1>4, <1>5, <1>9
<1>10. ASSUME NEW j \in 1 .. Len(q) - 1, j >= i
       PROVE  (a \o b)[j] = q[j + 1]
  <2>1. (a \o b)[j] = b[j - (i - 1)]
    BY <1>1, <1>4, <1>5, <1>10
  <2>2. j - (i - 1) \in 1 .. Len(q) - i /\ i + (j - (i - 1)) = j + 1
    BY <1>1, <1>10
  <2>3. QED
    BY <1>6, <2>1, <2>2
<1>11. QED
  BY <1>7, <1>8, <1>9, <1>10

(* A queue without its element i has the others, each of them once. *)
LEMMA RemoveAtInjective ==
    ASSUME NEW S, NEW q \in Seq(S), NEW i \in DOMAIN q,
           \A j, k \in DOMAIN q : q[j] = q[k] => j = k
    PROVE  /\ \A j, k \in DOMAIN RemoveAt(q, i) :
                RemoveAt(q, i)[j] = RemoveAt(q, i)[k] => j = k
           /\ \A j \in DOMAIN RemoveAt(q, i) : \E k \in DOMAIN q : RemoveAt(q, i)[j] = q[k]
           /\ \A k \in DOMAIN q : k # i => \E j \in DOMAIN RemoveAt(q, i) : RemoveAt(q, i)[j] = q[k]
<1>1. PICK p \in Seq(S) : p = RemoveAt(q, i)
  BY RemoveAtElements
<1>2. /\ Len(p) = Len(q) - 1
      /\ \A j \in 1 .. Len(q) - 1 : (j < i => p[j] = q[j]) /\ (j >= i => p[j] = q[j + 1])
  BY <1>1, RemoveAtElements
<1>3. /\ Len(q) \in Nat /\ i \in 1 .. Len(q)
      /\ DOMAIN q = 1 .. Len(q) /\ DOMAIN p = 1 .. Len(q) - 1
  BY <1>2
<1>4. \A j \in DOMAIN p : j \in DOMAIN q /\ j + 1 \in DOMAIN q /\ (j < i \/ j >= i)
  BY <1>3
<1>5. ASSUME NEW j \in DOMAIN p, NEW k \in DOMAIN p, p[j] = p[k]
      PROVE  j = k
  BY <1>2, <1>3, <1>4, <1>5
<1>6. \A j \in DOMAIN p : \E k \in DOMAIN q : p[j] = q[k]
  BY <1>2, <1>3, <1>4
<1>7. ASSUME NEW k \in DOMAIN q, k # i
      PROVE  \E j \in DOMAIN p : p[j] = q[k]
  <2>1. CASE k < i
    BY <1>2, <1>3, <2>1
  <2>2. CASE k > i
    <3>1. k - 1 \in DOMAIN p /\ k - 1 \in 1 .. Len(q) - 1 /\ k - 1 >= i /\ (k - 1) + 1 = k
      BY <1>3, <2>2
    <3>2. QED
      BY <1>2, <3>1
  <2>3. k < i \/ k > i
    BY <1>3, <1>7
  <2>4. QED
    BY <2>1, <2>2, <2>3
<1>8. QED
  BY <1>1, <1>5, <1>6, <1>7

(* prs_msgq_search finds the oldest message asked for, if what is before   *)
(* the hint was searched before.                                           *)
LEMMA SearchFinds ==
    ASSUME HasLeast, TypeOK, IsInjective(queue), NEW want, NEW hint,
           hint # None =>
             \E h \in DOMAIN queue :
               /\ queue[h] = hint
               /\ \A i \in DOMAIN queue : i < h => ~Matches(want, queue[i])
    PROVE  \/ /\ Search(want, hint) = None
              /\ \A i \in DOMAIN queue : ~Matches(want, queue[i])
           \/ /\ Search(want, hint) # None /\ Search(want, hint) \in Msgs
              /\ \E j \in DOMAIN queue :
                   /\ queue[j] = Search(want, hint) /\ Matches(want, queue[j])
                   /\ \A i \in DOMAIN queue : i < j => ~Matches(want, queue[i])
<1> DEFINE from == IF hint = None THEN 1
                   ELSE CHOOSE i \in DOMAIN queue : queue[i] = hint
           found == { i \in from .. Len(queue) : Matches(want, queue[i]) }
           least == CHOOSE i \in found : \A j \in found : i <= j
<1>1. /\ queue \in Seq(Msgs) /\ Len(queue) \in Nat /\ DOMAIN queue = 1 .. Len(queue)
      /\ \A i \in DOMAIN queue : queue[i] \in Msgs /\ queue[i] # None
  BY MsgQAssumption DEF TypeOK
<1>2. /\ from \in Nat \ {0}
      /\ \A i \in DOMAIN queue : i < from => ~Matches(want, queue[i])
  <2>1. CASE hint = None
    BY <1>1, <2>1
  <2>2. CASE hint # None
    <3>1. PICK h \in DOMAIN queue :
             /\ queue[h] = hint
             /\ \A i \in DOMAIN queue : i < h => ~Matches(want, queue[i])
      BY <2>2
    <3>2. \A i \in DOMAIN queue : queue[i] = hint => i = h
      BY <3>1, Zenon DEF IsInjective
    <3>3. from = h
      BY <2>2, <3>1, <3>2
    <3> HIDE DEF from
    <3>4. h \in Nat \ {0}
      BY <1>1
    <3>5. QED
      BY <3>1, <3>3, <3>4
  <2>3. QED
    BY <2>1, <2>2
<1>3. Search(want, hint) = IF found = {} THEN None ELSE queue[least]
  BY Zenon DEF Search
<1> HIDE DEF from
<1>4. found \subseteq DOMAIN queue /\ found \in SUBSET Nat
  BY <1>1, <1>2
<1>5. ASSUME NEW i \in DOMAIN queue, Matches(want, queue[i])
      PROVE  i \in found
  BY <1>1, <1>2, <1>5
<1>6. CASE found = {}
  BY <1>3, <1>5, <1>6
<1>7. CASE found # {}
  <2>1. least \in found /\ \A j \in found : least <= j
    BY <1>4, <1>7, Zenon DEF HasLeast
  <2>2. Matches(want, queue[least])
    BY <2>1
  <2> HIDE DEF least, found
  <2>3. least \in DOMAIN queue /\ least \in Nat
    BY <1>4, <2>1
  <2>4. \A i \in DOMAIN queue : i < least => ~Matches(want, queue[i])
    BY <1>1, <1>5, <2>1, <2>3
  <2>5. QED
    BY <1>1, <1>3, <1>7, <2>2, <2>3, <2>4
<1>8. QED
  BY <1>6, <1>7

(***************************************************************************)
(* What a step leaves alone.                                               *)
(***************************************************************************)

(* The receiver goes on to a, and keeps its other locals. *)
RecvGoes(a) ==
    /\ r'.at = a
    /\ r'.want = r.want /\ r'.timed = r.timed /\ r'.left = r.left
    /\ r'.hint = r.hint /\ r'.msg = r.msg /\ r'.f = r.f /\ r'.expected = r.expected

(* Sender x goes on to a with filter f; the others do nothing. *)
SendGoes(x, a, f) ==
    /\ s'[x].at = a /\ s'[x].f = f
    /\ \A y \in Senders \ {x} : s'[y] = s[y]

(* Only the place of the receiver is assigned. *)
LEMMA RecvMoves ==
    ASSUME TypeOK, NEW a \in HasFilter \cup {"idle", "loop", "remove"}, r' = [r EXCEPT !.at = a]
    PROVE  RecvGoes(a) /\ r' \in Receiver
<1>1. r \in Receiver
  BY DEF TypeOK
<1>2. QED
  BY <1>1 DEF Receiver, RecvGoes

(* Only the place of sender x is assigned. *)
LEMMA SendMoves ==
    ASSUME TypeOK, NEW x \in Senders, NEW a \in HasLocked \cup {"idle", "load", "lock"},
           s' = [s EXCEPT ![x].at = a]
    PROVE  SendGoes(x, a, s[x].f) /\ s' \in [Senders -> Sender] /\ s'[x].msg = s[x].msg
<1>1. s \in [Senders -> Sender]
  BY DEF TypeOK
<1>2. s[x] \in Sender
  BY <1>1
<1>3. [s[x] EXCEPT !.at = a] \in Sender
  BY <1>2 DEF Sender
<1>4. /\ [s[x] EXCEPT !.at = a].at = a /\ [s[x] EXCEPT !.at = a].f = s[x].f
      /\ [s[x] EXCEPT !.at = a].msg = s[x].msg
  BY <1>2 DEF Sender
<1>5. s' = [s EXCEPT ![x] = [s[x] EXCEPT !.at = a]]
  BY <1>1
<1>6. QED
  BY <1>1, <1>3, <1>4, <1>5 DEF SendGoes

(* The call of sender x is over. *)
LEMMA SendEnds ==
    ASSUME TypeOK, NEW x \in Senders, s' = [s EXCEPT ![x] = SIdle]
    PROVE  SendGoes(x, "idle", NoId) /\ s' \in [Senders -> Sender]
<1>1. s \in [Senders -> Sender]
  BY DEF TypeOK
<1>2. SIdle \in Sender /\ SIdle.at = "idle" /\ SIdle.f = NoId
  BY DEF SIdle, Sender
<1>3. QED
  BY <1>1, <1>2 DEF SendGoes

(* Neither the queue nor what the receiver has found in it changes. *)
LEMMA SearchStable ==
    ASSUME SearchInv, UNCHANGED <<queue, sent>>,
           r'.want = r.want, r'.hint = r.hint, r'.msg = r.msg,
           r'.at = "remove" => r.msg # None,
           r'.at \in {"loop", "set", "search", "sleep"} => r.msg = None
    PROVE  SearchInv'
  BY DEF SearchInv, Oldest

(* No reference of a filter comes or goes. *)
LEMMA RefsStable ==
    ASSUME FilterRefsAreUsers,
           \A f \in Filters : filter'[f].refcnt = filter[f].refcnt,
           \A f \in Filters : Published(f)' <=> Published(f),
           \A f \in Filters, x \in Senders : Locks(x, f)' <=> Locks(x, f)
    PROVE  FilterRefsAreUsers'
<1>1. \A f \in Filters : Users(f)' = Users(f)
  BY DEF Users
<1>2. \A f \in Filters : One(Published(f))' = One(Published(f))
  BY DEF One
<1>3. QED
  BY <1>1, <1>2 DEF FilterRefsAreUsers

(* No reference of an event comes or goes. *)
LEMMA EventsStable ==
    ASSUME EventRefsAreSources, UNCHANGED event,
           \A e \in Filters : SendSource(e)' <=> SendSource(e),
           \A e \in Filters : TimerSource(e)' <=> TimerSource(e),
           \A e \in Filters : RecvSource(e)' <=> RecvSource(e)
    PROVE  EventRefsAreSources'
  BY DEF EventRefsAreSources, One

(* The senders that have locked a filter can be counted. *)
LEMMA UsersFinite ==
    ASSUME CountsSenders
    PROVE  \A f : Users(f) \in SUBSET Senders /\ Cardinality(Users(f)) \in Nat
  BY DEF Users, CountsSenders

(* Sender x locks filter g: it is one more. *)
LEMMA RefsGrow ==
    ASSUME CountsSenders, FilterRefsAreUsers, NEW x \in Senders, NEW g \in Filters,
           filter'[g].refcnt = filter[g].refcnt + 1,
           \A f \in Filters \ {g} : filter'[f].refcnt = filter[f].refcnt,
           \A f \in Filters : Published(f)' <=> Published(f),
           \A f \in Filters, y \in Senders : Locks(y, f)' <=> Locks(y, f) \/ (y = x /\ f = g),
           ~Locks(x, g)
    PROVE  FilterRefsAreUsers'
<1>1. /\ Users(g)' = Users(g) \cup {x} /\ x \notin Users(g)
      /\ \A f \in Filters \ {g} : Users(f)' = Users(f)
  BY DEF Users
<1>2. Cardinality(Users(g)') = Cardinality(Users(g)) + 1
  BY <1>1, UsersFinite DEF CountsSenders
<1>3. \A f \in Filters : One(Published(f))' = One(Published(f)) /\ One(Published(f)) \in Nat
  BY DEF One
<1>4. \A f \in Filters :
        /\ filter[f].refcnt = One(Published(f)) + Cardinality(Users(f))
        /\ Cardinality(Users(f)) \in Nat
  BY UsersFinite DEF FilterRefsAreUsers
<1>5. filter'[g].refcnt = One(Published(g))' + Cardinality(Users(g)')
  BY <1>2, <1>3, <1>4
<1>6. \A f \in Filters \ {g} : filter'[f].refcnt = One(Published(f))' + Cardinality(Users(f)')
  BY <1>1, <1>3, <1>4
<1>7. QED
  BY <1>5, <1>6 DEF FilterRefsAreUsers

(* Sender x gives back filter g: it is one less. *)
LEMMA RefsShrink ==
    ASSUME CountsSenders, TypeOK, FilterRefsAreUsers,
           NEW x \in Senders, NEW g \in Filters, Locks(x, g),
           filter'[g].refcnt = filter[g].refcnt - 1,
           \A f \in Filters \ {g} : filter'[f].refcnt = filter[f].refcnt,
           \A f \in Filters : Published(f)' <=> Published(f),
           \A f \in Filters, y \in Senders : Locks(y, f)' <=> Locks(y, f) /\ ~(y = x /\ f = g)
    PROVE  FilterRefsAreUsers'
<1>1. /\ Users(g)' = Users(g) \ {x} /\ x \in Users(g)
      /\ \A f \in Filters \ {g} : Users(f)' = Users(f)
  BY DEF Users
<1>2. Cardinality(Users(g)') = Cardinality(Users(g)) - 1
  <2>1. PICK S \in SUBSET Senders : S = Users(g)'
    BY Zenon DEF Users
  <2>2. x \in Senders \ S /\ Users(g) = S \cup {x}
    BY <1>1, <2>1
  <2>3. QED
    BY <2>1, <2>2 DEF CountsSenders
<1>3. \A f \in Filters : One(Published(f))' = One(Published(f)) /\ One(Published(f)) \in Nat
  BY DEF One
<1>4. \A f \in Filters :
        /\ filter[f].refcnt = One(Published(f)) + Cardinality(Users(f))
        /\ Cardinality(Users(f)) \in Nat
  BY UsersFinite DEF FilterRefsAreUsers
<1>5. filter'[g].refcnt = One(Published(g))' + Cardinality(Users(g)')
  BY <1>2, <1>3, <1>4
<1>6. \A f \in Filters \ {g} : filter'[f].refcnt = One(Published(f))' + Cardinality(Users(f)')
  BY <1>1, <1>3, <1>4
<1>7. QED
  BY <1>5, <1>6 DEF FilterRefsAreUsers

(* A filter that a sender has locked, or the receiver has published, has a *)
(* reference.                                                              *)
LEMMA Referenced ==
    ASSUME CountsSenders, TypeOK, FilterRefsAreUsers, NEW f \in Filters,
           Published(f) \/ \E x \in Senders : Locks(x, f)
    PROVE  filter[f].refcnt \in Nat \ {0}
<1>1. filter[f].refcnt = One(Published(f)) + Cardinality(Users(f)) /\ Cardinality(Users(f)) \in Nat
  BY UsersFinite DEF FilterRefsAreUsers
<1>2. CASE Published(f)
  BY <1>1, <1>2 DEF One
<1>3. CASE \E x \in Senders : Locks(x, f)
  <2>1. Users(f) # {}
    BY <1>3 DEF Users
  <2>2. Cardinality(Users(f)) # 0
    BY <2>1, UsersFinite DEF CountsSenders
  <2>3. QED
    BY <1>1, <2>2 DEF One
<1>4. QED
  BY <1>2, <1>3

(***************************************************************************)
(* The steps of the receiver.                                              *)
(***************************************************************************)

(* What FilterInv says survives a step of the senders that leaves those    *)
(* at prs_event_signal where they are.                                     *)
LEMMA SendersMove ==
    ASSUME FilterInv, UNCHANGED <<filter_id, filter, timer, r, used, abandoned>>,
           \A y \in Senders : s'[y].at = "signal" <=> s[y].at = "signal",
           \A y \in Senders : s[y].at = "signal" => s'[y] = s[y],
           \A y \in Senders : s'[y].at \in HasLocked \cup {"lock"} => s'[y].f \in 1 .. used
    PROVE  FilterInv'
  BY DEF FilterInv

(* A step that changes nothing but the receiver's locals, outside of the   *)
(* part of the receive that has a filter.                                  *)
LEMMA OutsideStable ==
    ASSUME MsgQInv, r.at \notin HasFilter, r'.at \notin HasFilter,
           UNCHANGED <<filter_id, filter, event, timer, blocked, cause, s, used, abandoned>>
    PROVE  FilterInv' /\ FilterRefsAreUsers' /\ EventRefsAreSources'
<1>1. /\ TypeOK /\ FilterInv /\ FilterRefsAreUsers /\ EventRefsAreSources
  BY DEF MsgQInv
<1>2. \A f \in Filters : ~filter[f].event
  BY <1>1 DEF FilterInv, HasFilter
<1>3. FilterInv'
  BY <1>1, <1>2 DEF FilterInv, HasFilter
<1>4. FilterRefsAreUsers'
  BY <1>1, RefsStable DEF Published, Locks
<1>5. EventRefsAreSources'
  BY <1>1, EventsStable DEF SendSource, TimerSource, RecvSource, HasFilter
<1>6. QED
  BY <1>3, <1>4, <1>5

(* The first search of a receive. *)
LEMMA RecvBeginStep ==
    ASSUME HasLeast, MsgQInv, NEW c \in Calls, RecvBegin(c)
    PROVE  MsgQInv'
<1>1. TypeOK /\ SearchInv
  BY DEF MsgQInv
<1>2. PICK m : m = Search(c.want, None)
  OBVIOUS
<1>3. PICK h : h = Hint(c.want, None)
  OBVIOUS
<1>4. \/ m = None /\ \A i \in DOMAIN queue : ~Matches(c.want, queue[i])
      \/ /\ m # None /\ m \in Msgs
         /\ \E j \in DOMAIN queue :
              /\ queue[j] = m /\ Matches(c.want, queue[j])
              /\ \A i \in DOMAIN queue : i < j => ~Matches(c.want, queue[i])
  BY <1>1, <1>2, SearchFinds DEF SearchInv
<1>5. c.want \in Wants /\ c.timed \in BOOLEAN
  BY Zenon DEF Calls, PlainRecvs, TimedRecvs
<1>6. h \in Msgs \cup {None} /\ (h # None => m = None /\ h = queue[Len(queue)] /\ queue # <<>>)
  BY <1>1, <1>2, <1>3 DEF Hint, TypeOK
<1>7. /\ r.at = "idle"
      /\ r' = [RIdle EXCEPT !.at = IF m = None THEN "loop" ELSE "remove",
                            !.want = c.want, !.timed = c.timed, !.left = c.timed,
                            !.msg = m, !.hint = h]
      /\ UNCHANGED <<queue, filter_id, filter, event, timer, blocked, cause, s, sent, used,
                     abandoned>>
  BY <1>2, <1>3 DEF RecvBegin
<1>8. /\ r'.at = IF m = None THEN "loop" ELSE "remove"
      /\ r'.want = c.want /\ r'.msg = m /\ r'.hint = h
      /\ r' \in Receiver
  BY <1>4, <1>5, <1>6, <1>7, Zenon DEF RIdle, Receiver
<1>9. TypeOK'
  BY <1>1, <1>7, <1>8 DEF TypeOK
<1>10. SearchInv'
  <2>1. h # None => Len(queue) \in DOMAIN queue
    BY <1>1, <1>6 DEF TypeOK
  <2>2. QED
    BY <1>1, <1>4, <1>6, <1>7, <1>8, <2>1 DEF SearchInv, Oldest
<1>11. r.at \notin HasFilter /\ r'.at \notin HasFilter
  BY <1>7, <1>8 DEF HasFilter
<1>12. QED
  BY <1>7, <1>9, <1>10, <1>11, OutsideStable DEF MsgQInv

(* A receive whose time is over returns. *)
LEMMA RecvTimeoutStep ==
    ASSUME MsgQInv, RecvTimeout
    PROVE  MsgQInv'
<1>1. TypeOK /\ SearchInv
  BY DEF MsgQInv
<1>2. RIdle \in Receiver /\ RIdle.at = "idle" /\ RIdle.hint = None /\ RIdle.msg = None
  BY DEF RIdle, Receiver
<1>3. /\ r.at = "loop" /\ r' = RIdle
      /\ UNCHANGED <<queue, filter_id, filter, event, timer, blocked, cause, s, sent, used,
                     abandoned>>
  BY DEF RecvTimeout
<1>4. TypeOK'
  BY <1>1, <1>2, <1>3 DEF TypeOK
<1>5. SearchInv'
  BY <1>1, <1>2, <1>3 DEF SearchInv
<1>6. r.at \notin HasFilter /\ r'.at \notin HasFilter
  BY <1>2, <1>3 DEF HasFilter
<1>7. QED
  BY <1>3, <1>4, <1>5, <1>6, OutsideStable DEF MsgQInv

(* prs_mpsciq_remove takes the message and the receive is over. *)
LEMMA RemoveMsgStep ==
    ASSUME MsgQInv, RemoveMsg
    PROVE  /\ MsgQInv'
           /\ \E j \in DOMAIN queue :
                /\ queue[j] = r.msg /\ Matches(r.want, r.msg)
                /\ \A i \in DOMAIN queue : i < j => ~Matches(r.want, queue[i])
                /\ \A i \in DOMAIN queue : i # j => \E k \in DOMAIN queue' : queue'[k] = queue[i]
<1>1. TypeOK /\ SearchInv
  BY DEF MsgQInv
<1>2. /\ queue \in Seq(Msgs) /\ \A i, j \in DOMAIN queue : queue[i] = queue[j] => i = j
  BY <1>1, Zenon DEF TypeOK, SearchInv, IsInjective
<1>3. PICK j \in DOMAIN queue :
        /\ queue[j] = r.msg /\ Matches(r.want, r.msg)
        /\ \A i \in DOMAIN queue : i < j => ~Matches(r.want, queue[i])
  BY <1>1 DEF RemoveMsg, SearchInv, Oldest
<1>4. (CHOOSE i \in DOMAIN queue : queue[i] = r.msg) = j
  BY <1>2, <1>3
<1>5. /\ queue' = RemoveAt(queue, j) /\ r.at = "remove" /\ r' = RIdle
      /\ UNCHANGED <<filter_id, filter, event, timer, blocked, cause, s, sent, used, abandoned>>
  BY <1>4, Zenon DEF RemoveMsg
<1>6. /\ queue' \in Seq(Msgs)
      /\ \A i, k \in DOMAIN queue' : queue'[i] = queue'[k] => i = k
      /\ \A i \in DOMAIN queue' : \E k \in DOMAIN queue : queue'[i] = queue[k]
      /\ \A i \in DOMAIN queue : i # j => \E k \in DOMAIN queue' : queue'[k] = queue[i]
  <2>1. RemoveAt(queue, j) \in Seq(Msgs)
    BY <1>2, RemoveAtElements
  <2>2. /\ \A i, k \in DOMAIN RemoveAt(queue, j) :
             RemoveAt(queue, j)[i] = RemoveAt(queue, j)[k] => i = k
        /\ \A i \in DOMAIN RemoveAt(queue, j) :
             \E k \in DOMAIN queue : RemoveAt(queue, j)[i] = queue[k]
        /\ \A i \in DOMAIN queue :
             i # j => \E k \in DOMAIN RemoveAt(queue, j) : RemoveAt(queue, j)[k] = queue[i]
    BY <1>2, RemoveAtInjective, Zenon
  <2>3. QED
    BY <1>5, <2>1, <2>2
<1>7. RIdle \in Receiver /\ RIdle.at = "idle" /\ RIdle.hint = None /\ RIdle.msg = None
  BY DEF RIdle, Receiver
<1>8. TypeOK'
  BY <1>1, <1>5, <1>6, <1>7 DEF TypeOK
<1>9. SearchInv'
  <2>1. IsInjective(queue')
    BY <1>6, Zenon DEF IsInjective
  <2>2. \A i \in DOMAIN queue' : queue'[i] \in sent
    BY <1>1, <1>6 DEF SearchInv
  <2>3. QED
    BY <1>5, <1>7, <2>1, <2>2 DEF SearchInv
<1>10. r.at \notin HasFilter /\ r'.at \notin HasFilter
  BY <1>5, <1>7 DEF HasFilter
<1>11. MsgQInv'
  BY <1>5, <1>8, <1>9, <1>10, OutsideStable DEF MsgQInv
<1>12. QED
  BY <1>3, <1>6, <1>11

(* prs_msgq_filter_create and prs_msgq_alloc_event: a filter and an event  *)
(* that nobody has used before.                                            *)
LEMMA FilterCreateStep ==
    ASSUME CountsSenders, MsgQInv, FilterCreate
    PROVE  MsgQInv'
<1>1. TypeOK /\ FilterInv /\ SearchInv /\ FilterRefsAreUsers /\ EventRefsAreSources
  BY DEF MsgQInv
<1>2. PICK f \in Filters : f = used + 1 /\ f \notin 1 .. used /\ ~(f <= used)
  BY <1>1, MsgQAssumption DEF FilterCreate, TypeOK, Filters
<1>3. /\ r.at = "loop" /\ used' = f /\ blocked' = f /\ cause' = "none"
      /\ filter' = [filter EXCEPT ![f] = [refcnt |-> 1, event |-> TRUE]]
      /\ event' = [event EXCEPT ![f] = IF r.timed THEN 3 ELSE 2]
      /\ r' = [r EXCEPT !.at = "set", !.f = f]
      /\ UNCHANGED <<queue, filter_id, timer, s, sent, abandoned>>
  BY <1>2 DEF FilterCreate
<1>4. /\ r'.at = "set" /\ r'.f = f /\ r'.timed = r.timed /\ r'.want = r.want
      /\ r'.hint = r.hint /\ r'.msg = r.msg /\ r' \in Receiver /\ r.timed \in BOOLEAN
  <2>1. r \in Receiver
    BY <1>1 DEF TypeOK
  <2>2. QED
    BY <1>3, <2>1, Zenon DEF Receiver, HasFilter
<1>5. used' \in 0 .. MaxFilters /\ \A n \in 1 .. used : n \in 1 .. used' /\ n # f
  BY <1>1, <1>2, <1>3, MsgQAssumption DEF TypeOK, Filters
<1>6. /\ \A x \in Senders : s[x].at \in HasLocked \cup {"lock"} => s[x].f # f
      /\ timer[f] = "none" /\ f \notin abandoned
      /\ \A g \in Filters : ~filter[g].event
  BY <1>1, <1>2, <1>3 DEF FilterInv
<1>7. /\ filter'[f].refcnt = 1 /\ filter'[f].event /\ event'[f] = IF r.timed THEN 3 ELSE 2
      /\ \A g \in Filters \ {f} : filter'[g] = filter[g] /\ event'[g] = event[g]
      /\ filter' \in [Filters -> [refcnt : Nat, event : BOOLEAN]]
      /\ event' \in [Filters -> 0 .. 3]
  BY <1>1, <1>3 DEF TypeOK
<1>8. TypeOK'
  BY <1>1, <1>3, <1>4, <1>5, <1>7 DEF TypeOK
<1>9. FilterInv'
  <2>1. \A g \in Filters : g <= used => g <= used'
    BY <1>1, <1>2, <1>3 DEF TypeOK, Filters
  <2>2. f \in 1 .. used'
    BY <1>1, <1>2, <1>3 DEF TypeOK
  <2>3. abandoned \subseteq Filters
    BY <1>1 DEF TypeOK
  <2>4. QED
    BY <1>1, <1>3, <1>4, <1>5, <1>6, <1>7, <2>1, <2>2, <2>3 DEF FilterInv, HasLocked
<1>10. SearchInv'
  BY <1>1, <1>3, <1>4, SearchStable DEF SearchInv
<1>11. FilterRefsAreUsers'
  <2>1. \A g \in Filters : ~Published(g) /\ (Published(g)' <=> g = f)
    BY <1>3, <1>4 DEF Published, HasFilter
  <2>2. Users(f)' = {} /\ \A g \in Filters : Users(g)' = Users(g)
    BY <1>3, <1>6 DEF Users, Locks
  <2>3. Cardinality(Users(f)') = 0
    BY <2>2 DEF CountsSenders
  <2>4. \A g \in Filters \ {f} : filter'[g].refcnt = One(Published(g))' + Cardinality(Users(g)')
    BY <1>1, <1>7, <2>1, <2>2 DEF FilterRefsAreUsers, One
  <2>5. filter'[f].refcnt = One(Published(f))' + Cardinality(Users(f)')
    BY <1>7, <2>1, <2>3 DEF One
  <2>6. QED
    BY <2>4, <2>5 DEF FilterRefsAreUsers
<1>12. EventRefsAreSources'
  <2>1. \A e \in Filters \ {f} :
          /\ SendSource(e)' <=> SendSource(e)
          /\ TimerSource(e)' <=> TimerSource(e)
          /\ RecvSource(e)' <=> RecvSource(e)
    BY <1>3, <1>4, <1>7 DEF SendSource, TimerSource, RecvSource, HasFilter
  <2>2. SendSource(f)' /\ RecvSource(f)' /\ (TimerSource(f)' <=> r.timed)
    BY <1>3, <1>4, <1>6, <1>7 DEF SendSource, TimerSource, RecvSource, HasFilter
  <2>3. \A e \in Filters \ {f} :
          event'[e] = One(SendSource(e))' + One(TimerSource(e))' + One(RecvSource(e))'
    BY <1>1, <1>7, <2>1 DEF EventRefsAreSources, One
  <2>4. event'[f] = One(SendSource(f))' + One(TimerSource(f))' + One(RecvSource(f))'
    BY <1>7, <2>2 DEF One
  <2>5. QED
    BY <2>3, <2>4 DEF EventRefsAreSources
<1>13. QED
  BY <1>8, <1>9, <1>10, <1>11, <1>12 DEF MsgQInv

(* prs_msgq_filter_set and prs_msgq_filter_reset. *)
LEMMA FilterIdStep ==
    ASSUME MsgQInv, FilterSet \/ FilterReset
    PROVE  MsgQInv'
<1>1. TypeOK /\ FilterInv /\ SearchInv /\ FilterRefsAreUsers /\ EventRefsAreSources
  BY DEF MsgQInv
<1>2. PICK a \in {"search", "unref"} : RecvGoes(a) /\ r' \in Receiver
        /\ \/ a = "search" /\ r.at = "set" /\ filter_id' = r.f
           \/ a = "unref" /\ r.at = "reset" /\ filter_id' = NoId
  BY <1>1, RecvMoves DEF FilterSet, FilterReset, HasFilter
<1>3. UNCHANGED <<queue, filter, event, timer, blocked, cause, s, sent, used, abandoned>>
  BY DEF FilterSet, FilterReset
<1>4. filter_id' \in Filters \cup {NoId}
  BY <1>1, <1>2, MsgQAssumption DEF FilterInv, TypeOK, HasFilter, Filters
<1>5. TypeOK'
  BY <1>1, <1>2, <1>3, <1>4 DEF TypeOK
<1>6. FilterInv'
  BY <1>1, <1>2, <1>3 DEF FilterInv, RecvGoes, HasFilter
<1>7. SearchInv'
  BY <1>1, <1>2, <1>3, SearchStable DEF SearchInv, RecvGoes
<1>8. FilterRefsAreUsers'
  BY <1>1, <1>2, <1>3, RefsStable DEF RecvGoes, Published, Locks, HasFilter
<1>9. EventRefsAreSources'
  BY <1>1, <1>2, <1>3, EventsStable DEF RecvGoes, SendSource, TimerSource, RecvSource, HasFilter
<1>10. QED
  BY <1>5, <1>6, <1>7, <1>8, <1>9 DEF MsgQInv

(* What a search from the hint of the receiver on leaves in its locals. *)
LEMMA SearchOn ==
    ASSUME HasLeast, TypeOK, SearchInv, UNCHANGED <<queue, sent>>, r'.want = r.want,
           r'.at \in {"sleep", "free"}, r'.at = "sleep" => r'.msg = None,
           \/ r'.msg = Search(r.want, r.hint) /\ r'.hint = Hint(r.want, r.hint)
           \/ r'.msg = None /\ r'.hint = r.hint
    PROVE  SearchInv'
<1>1. CASE r'.msg = None /\ r'.hint = r.hint
  BY <1>1 DEF SearchInv
<1>2. CASE r'.msg = Search(r.want, r.hint) /\ r'.hint = Hint(r.want, r.hint)
  <2>1. PICK m : m = Search(r.want, r.hint)
    OBVIOUS
  <2>2. \/ m = None /\ \A i \in DOMAIN queue : ~Matches(r.want, queue[i])
        \/ /\ m # None /\ m \in Msgs
           /\ \E j \in DOMAIN queue :
                /\ queue[j] = m /\ Matches(r.want, queue[j])
                /\ \A i \in DOMAIN queue : i < j => ~Matches(r.want, queue[i])
    BY <2>1, SearchFinds DEF SearchInv
  <2>3. \/ r'.hint = r.hint
        \/ m = None /\ r'.hint = queue[Len(queue)] /\ Len(queue) \in DOMAIN queue
    BY <1>2, <2>1 DEF Hint, TypeOK
  <2>4. QED
    BY <1>2, <2>1, <2>2, <2>3 DEF SearchInv, Oldest
<1>3. QED
  BY <1>1, <1>2

(* What a search returns can be kept in the locals. *)
LEMMA SearchType ==
    ASSUME HasLeast, TypeOK, SearchInv
    PROVE  /\ Search(r.want, r.hint) \in Msgs \cup {None}
           /\ Hint(r.want, r.hint) \in Msgs \cup {None}
<1>1. Search(r.want, r.hint) \in Msgs \cup {None}
  BY SearchFinds DEF SearchInv
<1>2. r.hint \in Msgs \cup {None}
  BY DEF TypeOK, Receiver
<1>3. QED
  BY <1>1, <1>2 DEF Hint, TypeOK

(* Only the reference count of filter g is assigned. *)
LEMMA RefcntAssigned ==
    ASSUME TypeOK, NEW g \in Filters, NEW n \in Nat, filter' = [filter EXCEPT ![g].refcnt = n]
    PROVE  /\ filter' \in [Filters -> [refcnt : Nat, event : BOOLEAN]]
           /\ filter'[g].refcnt = n
           /\ \A f \in Filters : filter'[f].event = filter[f].event
           /\ \A f \in Filters \ {g} : filter'[f] = filter[f]
<1>1. filter \in [Filters -> [refcnt : Nat, event : BOOLEAN]]
  BY DEF TypeOK
<1>2. PICK v : v = [filter[g] EXCEPT !.refcnt = n]
  BY Zenon
<1>3. v \in [refcnt : Nat, event : BOOLEAN] /\ v.refcnt = n /\ v.event = filter[g].event
  BY <1>1, <1>2
<1>4. filter' = [filter EXCEPT ![g] = v]
  BY <1>2
<1>5. QED
  BY <1>1, <1>3, <1>4

(* The filter the receiver has published, and the one a sender knows. *)
LEMMA KnownFilter ==
    ASSUME TypeOK, FilterInv
    PROVE  /\ r.at \in HasFilter => r.f \in Filters
           /\ filter_id # NoId => filter_id \in Filters
           /\ \A x \in Senders : s[x].at \in HasLocked \cup {"lock"} => s[x].f \in Filters
<1>1. \A f \in 1 .. used : f \in Filters
  BY MsgQAssumption DEF TypeOK, Filters
<1>2. QED
  BY <1>1 DEF FilterInv

(* One of the sources of event e has given its reference back. *)
LEMMA EventGone ==
    ASSUME TypeOK, EventRefsAreSources, NEW e \in Filters,
           event' = [event EXCEPT ![e] = @ - 1],
           \A g \in Filters \ {e} : /\ SendSource(g)' <=> SendSource(g)
                                    /\ TimerSource(g)' <=> TimerSource(g)
                                    /\ RecvSource(g)' <=> RecvSource(g),
           \/ /\ SendSource(e) /\ ~SendSource(e)'
              /\ (TimerSource(e)' <=> TimerSource(e)) /\ (RecvSource(e)' <=> RecvSource(e))
           \/ /\ TimerSource(e) /\ ~TimerSource(e)'
              /\ (SendSource(e)' <=> SendSource(e)) /\ (RecvSource(e)' <=> RecvSource(e))
           \/ /\ RecvSource(e) /\ ~RecvSource(e)'
              /\ (SendSource(e)' <=> SendSource(e)) /\ (TimerSource(e)' <=> TimerSource(e))
    PROVE  EventRefsAreSources' /\ event' \in [Filters -> 0 .. 3]
<1>1. /\ event \in [Filters -> 0 .. 3] /\ event'[e] = event[e] - 1
      /\ \A g \in Filters \ {e} : event'[g] = event[g]
  BY DEF TypeOK
<1>2. \A g \in Filters \ {e} :
        event'[g] = One(SendSource(g))' + One(TimerSource(g))' + One(RecvSource(g))'
  BY <1>1 DEF EventRefsAreSources, One
<1>3. event'[e] = One(SendSource(e))' + One(TimerSource(e))' + One(RecvSource(e))'
      /\ event'[e] \in 0 .. 3
  BY <1>1 DEF EventRefsAreSources, One
<1>4. event' \in [Filters -> 0 .. 3]
  BY <1>1, <1>3
<1>5. QED
  BY <1>2, <1>3, <1>4 DEF EventRefsAreSources

(* The second search of a receive. *)
LEMMA SearchAgainStep ==
    ASSUME HasLeast, MsgQInv, SearchAgain
    PROVE  MsgQInv'
<1>1. TypeOK /\ FilterInv /\ SearchInv /\ FilterRefsAreUsers /\ EventRefsAreSources
  BY DEF MsgQInv
<1>2. PICK m \in Msgs \cup {None} : m = Search(r.want, r.hint)
  BY <1>1, SearchType
<1>3. PICK h \in Msgs \cup {None} : h = Hint(r.want, r.hint)
  BY <1>1, SearchType
<1>4. /\ r.at = "search"
      /\ r' = [r EXCEPT !.at = IF m = None THEN "sleep" ELSE "free", !.msg = m, !.hint = h]
      /\ timer' = [timer EXCEPT ![r.f] = IF r.timed /\ m = None THEN "armed" ELSE "none"]
      /\ abandoned' = IF r.timed /\ m # None THEN abandoned \cup {r.f} ELSE abandoned
      /\ UNCHANGED <<queue, filter_id, filter, event, blocked, cause, s, sent, used>>
  BY <1>2, <1>3 DEF SearchAgain
<1>5. /\ r'.at = IF m = None THEN "sleep" ELSE "free"
      /\ r'.msg = m /\ r'.hint = h /\ r'.f = r.f /\ r'.want = r.want
      /\ r' \in Receiver /\ r.timed \in BOOLEAN
  <2>1. r \in Receiver
    BY <1>1 DEF TypeOK
  <2>2. QED
    BY <1>4, <2>1, Zenon DEF Receiver, HasFilter
<1>6. r.f \in Filters /\ r.f \in 1 .. used /\ timer[r.f] = "none" /\ r.f \notin abandoned
  BY <1>1, <1>4, KnownFilter DEF FilterInv, HasFilter
<1>7. /\ timer'[r.f] = IF r.timed /\ m = None THEN "armed" ELSE "none"
      /\ \A e \in Filters \ {r.f} : timer'[e] = timer[e]
      /\ timer' \in [Filters -> {"none", "armed", "cancelled"}]
      /\ abandoned' \in SUBSET Filters
  BY <1>1, <1>4, <1>6 DEF TypeOK
<1>8. TypeOK'
  BY <1>1, <1>4, <1>5, <1>7 DEF TypeOK
<1>9. FilterInv'
  <2>1. \A f \in Filters : f \in 1 .. used => f <= used
    BY <1>1 DEF TypeOK, Filters
  <2>2. QED
    BY <1>1, <1>4, <1>5, <1>6, <1>7, <2>1 DEF FilterInv, HasFilter
<1>10. SearchInv'
  BY <1>1, <1>2, <1>3, <1>4, <1>5, SearchOn
<1>11. FilterRefsAreUsers'
  BY <1>1, <1>4, <1>5, RefsStable DEF Published, Locks, HasFilter
<1>12. EventRefsAreSources'
  <2>1. \A e \in Filters : TimerSource(e)' <=> TimerSource(e)
    BY <1>4, <1>5, <1>6, <1>7 DEF TimerSource
  <2>2. QED
    BY <1>1, <1>4, <1>5, <2>1, EventsStable DEF SendSource, RecvSource, HasFilter
<1>13. QED
  BY <1>8, <1>9, <1>10, <1>11, <1>12 DEF MsgQInv

(* The receiver wakes up, cancels the timer entry and searches once more. *)
LEMMA WakeStep ==
    ASSUME HasLeast, MsgQInv, NEW left \in BOOLEAN, Wake(left)
    PROVE  MsgQInv'
<1>1. TypeOK /\ FilterInv /\ SearchInv /\ FilterRefsAreUsers /\ EventRefsAreSources
  BY DEF MsgQInv
<1>2. PICK m \in Msgs \cup {None} :
        m = IF cause = "send" THEN Search(r.want, r.hint) ELSE None
  BY <1>1, SearchType
<1>3. PICK h \in Msgs \cup {None} :
        h = IF cause = "send" THEN Hint(r.want, r.hint) ELSE r.hint
  BY <1>1, SearchType DEF TypeOK, Receiver
<1>4. /\ r.at = "sleep" /\ r \in Receiver
      /\ r' = [r EXCEPT !.at = "free", !.left = left, !.msg = m, !.hint = h,
                        !.expected = (cause = "send")]
      /\ timer' = [timer EXCEPT ![r.f] = IF timer[r.f] = "armed" THEN "cancelled"
                                         ELSE timer[r.f]]
      /\ UNCHANGED <<queue, filter_id, filter, event, blocked, cause, s, sent, used, abandoned>>
  BY <1>1, <1>2, <1>3 DEF Wake, TypeOK
<1>5. /\ r'.at = "free" /\ r'.msg = m /\ r'.hint = h /\ r'.f = r.f /\ r'.want = r.want
      /\ r' \in Receiver
  <2>1. /\ r'.at = "free" /\ r'.msg = m /\ r'.hint = h /\ r'.f = r.f /\ r'.want = r.want
    BY <1>4 DEF Receiver
  <2>2. "free" \in HasFilter /\ (cause = "send") \in BOOLEAN
    BY DEF HasFilter
  <2>3. r' \in Receiver
    BY <1>4, <2>2, Zenon DEF Receiver
  <2>4. QED
    BY <2>1, <2>3
<1>6. r.f \in Filters
  BY <1>1, <1>4, KnownFilter DEF HasFilter
<1>7. /\ \A e \in Filters : timer'[e] # "none" <=> timer[e] # "none"
      /\ timer' \in [Filters -> {"none", "armed", "cancelled"}]
  BY <1>1, <1>4, <1>6 DEF TypeOK
<1>8. TypeOK'
  BY <1>1, <1>4, <1>5, <1>7 DEF TypeOK
<1>9. FilterInv'
  BY <1>1, <1>4, <1>5, <1>7 DEF FilterInv, HasFilter
<1>10. SearchInv'
  BY <1>1, <1>2, <1>3, <1>4, <1>5, SearchOn
<1>11. FilterRefsAreUsers'
  BY <1>1, <1>4, <1>5, RefsStable DEF Published, Locks, HasFilter
<1>12. EventRefsAreSources'
  BY <1>1, <1>4, <1>5, <1>7, EventsStable DEF SendSource, TimerSource, RecvSource, HasFilter
<1>13. QED
  BY <1>8, <1>9, <1>10, <1>11, <1>12 DEF MsgQInv

(* The exchange takes the event of one filter and leaves its count. *)
LEMMA EventTaken ==
    ASSUME filter \in [Filters -> [refcnt : Nat, event : BOOLEAN]], NEW g \in Filters,
           filter' = [filter EXCEPT ![g].event = FALSE]
    PROVE  /\ filter' \in [Filters -> [refcnt : Nat, event : BOOLEAN]]
           /\ ~filter'[g].event
           /\ \A f \in Filters : filter'[f].refcnt = filter[f].refcnt
           /\ \A f \in Filters \ {g} : filter'[f] = filter[f]
  BY Zenon

(* prs_msgq_free_event, the exchange: the event leaves the filter. *)
LEMMA FreeEventStep ==
    ASSUME MsgQInv, FreeEvent
    PROVE  MsgQInv'
<1>1. TypeOK /\ FilterInv /\ SearchInv /\ FilterRefsAreUsers /\ EventRefsAreSources
  BY DEF MsgQInv
<1>2. RecvGoes("freeSignal") /\ r' \in Receiver /\ r.at = "free"
  BY <1>1, RecvMoves DEF FreeEvent, HasFilter
<1>3. PICK g \in Filters : g = r.f
  BY <1>1, <1>2, KnownFilter DEF HasFilter
<1>4. /\ filter' = [filter EXCEPT ![g].event = FALSE]
      /\ event' = IF filter[g].event THEN [event EXCEPT ![g] = @ - 1] ELSE event
      /\ UNCHANGED <<queue, filter_id, timer, blocked, cause, s, sent, used, abandoned>>
  BY <1>3 DEF FreeEvent
<1>5. /\ filter' \in [Filters -> [refcnt : Nat, event : BOOLEAN]]
      /\ ~filter'[g].event
      /\ \A f \in Filters : filter'[f].refcnt = filter[f].refcnt
      /\ \A f \in Filters \ {g} : filter'[f] = filter[f]
  BY <1>1, <1>4, EventTaken, Zenon DEF TypeOK
<1>6. \A f \in Filters \ {g} : ~filter[f].event
  BY <1>1, <1>2, <1>3 DEF FilterInv
<1>7. /\ \A e \in Filters : TimerSource(e)' <=> TimerSource(e)
      /\ \A e \in Filters : RecvSource(e)' <=> RecvSource(e)
      /\ \A e \in Filters \ {g} : SendSource(e)' <=> SendSource(e)
  BY <1>2, <1>4, <1>3, <1>5 DEF RecvGoes, SendSource, TimerSource, RecvSource, HasFilter
<1>8. EventRefsAreSources' /\ event' \in [Filters -> 0 .. 3]
  <2>1. CASE filter[g].event
    <3>1. SendSource(g) /\ ~SendSource(g)'
      BY <1>1, <1>4, <1>3, <1>5, <2>1 DEF SendSource, FilterInv
    <3>2. QED
      BY <1>1, <1>4, <1>3, <1>7, <2>1, <3>1, EventGone, Zenon
  <2>2. CASE ~filter[g].event
    <3>1. SendSource(g)' <=> SendSource(g)
      BY <1>4, <1>5, <2>2 DEF SendSource
    <3>2. event' = event
      BY <1>4, <2>2
    <3>3. \A e \in Filters : SendSource(e)' <=> SendSource(e)
      BY <1>7, <3>1
    <3>4. EventRefsAreSources'
      BY <1>1, <1>7, <3>2, <3>3, EventsStable
    <3>5. QED
      BY <1>1, <3>2, <3>4 DEF TypeOK
  <2>3. QED
    BY <2>1, <2>2
<1>9. TypeOK'
  BY <1>1, <1>2, <1>4, <1>5, <1>8 DEF TypeOK
<1>10. FilterInv'
  BY <1>1, <1>2, <1>4, <1>3, <1>5, <1>6 DEF FilterInv, RecvGoes, HasFilter
<1>11. SearchInv'
  BY <1>1, <1>2, <1>4, SearchStable DEF RecvGoes
<1>12. FilterRefsAreUsers'
  BY <1>1, <1>2, <1>4, <1>5, RefsStable DEF RecvGoes, Published, Locks, HasFilter
<1>13. QED
  BY <1>8, <1>9, <1>10, <1>11, <1>12 DEF MsgQInv

(* The receiver gives back its own reference of the event. *)
LEMMA FreeSignalStep ==
    ASSUME MsgQInv, FreeSignal
    PROVE  MsgQInv'
<1>1. TypeOK /\ FilterInv /\ SearchInv /\ FilterRefsAreUsers /\ EventRefsAreSources
  BY DEF MsgQInv
<1>2. RecvGoes("reset") /\ r' \in Receiver /\ r.at = "freeSignal"
  BY <1>1, RecvMoves DEF FreeSignal, HasFilter
<1>3. PICK g \in Filters : g = r.f
  BY <1>1, <1>2, KnownFilter DEF HasFilter
<1>4. /\ event' = [event EXCEPT ![g] = @ - 1]
      /\ blocked' \in {blocked, NoId} /\ cause' \in {cause, "free"}
      /\ UNCHANGED <<queue, filter_id, filter, timer, s, sent, used, abandoned>>
  BY <1>3 DEF FreeSignal, Signal
<1>5. /\ \A e \in Filters : TimerSource(e)' <=> TimerSource(e)
      /\ \A e \in Filters : SendSource(e)' <=> SendSource(e)
      /\ \A e \in Filters \ {g} : RecvSource(e)' <=> RecvSource(e)
      /\ RecvSource(g) /\ ~RecvSource(g)'
  BY <1>2, <1>4, <1>3 DEF RecvGoes, SendSource, TimerSource, RecvSource, HasFilter
<1>6. EventRefsAreSources' /\ event' \in [Filters -> 0 .. 3]
  BY <1>1, <1>4, <1>3, <1>5, EventGone, Zenon
<1>7. TypeOK'
  BY <1>1, <1>2, <1>4, <1>6 DEF TypeOK
<1>8. FilterInv'
  BY <1>1, <1>2, <1>4 DEF FilterInv, RecvGoes, HasFilter
<1>9. SearchInv'
  BY <1>1, <1>2, <1>4, SearchStable DEF RecvGoes
<1>10. FilterRefsAreUsers'
  BY <1>1, <1>2, <1>4, RefsStable DEF RecvGoes, Published, Locks, HasFilter
<1>11. QED
  BY <1>6, <1>7, <1>8, <1>9, <1>10 DEF MsgQInv

(* The receiver gives back its reference of the filter. *)
LEMMA FilterUnrefStep ==
    ASSUME CountsSenders, MsgQInv, FilterUnref
    PROVE  MsgQInv'
<1>1. TypeOK /\ FilterInv /\ SearchInv /\ FilterRefsAreUsers /\ EventRefsAreSources
  BY DEF MsgQInv
<1>2. /\ r.at = "unref" /\ filter' = [filter EXCEPT ![r.f].refcnt = @ - 1]
      /\ UNCHANGED <<queue, filter_id, event, timer, blocked, cause, s, sent, used, abandoned>>
  BY DEF FilterUnref
<1>3. /\ r' \in Receiver /\ r'.at \in {"remove", "loop", "idle"}
      /\ \/ /\ r'.want = r.want /\ r'.hint = r.hint /\ r'.msg = r.msg
            /\ r'.at = IF r.msg # None THEN "remove" ELSE "loop"
         \/ r'.at = "idle" /\ r'.hint = None /\ r'.msg = None
  <2>1. r \in Receiver
    BY <1>1 DEF TypeOK
  <2>2. \/ r.msg # None /\ r' = [r EXCEPT !.at = "remove"]
        \/ r.msg = None /\ r' = [r EXCEPT !.at = "loop"]
        \/ r' = RIdle
    BY DEF FilterUnref
  <2>3. CASE r' = RIdle
    BY <2>3 DEF Receiver, RIdle
  <2>4. CASE r.msg # None /\ r' = [r EXCEPT !.at = "remove"]
    BY <2>1, <2>4 DEF Receiver
  <2>5. CASE r.msg = None /\ r' = [r EXCEPT !.at = "loop"]
    BY <2>1, <2>5 DEF Receiver
  <2>6. QED
    BY <2>2, <2>3, <2>4, <2>5
<1>4. r.f \in Filters /\ Published(r.f)
  BY <1>1, <1>2, KnownFilter DEF HasFilter, Published
<1>5. filter[r.f].refcnt \in Nat \ {0}
  BY <1>1, <1>4, Referenced
<1>6. /\ filter' \in [Filters -> [refcnt : Nat, event : BOOLEAN]]
      /\ filter'[r.f].refcnt = filter[r.f].refcnt - 1
      /\ \A f \in Filters : filter'[f].event = filter[f].event
      /\ \A f \in Filters \ {r.f} : filter'[f] = filter[f]
  <2>1. filter[r.f].refcnt - 1 \in Nat
    BY <1>5
  <2>2. QED
    BY <1>1, <1>2, <1>4, <2>1, RefcntAssigned, Zenon
<1>7. \A f \in Filters : ~filter[f].event
  BY <1>1, <1>2 DEF FilterInv
<1>8. TypeOK'
  BY <1>1, <1>2, <1>3, <1>6 DEF TypeOK
<1>9. FilterInv'
  BY <1>1, <1>2, <1>3, <1>6, <1>7 DEF FilterInv, HasFilter
<1>10. SearchInv'
  BY <1>1, <1>2, <1>3 DEF SearchInv, Oldest
<1>11. FilterRefsAreUsers'
  <2>1. /\ \A f \in Filters : ~Published(f)' /\ (Published(f) <=> f = r.f)
        /\ \A f \in Filters : Users(f)' = Users(f)
    BY <1>2, <1>3 DEF Published, HasFilter, Users, Locks
  <2>2. ASSUME NEW f \in Filters
        PROVE  filter'[f].refcnt = One(Published(f))' + Cardinality(Users(f)')
    <3>1. filter[f].refcnt = One(Published(f)) + Cardinality(Users(f))
          /\ Cardinality(Users(f)) \in Nat
      BY <1>1, UsersFinite DEF FilterRefsAreUsers
    <3>2. QED
      BY <1>6, <2>1, <3>1 DEF One
  <2>3. QED
    BY <2>2 DEF FilterRefsAreUsers
<1>12. EventRefsAreSources'
  BY <1>1, <1>2, <1>3, <1>6, EventsStable DEF SendSource, TimerSource, RecvSource, HasFilter
<1>13. QED
  BY <1>8, <1>9, <1>10, <1>11, <1>12 DEF MsgQInv

(***************************************************************************)
(* The steps of the senders.                                               *)
(***************************************************************************)

(* A step of sender x that is about no reference: it neither locks nor     *)
(* unlocks a filter, and takes no event.                                   *)
LEMMA SenderStable ==
    ASSUME MsgQInv, NEW x \in Senders, NEW a, NEW f, SendGoes(x, a, f),
           \/ /\ a \in HasLocked \ {"signal"} /\ s[x].at \in HasLocked \ {"signal"}
              /\ f = s[x].f
           \/ a \notin HasLocked /\ s[x].at \notin HasLocked,
           a = "lock" => f \in 1 .. used,
           UNCHANGED <<filter_id, filter, event, timer, r, used, abandoned>>
    PROVE  FilterInv' /\ FilterRefsAreUsers' /\ EventRefsAreSources'
<1>1. TypeOK /\ FilterInv /\ FilterRefsAreUsers /\ EventRefsAreSources
  BY DEF MsgQInv
<1>2. /\ \A y \in Senders, g \in Filters : Locks(y, g)' <=> Locks(y, g)
      /\ \A y \in Senders : s'[y].at = "signal" <=> s[y].at = "signal"
      /\ \A y \in Senders : s[y].at = "signal" => s'[y] = s[y]
      /\ \A y \in Senders : s'[y].at \in HasLocked \cup {"lock"} => s'[y].f \in 1 .. used
  BY <1>1 DEF SendGoes, Locks, HasLocked, FilterInv
<1>3. FilterInv'
  BY <1>1, <1>2, SendersMove, Zenon
<1>4. FilterRefsAreUsers'
  BY <1>1, <1>2, RefsStable DEF Published
<1>5. EventRefsAreSources'
  BY <1>1, <1>2, EventsStable DEF SendSource, TimerSource, RecvSource
<1>6. QED
  BY <1>3, <1>4, <1>5

(* prs_msgq_send pushes a message that is not in the queue. *)
LEMMA SendStepInv ==
    ASSUME MsgQInv, NEW x \in Senders, NEW m \in Msgs, Send(x, m)
    PROVE  MsgQInv'
<1>1. TypeOK /\ SearchInv
  BY DEF MsgQInv
<1>2. /\ s[x].at = "idle" /\ m \notin sent
      /\ sent' = sent \cup {m} /\ queue' = Append(queue, m)
      /\ UNCHANGED <<filter_id, filter, event, timer, blocked, cause, r, used, abandoned>>
  BY DEF Send
<1>3. SendGoes(x, "load", NoId) /\ s' \in [Senders -> Sender]
  <2>1. PICK v : v = [SIdle EXCEPT !.at = "load", !.msg = m]
    OBVIOUS
  <2>2. v \in Sender /\ v.at = "load" /\ v.f = NoId
    BY <2>1, Zenon DEF SIdle, Sender
  <2>3. s \in [Senders -> Sender] /\ s' = [s EXCEPT ![x] = v]
    BY <1>1, <2>1 DEF TypeOK, Send
  <2>4. QED
    BY <2>2, <2>3 DEF SendGoes
<1>4. /\ queue \in Seq(Msgs) /\ queue' \in Seq(Msgs) /\ Len(queue) \in Nat
      /\ DOMAIN queue = 1 .. Len(queue) /\ DOMAIN queue' = 1 .. Len(queue) + 1
      /\ queue'[Len(queue) + 1] = m
      /\ \A i \in DOMAIN queue : queue'[i] = queue[i]
  BY <1>1, <1>2 DEF TypeOK
<1>5. TypeOK'
  BY <1>1, <1>2, <1>3, <1>4 DEF TypeOK
<1>6. SearchInv'
  <2>1. \A i \in DOMAIN queue' : i \in DOMAIN queue \/ i = Len(queue) + 1
    BY <1>4
  <2>2. \A i \in DOMAIN queue' : queue'[i] \in sent'
    BY <1>1, <1>2, <1>4, <2>1 DEF SearchInv
  <2>3. \A i \in DOMAIN queue : queue[i] # m
    BY <1>1, <1>2 DEF SearchInv
  <2>4. \A i, j \in DOMAIN queue : queue[i] = queue[j] => i = j
    BY <1>1, Zenon DEF SearchInv, IsInjective
  <2>5. \A i, j \in DOMAIN queue' : queue'[i] = queue'[j] => i = j
    BY <1>4, <2>1, <2>3, <2>4
  <2>6. IsInjective(queue')
    BY <2>5, Zenon DEF IsInjective
  <2>7. ASSUME NEW j \in DOMAIN queue,
               \A i \in DOMAIN queue : i < j => ~Matches(r.want, queue[i])
        PROVE  /\ j \in DOMAIN queue' /\ queue'[j] = queue[j]
               /\ \A i \in DOMAIN queue' : i < j => ~Matches(r.want, queue'[i])
    BY <1>4, <2>1, <2>7
  <2>8. r.hint # None =>
          \E j \in DOMAIN queue' :
            /\ queue'[j] = r.hint
            /\ \A i \in DOMAIN queue' : i < j => ~Matches(r.want, queue'[i])
    BY <1>1, <2>7 DEF SearchInv
  <2>9. r.msg # None => Oldest(r.msg)'
    BY <1>1, <1>2, <2>7 DEF SearchInv, Oldest
  <2>10. QED
    BY <1>1, <1>2, <2>2, <2>6, <2>8, <2>9 DEF SearchInv
<1>7. FilterInv' /\ FilterRefsAreUsers' /\ EventRefsAreSources'
  BY <1>2, <1>3, SenderStable DEF HasLocked
<1>8. QED
  BY <1>5, <1>6, <1>7 DEF MsgQInv

(* The sender reads the identifier of the filter. *)
LEMMA LoadFilterStep ==
    ASSUME MsgQInv, NEW x \in Senders, LoadFilter(x)
    PROVE  MsgQInv'
<1>1. TypeOK /\ SearchInv /\ FilterInv
  BY DEF MsgQInv
<1>2. /\ s[x].at = "load" /\ s[x] \in Sender /\ s \in [Senders -> Sender]
      /\ UNCHANGED <<queue, filter_id, filter, event, timer, blocked, cause, r, sent, used,
                     abandoned>>
  BY <1>1 DEF LoadFilter, TypeOK
<1>3. PICK a \in {"idle", "lock"}, f \in Filters \cup {NoId} :
        SendGoes(x, a, f) /\ s' \in [Senders -> Sender] /\ (a = "lock" => f \in 1 .. used)
  <2>1. CASE filter_id = NoId
    <3>1. s' = [s EXCEPT ![x] = SIdle]
      BY <2>1 DEF LoadFilter
    <3>2. QED
      BY <1>1, <3>1, SendEnds, Zenon
  <2>2. CASE filter_id # NoId
    <3>1. filter_id \in Filters /\ filter_id \in 1 .. used
      BY <1>1, <2>2, KnownFilter DEF FilterInv
    <3>2. PICK v : v = [s[x] EXCEPT !.at = "lock", !.f = filter_id]
      OBVIOUS
    <3>3. v \in Sender /\ v.at = "lock" /\ v.f = filter_id
      BY <1>2, <3>1, <3>2, Zenon DEF Sender
    <3>4. s' = [s EXCEPT ![x] = v]
      BY <1>2, <2>2, <3>2 DEF LoadFilter
    <3>5. SendGoes(x, "lock", filter_id) /\ s' \in [Senders -> Sender]
      BY <1>2, <3>3, <3>4 DEF SendGoes
    <3>6. QED
      BY <3>1, <3>5
  <2>3. QED
    BY <2>1, <2>2
<1>4. TypeOK'
  BY <1>1, <1>2, <1>3 DEF TypeOK
<1>5. SearchInv'
  BY <1>1, <1>2, SearchStable DEF SearchInv
<1>6. FilterInv' /\ FilterRefsAreUsers' /\ EventRefsAreSources'
  BY <1>2, <1>3, SenderStable DEF HasLocked
<1>7. QED
  BY <1>4, <1>5, <1>6 DEF MsgQInv

(* prs_pd_lock either counts the sender or finds the filter gone. *)
LEMMA LockFilterStep ==
    ASSUME CountsSenders, MsgQInv, NEW x \in Senders, LockFilter(x)
    PROVE  MsgQInv'
<1>1. TypeOK /\ FilterInv /\ SearchInv /\ FilterRefsAreUsers /\ EventRefsAreSources
  BY DEF MsgQInv
<1>2. PICK g \in Filters : g = s[x].f /\ g \in 1 .. used
  BY <1>1, KnownFilter DEF LockFilter, FilterInv
<1>3. /\ s[x].at = "lock"
      /\ UNCHANGED <<queue, filter_id, event, timer, blocked, cause, r, sent, used, abandoned>>
  BY Zenon DEF LockFilter
<1>4. SearchInv'
  BY <1>1, <1>3, SearchStable, Zenon DEF SearchInv
<1>5. CASE filter[g].refcnt = 0
  <2>1. UNCHANGED filter /\ s' = [s EXCEPT ![x] = SIdle]
    BY <1>2, <1>5 DEF LockFilter
  <2>2. SendGoes(x, "idle", NoId) /\ s' \in [Senders -> Sender]
    BY <1>1, <2>1, SendEnds, Zenon
  <2>3. TypeOK'
    BY <1>1, <1>3, <2>1, <2>2 DEF TypeOK
  <2>4. FilterInv' /\ FilterRefsAreUsers' /\ EventRefsAreSources'
    BY <1>3, <2>1, <2>2, SenderStable DEF HasLocked
  <2>5. QED
    BY <1>4, <2>3, <2>4 DEF MsgQInv
<1>6. CASE filter[g].refcnt # 0
  <2>1. s' = [s EXCEPT ![x].at = "match"] /\ filter' = [filter EXCEPT ![g].refcnt = @ + 1]
    BY <1>2, <1>6 DEF LockFilter
  <2>2. SendGoes(x, "match", g) /\ s' \in [Senders -> Sender]
    BY <1>1, <1>2, <2>1, SendMoves, Zenon DEF HasLocked
  <2>3. /\ filter' \in [Filters -> [refcnt : Nat, event : BOOLEAN]]
        /\ filter'[g].refcnt = filter[g].refcnt + 1
        /\ \A f \in Filters : filter'[f].event = filter[f].event
        /\ \A f \in Filters \ {g} : filter'[f] = filter[f]
    <3>1. filter[g].refcnt + 1 \in Nat
      BY <1>1 DEF TypeOK
    <3>2. QED
      BY <1>1, <2>1, <3>1, RefcntAssigned, Zenon
  <2>4. TypeOK'
    BY <1>1, <1>3, <2>2, <2>3 DEF TypeOK
  <2>5. /\ \A y \in Senders : s'[y].at = "signal" <=> s[y].at = "signal"
        /\ \A y \in Senders : s[y].at = "signal" => s'[y] = s[y]
        /\ \A y \in Senders : s'[y].at \in HasLocked \cup {"lock"} => s'[y].f \in 1 .. used
    BY <1>1, <1>2, <1>3, <2>2 DEF SendGoes, FilterInv, HasLocked
  <2>6. FilterInv'
    BY <1>1, <1>3, <2>3, <2>5 DEF FilterInv
  <2>7. /\ ~Locks(x, g) /\ \A f \in Filters : Published(f)' <=> Published(f)
        /\ \A f \in Filters, y \in Senders :
             Locks(y, f)' <=> Locks(y, f) \/ (y = x /\ f = g)
    BY <1>2, <1>3, <2>2 DEF SendGoes, Locks, HasLocked, Published
  <2>8. FilterRefsAreUsers'
    BY <1>1, <2>3, <2>7, RefsGrow, Zenon
  <2>9. EventRefsAreSources'
    BY <1>1, <1>3, <2>3, <2>5, EventsStable DEF SendSource, TimerSource, RecvSource
  <2>10. QED
    BY <1>4, <2>4, <2>6, <2>8, <2>9 DEF MsgQInv
<1>7. QED
  BY <1>5, <1>6

(* The sender looks whether the filter has its event and asks for its      *)
(* message.                                                                *)
LEMMA MatchFilterStep ==
    ASSUME MsgQInv, NEW x \in Senders, MatchFilter(x)
    PROVE  MsgQInv'
<1>1. TypeOK /\ SearchInv
  BY DEF MsgQInv
<1>2. /\ s[x].at = "match"
      /\ UNCHANGED <<queue, filter_id, filter, event, timer, blocked, cause, r, sent, used,
                     abandoned>>
  BY DEF MatchFilter
<1>3. PICK a \in {"exchange", "unref"} : s' = [s EXCEPT ![x].at = a]
  BY Zenon DEF MatchFilter
<1>4. SendGoes(x, a, s[x].f) /\ s' \in [Senders -> Sender]
  BY <1>1, <1>3, SendMoves, Zenon DEF HasLocked
<1>5. TypeOK'
  BY <1>1, <1>2, <1>4 DEF TypeOK
<1>6. SearchInv'
  BY <1>1, <1>2, SearchStable, Zenon DEF SearchInv
<1>7. FilterInv' /\ FilterRefsAreUsers' /\ EventRefsAreSources'
  BY <1>2, <1>4, SenderStable, Zenon DEF HasLocked
<1>8. QED
  BY <1>5, <1>6, <1>7 DEF MsgQInv

(* One sender at most takes the event from the filter. *)
LEMMA ExchangeEventStep ==
    ASSUME MsgQInv, NEW x \in Senders, ExchangeEvent(x)
    PROVE  MsgQInv'
<1>1. TypeOK /\ FilterInv /\ SearchInv /\ FilterRefsAreUsers /\ EventRefsAreSources
  BY DEF MsgQInv
<1>2. PICK g \in Filters : g = s[x].f /\ g \in 1 .. used
  BY <1>1, KnownFilter DEF ExchangeEvent, FilterInv, HasLocked
<1>3. PICK a \in {"signal", "unref"} :
        /\ s' = [s EXCEPT ![x].at = a]
        /\ a = "signal" <=> filter[g].event
  BY <1>2, Zenon DEF ExchangeEvent
<1>4. /\ s[x].at = "exchange" /\ filter' = [filter EXCEPT ![g].event = FALSE]
      /\ UNCHANGED <<queue, filter_id, event, timer, blocked, cause, r, sent, used, abandoned>>
  BY <1>2 DEF ExchangeEvent
<1>5. SendGoes(x, a, g) /\ s' \in [Senders -> Sender]
  BY <1>1, <1>2, <1>3, SendMoves, Zenon DEF HasLocked
<1>6. /\ filter' \in [Filters -> [refcnt : Nat, event : BOOLEAN]] /\ ~filter'[g].event
      /\ \A f \in Filters : filter'[f].refcnt = filter[f].refcnt
      /\ \A f \in Filters \ {g} : filter'[f] = filter[f]
  BY <1>1, <1>4, EventTaken, Zenon DEF TypeOK
<1>7. TypeOK'
  BY <1>1, <1>4, <1>5, <1>6 DEF TypeOK
<1>8. FilterInv'
  BY <1>1, <1>2, <1>3, <1>4, <1>5, <1>6 DEF FilterInv, SendGoes, HasLocked
<1>9. SearchInv'
  BY <1>1, <1>4, SearchStable DEF SearchInv
<1>10. FilterRefsAreUsers'
  <2>1. \A f \in Filters, y \in Senders : Locks(y, f)' <=> Locks(y, f)
    BY <1>2, <1>4, <1>5 DEF SendGoes, Locks, HasLocked
  <2>2. QED
    BY <1>1, <1>4, <1>6, <2>1, RefsStable DEF Published
<1>11. EventRefsAreSources'
  <2>1. \A e \in Filters : SendSource(e)' <=> SendSource(e)
    <3>1. \A y \in Senders : s'[y].at = "signal" <=> s[y].at = "signal" \/ (y = x /\ filter[g].event)
      BY <1>3, <1>4, <1>5 DEF SendGoes
    <3>2. \A y \in Senders : s'[y].f = s[y].f
      BY <1>2, <1>5 DEF SendGoes
    <3>3. QED
      BY <1>2, <1>6, <3>1, <3>2, Zenon DEF SendSource
  <2>2. QED
    BY <1>1, <1>4, <2>1, EventsStable DEF TimerSource, RecvSource
<1>12. QED
  BY <1>7, <1>8, <1>9, <1>10, <1>11 DEF MsgQInv

(* The sender that took the event signals it. *)
LEMMA SignalEventStep ==
    ASSUME MsgQInv, NEW x \in Senders, SignalEvent(x)
    PROVE  MsgQInv'
<1>1. TypeOK /\ FilterInv /\ SearchInv /\ FilterRefsAreUsers /\ EventRefsAreSources
  BY DEF MsgQInv
<1>2. PICK g \in Filters : g = s[x].f /\ g \in 1 .. used
  BY <1>1, KnownFilter DEF SignalEvent, FilterInv, HasLocked
<1>3. /\ s[x].at = "signal" /\ s' = [s EXCEPT ![x].at = "unref"]
      /\ event' = [event EXCEPT ![g] = @ - 1]
      /\ blocked' \in {blocked, NoId} /\ cause' \in {cause, "send"}
      /\ UNCHANGED <<queue, filter_id, filter, timer, r, sent, used, abandoned>>
  BY <1>2 DEF SignalEvent, Signal
<1>4. SendGoes(x, "unref", g) /\ s' \in [Senders -> Sender]
  BY <1>1, <1>2, <1>3, SendMoves, Zenon DEF HasLocked
<1>5. /\ SendSource(g) /\ ~SendSource(g)'
      /\ \A e \in Filters \ {g} : SendSource(e)' <=> SendSource(e)
      /\ \A e \in Filters : TimerSource(e)' <=> TimerSource(e)
      /\ \A e \in Filters : RecvSource(e)' <=> RecvSource(e)
  <2>1. ~filter[g].event /\ \A y \in Senders \ {x} : ~(s[y].at = "signal" /\ s[y].f = g)
    BY <1>1, <1>2, <1>3 DEF FilterInv
  <2>2. QED
    BY <1>2, <1>3, <1>4, <2>1 DEF SendGoes, SendSource, TimerSource, RecvSource
<1>6. EventRefsAreSources' /\ event' \in [Filters -> 0 .. 3]
  BY <1>1, <1>3, <1>5, EventGone, Zenon
<1>7. TypeOK'
  BY <1>1, <1>3, <1>4, <1>6 DEF TypeOK
<1>8. FilterInv'
  BY <1>1, <1>2, <1>3, <1>4 DEF FilterInv, SendGoes, HasLocked
<1>9. SearchInv'
  BY <1>1, <1>3, SearchStable DEF SearchInv
<1>10. FilterRefsAreUsers'
  <2>1. \A f \in Filters, y \in Senders : Locks(y, f)' <=> Locks(y, f)
    BY <1>2, <1>3, <1>4 DEF SendGoes, Locks, HasLocked
  <2>2. QED
    BY <1>1, <1>3, <2>1, RefsStable DEF Published
<1>11. QED
  BY <1>6, <1>7, <1>8, <1>9, <1>10 DEF MsgQInv

(* The sender gives the filter back. *)
LEMMA SendUnrefStep ==
    ASSUME CountsSenders, MsgQInv, NEW x \in Senders, SendUnref(x)
    PROVE  MsgQInv'
<1>1. TypeOK /\ FilterInv /\ SearchInv /\ FilterRefsAreUsers /\ EventRefsAreSources
  BY DEF MsgQInv
<1>2. PICK g \in Filters : g = s[x].f
  BY <1>1, KnownFilter DEF SendUnref, HasLocked
<1>3. /\ s[x].at = "unref" /\ s' = [s EXCEPT ![x] = SIdle]
      /\ filter' = [filter EXCEPT ![g].refcnt = @ - 1]
      /\ UNCHANGED <<queue, filter_id, event, timer, blocked, cause, r, sent, used, abandoned>>
  BY <1>2 DEF SendUnref
<1>4. SendGoes(x, "idle", NoId) /\ s' \in [Senders -> Sender]
  BY <1>1, <1>3, SendEnds, Zenon
<1>5. Locks(x, g)
  BY <1>2, <1>3 DEF Locks, HasLocked
<1>6. filter[g].refcnt \in Nat \ {0}
  BY <1>1, <1>5, Referenced
<1>7. /\ filter' \in [Filters -> [refcnt : Nat, event : BOOLEAN]]
      /\ filter'[g].refcnt = filter[g].refcnt - 1
      /\ \A f \in Filters : filter'[f].event = filter[f].event
      /\ \A f \in Filters \ {g} : filter'[f] = filter[f]
  <2>1. filter[g].refcnt - 1 \in Nat
    BY <1>6
  <2>2. QED
    BY <1>1, <1>3, <2>1, RefcntAssigned, Zenon
<1>8. TypeOK'
  BY <1>1, <1>3, <1>4, <1>7 DEF TypeOK
<1>9. /\ \A y \in Senders : s'[y].at = "signal" <=> s[y].at = "signal"
      /\ \A y \in Senders : s[y].at = "signal" => s'[y] = s[y]
      /\ \A y \in Senders : s'[y].at \in HasLocked \cup {"lock"} => s'[y].f \in 1 .. used
  BY <1>1, <1>3, <1>4 DEF SendGoes, FilterInv, HasLocked
<1>10. FilterInv'
  BY <1>1, <1>3, <1>7, <1>9 DEF FilterInv
<1>11. SearchInv'
  BY <1>1, <1>3, SearchStable DEF SearchInv
<1>12. FilterRefsAreUsers'
  <2>1. /\ \A f \in Filters : Published(f)' <=> Published(f)
        /\ \A f \in Filters, y \in Senders :
             Locks(y, f)' <=> Locks(y, f) /\ ~(y = x /\ f = g)
    BY <1>2, <1>3, <1>4 DEF SendGoes, Locks, HasLocked, Published
  <2>2. QED
    BY <1>1, <1>5, <1>7, <2>1, RefsShrink
<1>13. EventRefsAreSources'
  BY <1>1, <1>3, <1>7, <1>9, EventsStable DEF SendSource, TimerSource, RecvSource
<1>14. QED
  BY <1>8, <1>10, <1>11, <1>12, <1>13 DEF MsgQInv

(***************************************************************************)
(* The timer.                                                              *)
(***************************************************************************)

(* The entry of event e is gone, with the reference that it had. *)
LEMMA TimerStep ==
    ASSUME MsgQInv, NEW e \in Filters, TimerFire(e) \/ TimerDrop(e)
    PROVE  MsgQInv'
<1>1. TypeOK /\ FilterInv /\ SearchInv /\ FilterRefsAreUsers /\ EventRefsAreSources
  BY DEF MsgQInv
<1>2. /\ timer[e] # "none" /\ timer' = [timer EXCEPT ![e] = "none"]
      /\ event' = [event EXCEPT ![e] = @ - 1]
      /\ blocked' \in {blocked, NoId} /\ cause' \in {cause, "timeout"}
      /\ UNCHANGED <<queue, filter_id, filter, r, s, sent, used, abandoned>>
  BY DEF TimerFire, TimerDrop, Signal
<1>3. /\ timer'[e] = "none" /\ \A g \in Filters \ {e} : timer'[g] = timer[g]
      /\ timer' \in [Filters -> {"none", "armed", "cancelled"}]
  BY <1>1, <1>2 DEF TypeOK
<1>4. e \notin abandoned /\ ~(r.f = e /\ r.at \in {"set", "search"})
  BY <1>1, <1>2 DEF FilterInv
<1>5. /\ TimerSource(e) /\ ~TimerSource(e)'
      /\ \A g \in Filters \ {e} : TimerSource(g)' <=> TimerSource(g)
      /\ \A g \in Filters : SendSource(g)' <=> SendSource(g)
      /\ \A g \in Filters : RecvSource(g)' <=> RecvSource(g)
  BY <1>2, <1>3, <1>4 DEF SendSource, TimerSource, RecvSource
<1>6. EventRefsAreSources' /\ event' \in [Filters -> 0 .. 3]
  BY <1>1, <1>2, <1>5, EventGone, Zenon
<1>7. TypeOK'
  BY <1>1, <1>2, <1>3, <1>6 DEF TypeOK
<1>8. FilterInv'
  <2>1. r.at \in {"set", "search"} => r.f \in Filters
    BY <1>1, KnownFilter DEF HasFilter
  <2>2. QED
    BY <1>1, <1>2, <1>3, <1>4, <2>1 DEF FilterInv
<1>9. SearchInv'
  BY <1>1, <1>2, SearchStable DEF SearchInv
<1>10. FilterRefsAreUsers'
  BY <1>1, <1>2, RefsStable DEF Published, Locks
<1>11. QED
  BY <1>6, <1>7, <1>8, <1>9, <1>10 DEF MsgQInv

(***************************************************************************)
(* The theorems.                                                           *)
(***************************************************************************)

(* prs_msgq_create: nothing is queued, published or referenced. *)
LEMMA MsgQInit ==
    ASSUME CountsSenders, Init
    PROVE  MsgQInv
<1>1. /\ r.at = "idle" /\ r.f = NoId /\ r.hint = None /\ r.msg = None /\ r \in Receiver
      /\ \A x \in Senders : s[x].at = "idle"
      /\ s \in [Senders -> Sender]
  BY Zenon DEF Init, RIdle, SIdle, Receiver, Sender
<1>2. TypeOK
  BY <1>1, MsgQAssumption DEF Init, TypeOK
<1>3. FilterInv
  BY <1>1 DEF Init, FilterInv, HasFilter, HasLocked
<1>4. SearchInv
  <2>1. queue = <<>> /\ DOMAIN queue = {}
    BY DEF Init
  <2>2. IsInjective(queue)
    BY <2>1, Zenon DEF IsInjective
  <2>3. QED
    BY <1>1, <2>1, <2>2 DEF SearchInv
<1>5. FilterRefsAreUsers
  <2>1. \A f \in Filters : Users(f) = {} /\ ~Published(f) /\ filter[f].refcnt = 0
    BY <1>1 DEF Init, Users, Locks, HasLocked, Published, HasFilter
  <2>2. \A f \in Filters : Cardinality(Users(f)) = 0
    BY <2>1 DEF CountsSenders
  <2>3. QED
    BY <2>1, <2>2 DEF FilterRefsAreUsers, One
<1>6. EventRefsAreSources
  BY <1>1 DEF Init, EventRefsAreSources, SendSource, TimerSource, RecvSource, HasFilter, One
<1>7. QED
  BY <1>2, <1>3, <1>4, <1>5, <1>6 DEF MsgQInv

(* Nothing changes. *)
LEMMA MsgQStutter ==
    ASSUME MsgQInv, UNCHANGED vars
    PROVE  MsgQInv'
<1>1. TypeOK /\ FilterInv /\ SearchInv /\ FilterRefsAreUsers /\ EventRefsAreSources
  BY DEF MsgQInv
<1>2. UNCHANGED <<queue, filter_id, filter, event, timer, blocked, cause, r, s, sent, used,
                  abandoned>>
  BY DEF vars
<1>3. TypeOK' /\ FilterInv'
  BY <1>1, <1>2 DEF TypeOK, FilterInv
<1>4. SearchInv'
  BY <1>1, <1>2, SearchStable DEF SearchInv
<1>5. FilterRefsAreUsers'
  BY <1>1, <1>2, RefsStable DEF Published, Locks
<1>6. EventRefsAreSources'
  BY <1>1, <1>2, EventsStable DEF SendSource, TimerSource, RecvSource
<1>7. QED
  BY <1>3, <1>4, <1>5, <1>6 DEF MsgQInv

(* Every step preserves the invariant. *)
LEMMA MsgQStep ==
    ASSUME HasLeast, CountsSenders, MsgQInv, [Next]_vars
    PROVE  MsgQInv'
<1>1. CASE RecvStep
  BY <1>1, RecvTimeoutStep, FilterCreateStep, FilterIdStep, SearchAgainStep, WakeStep,
     FreeEventStep, FreeSignalStep, FilterUnrefStep, RemoveMsgStep DEF RecvStep
<1>2. CASE \E c \in Calls : RecvBegin(c)
  BY <1>2, RecvBeginStep
<1>3. ASSUME NEW x \in Senders, SendStep(x)
      PROVE  MsgQInv'
  BY <1>3, LoadFilterStep, LockFilterStep, MatchFilterStep, ExchangeEventStep,
     SignalEventStep, SendUnrefStep DEF SendStep
<1>4. ASSUME NEW x \in Senders, NEW m \in Msgs, Send(x, m)
      PROVE  MsgQInv'
  BY <1>4, SendStepInv
<1>5. CASE \E e \in Filters : TimerFire(e) \/ TimerDrop(e)
  BY <1>5, TimerStep
<1>6. CASE UNCHANGED vars
  BY <1>6, MsgQStutter
<1>7. QED
  BY <1>1, <1>2, <1>3, <1>4, <1>5, <1>6 DEF Next

(* What leaves the queue is the oldest message the receive asks for. *)
OldestLeaves ==
    \A m \in Msgs :
      (m \in Range(queue) /\ m \notin Range(queue'))
        => /\ Matches(r.want, m)
           /\ \A i, j \in DOMAIN queue :
                (queue[j] = m /\ i < j) => ~Matches(r.want, queue[i])

(* A step that removes a message removes the oldest one asked for. *)
LEMMA RemovesOldest == MsgQInv /\ [Next]_vars => [OldestLeaves]_vars
<1> SUFFICES ASSUME MsgQInv, [Next]_vars PROVE OldestLeaves
  OBVIOUS
<1>1. CASE UNCHANGED queue
  BY <1>1 DEF OldestLeaves
<1>2. CASE RemoveMsg
  <2>1. PICK j \in DOMAIN queue :
          /\ queue[j] = r.msg /\ Matches(r.want, r.msg)
          /\ \A i \in DOMAIN queue : i < j => ~Matches(r.want, queue[i])
          /\ \A i \in DOMAIN queue : i # j => \E k \in DOMAIN queue' : queue'[k] = queue[i]
    BY <1>2, RemoveMsgStep
  <2>2. \A i, k \in DOMAIN queue : queue[i] = queue[k] => i = k
    BY Zenon DEF MsgQInv, SearchInv, IsInjective
  <2>3. ASSUME NEW m \in Range(queue), m \notin Range(queue')
        PROVE  m = queue[j]
    BY <2>1, <2>3 DEF Range
  <2>4. QED
    BY <2>1, <2>2, <2>3 DEF OldestLeaves
<1>3. ASSUME NEW x \in Senders, NEW m \in Msgs, Send(x, m)
      PROVE  OldestLeaves
  <2>1. queue \in Seq(Msgs) /\ queue' = Append(queue, m)
    BY <1>3 DEF Send, MsgQInv, TypeOK
  <2>2. \A i \in DOMAIN queue : i \in DOMAIN queue' /\ queue'[i] = queue[i]
    BY <2>1
  <2>3. Range(queue) \subseteq Range(queue')
    BY <2>2 DEF Range
  <2>4. QED
    BY <2>3 DEF OldestLeaves
<1>4. QED
  <2>1. ASSUME RecvStep, ~RemoveMsg
        PROVE  UNCHANGED queue
    BY <2>1, Zenon DEF RecvStep, RecvTimeout, FilterCreate, FilterSet, SearchAgain, Wake, FreeEvent,
       FreeSignal, FilterReset, FilterUnref
  <2>2. ASSUME NEW c \in Calls, RecvBegin(c)
        PROVE  UNCHANGED queue
    BY <2>2 DEF RecvBegin
  <2>3. ASSUME NEW x \in Senders, SendStep(x)
        PROVE  UNCHANGED queue
    BY <2>3 DEF SendStep, LoadFilter, LockFilter, MatchFilter, ExchangeEvent, SignalEvent,
       SendUnref
  <2>4. ASSUME NEW e \in Filters, TimerFire(e) \/ TimerDrop(e)
        PROVE  UNCHANGED queue
    BY <2>4 DEF TimerFire, TimerDrop
  <2>5. UNCHANGED vars => UNCHANGED queue
    BY DEF vars
  <2>6. QED
    BY <1>1, <1>2, <1>3, <2>1, <2>2, <2>3, <2>4, <2>5 DEF Next

FS == INSTANCE FiniteSetTheorems

(* A set of positions that is not empty has a least one. *)
LEMMA LeastPosition == HasLeast
<1> SUFFICES ASSUME NEW P \in SUBSET Nat, P # {}
             PROVE  \E i \in P : \A j \in P : i <= j
  BY DEF HasLeast
<1>1. PICK i \in P : \A j \in P : ~(<<j, i>> \in FS!OpToRel(<, Nat))
  BY FS!NatLessThanWellFounded, FS!WFMin, Zenon
<1>2. FS!OpToRel(<, Nat) = {ss \in Nat \X Nat : ss[1] < ss[2]}
  BY Zenon DEF FS!OpToRel
<1>3. \A j \in P : <<j, i>> \notin {ss \in Nat \X Nat : ss[1] < ss[2]}
  BY <1>1, <1>2, Zenon
<1>4. ASSUME NEW j \in P
      PROVE  i <= j
  <2>1. i \in Nat /\ j \in Nat
    OBVIOUS
  <2>2. <<j, i>> \notin {ss \in Nat \X Nat : ss[1] < ss[2]}
    BY <1>3
  <2>3. QED
    BY <2>1, <2>2
<1>5. QED
  BY <1>4

(* The senders are finite, and so is every set of them. *)
LEMMA SendersFinite == CountsSenders
<1> SUFFICES ASSUME NEW S \in SUBSET Senders
             PROVE  /\ Cardinality(S) \in Nat /\ (Cardinality(S) = 0 <=> S = {})
                    /\ \A x \in Senders \ S : Cardinality(S \cup {x}) = Cardinality(S) + 1
  BY DEF CountsSenders
<1>1. \A T : Cardinality(T) = FS!Cardinality(T)
  BY Zenon DEF Cardinality, FS!Cardinality
<1>2. FS!IsFiniteSet(Senders)
  BY MsgQAssumption, Zenon DEF IsFiniteSet, FS!IsFiniteSet
<1>3. FS!IsFiniteSet(S)
  BY <1>2, FS!FS_Subset
<1>4. FS!Cardinality(S) \in Nat /\ (FS!Cardinality(S) = 0 <=> S = {})
  BY <1>3, FS!FS_CardinalityType, FS!FS_EmptySet
<1>5. \A x \in Senders \ S : FS!Cardinality(S \cup {x}) = FS!Cardinality(S) + 1
  BY <1>3, FS!FS_AddElement
<1>6. QED
  BY <1>1, <1>4, <1>5

(* Whatever the interleaving of msgq.c's receive and sends with the timer, *)
(* the reference counts, the filters in use and the search are consistent. *)
THEOREM MsgQCorrect == Spec => []MsgQInv
<1>1. Init => MsgQInv
  BY MsgQInit, SendersFinite
<1>2. MsgQInv /\ [Next]_vars => MsgQInv'
  BY MsgQStep, SendersFinite, LeastPosition
<1>3. QED
  BY <1>1, <1>2, PTL DEF Spec

(* No reference count of msgq.c goes below zero, and no local leaves its   *)
(* type.                                                                   *)
THEOREM MsgQTypes == Spec => []TypeOK
<1>1. MsgQInv => TypeOK
  BY DEF MsgQInv
<1>2. QED
  BY <1>1, MsgQCorrect, PTL

(* prs_msgq_send uses no filter that prs_msgq_filter_reset or another      *)
(* sender has freed: the references are the users.                         *)
THEOREM FilterRefsCorrect == Spec => []FilterRefsAreUsers
<1>1. MsgQInv => FilterRefsAreUsers
  BY DEF MsgQInv
<1>2. QED
  BY <1>1, MsgQCorrect, PTL

(* The event of a receive has one reference per source that still signals  *)
(* it, but for the one that a second search leaks.                         *)
THEOREM EventRefsCorrect == Spec => []EventRefsAreSources
<1>1. MsgQInv => EventRefsAreSources
  BY DEF MsgQInv
<1>2. QED
  BY <1>1, MsgQCorrect, PTL

(* prs_msgq_recv_internal takes the oldest message it asks for, although   *)
(* it goes on searching from its hint and messages are pushed meanwhile.   *)
THEOREM OldestIsTaken == Spec => TakesOldestMatch
<1>1. MsgQInv /\ [Next]_vars => [OldestLeaves]_vars
  BY RemovesOldest
<1>2. Spec => [][OldestLeaves]_vars
  BY <1>1, MsgQCorrect, PTL DEF Spec
<1>3. QED
  BY <1>2 DEF TakesOldestMatch, OldestLeaves

=============================================================================
