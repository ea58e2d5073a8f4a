-------------------------- MODULE ExecOrdersProofs --------------------------
(***************************************************************************)
(* Exec's order table, its account and the venue agree, for any number of  *)
(* orders, rows and queue slots.  The table follows the venue through the  *)
(* reports in flight, so the invariant speaks of the venue's book as it    *)
(* was after each of them: a sequence h of books, one more than there are  *)
(* reports, from the book the table has caught up with (h[1]) to the       *)
(* venue's own (its last).  The NullRouter answers a request at once, so   *)
(* the same argument covers it with a book that nobody keeps.              *)
(* From what each row then has under way: a row marked for cancel or       *)
(* replace gets its answer, and the NullRouter leaves nothing resting.     *)
(***************************************************************************)
EXTENDS ExecOrders, FoldTheorems, SequenceTheorems

VOrder == [side : Side, px : Nat, cum : Nat, leaves : Nat \ {0}]
Books == UNION {[S -> VOrder] : S \in SUBSET Id}

\* The rows, in no order.
RowSet(rs) == {rs[i] : i \in DOMAIN rs}

-----------------------------------------------------------------------------
(* The channel between the table and the venue: R the rows, q the requests *)
(* and p the reports in flight.                                            *)

ReportTypes == {"Ack", "Reject", "Fill", "Canceled", "Expired", "Replaced", "CancelReject"}

\* Report m takes book B to book C.
Step(B, m, C) ==
    /\ m.type \in ReportTypes
    /\ DOMAIN B \ {m.id} = DOMAIN C \ {m.id}
    /\ \A y \in DOMAIN B \ {m.id} : C[y] = B[y]
    /\ m.type \in {"Ack", "Reject"} => m.id \notin DOMAIN B
    /\ m.type = "Ack" => m.id \in DOMAIN C
    /\ m.type \in {"Reject", "Canceled", "Expired"} => m.id \notin DOMAIN C
    /\ m.type = "CancelReject" => C = B
    /\ m.type = "Replaced" =>
          /\ m.id \in DOMAIN B <=> m.id \in DOMAIN C
          /\ m.id \in DOMAIN B => C[m.id].side = B[m.id].side /\ C[m.id].cum = B[m.id].cum
    /\ m.type = "Fill" =>
          /\ m.id \in DOMAIN B /\ m.qty \in 1..B[m.id].leaves
          /\ m.id \in DOMAIN C <=> m.qty # B[m.id].leaves
          /\ m.id \in DOMAIN C =>
                C[m.id] = [side |-> B[m.id].side, px |-> B[m.id].px,
                           cum |-> B[m.id].cum + m.qty, leaves |-> B[m.id].leaves - m.qty]

\* A row and the venue's order say the same.
Agrees(r, o) == o.side = r.side /\ o.leaves = r.leaves /\ o.cum = r.cum /\ o.px \in {0, r.px}
Asks(r, m) == m.side = r.side /\ m.qty = r.leaves /\ r.cum = 0 /\ m.px \in {0, r.px}

\* A row is in the book the table has caught up with, or is still to be answered.
Known(r, q, p, h) ==
    IF r.id \in DOMAIN h[1] THEN Agrees(r, h[1][r.id])
    ELSE \/ \E k \in 1..Len(p) :
              /\ p[k].id = r.id /\ p[k].type \in {"Ack", "Reject"}
              /\ p[k].type = "Ack" => Agrees(r, h[k + 1][r.id])
         \/ \E j \in 1..Len(q) : q[j].id = r.id /\ q[j].type = "New" /\ Asks(r, q[j])

\* Nothing is said of an order before it is answered.
Fresh(q, p, h) ==
    /\ \A k \in 1..Len(p) : p[k].type \in {"Ack", "Reject"} =>
          \A j \in 1..(k - 1) : p[j].id # p[k].id /\ p[k].id \notin DOMAIN h[j]
    /\ \A j \in 1..Len(q) : q[j].type = "New" =>
          /\ \A i \in 1..(j - 1) : q[i].id # q[j].id
          /\ \A k \in 1..Len(p) : p[k].id # q[j].id
          /\ \A k \in 1..Len(h) : q[j].id \notin DOMAIN h[k]

\* An order enters the book by its Ack only.
Entered(p, h) ==
    \A k, l \in 1..Len(h) : \A x \in DOMAIN h[l] :
        k < l /\ x \notin DOMAIN h[k] =>
            \E j \in k..(l - 1) : p[j].type = "Ack" /\ p[j].id = x

\* The answer to an amend of a resting order; an amend the venue has not seen.
Reply(x, p, h, k) ==
    p[k].id = x /\ x \in DOMAIN h[k] /\ p[k].type \in {"Replaced", "CancelReject"}
Amend(x, q, j) == q[j].id = x /\ q[j].type = "Replace"

\* One amend of a row at a time, and the row remembers its terms.
Amends(r, q, p, h) ==
    /\ \A k \in 1..Len(p) : Reply(r.id, p, h, k) =>
          /\ "replace" \in r.pending
          /\ p[k].type = "Replaced" =>
                /\ h[k + 1][r.id].px = r.newPx
                /\ h[k + 1][r.id].cum + h[k + 1][r.id].leaves = r.newQty
          /\ \A l \in 1..Len(p) : Reply(r.id, p, h, l) => l = k
          /\ \A j \in 1..Len(q) : ~Amend(r.id, q, j)
    /\ \A j \in 1..Len(q) : Amend(r.id, q, j) =>
          /\ "replace" \in r.pending /\ q[j].px = r.newPx /\ q[j].qty = r.newQty
          /\ \A i \in 1..Len(q) : Amend(r.id, q, i) => i = j

Chan(R, q, p, h) ==
    /\ Len(q) \in Nat /\ Len(p) \in Nat /\ Len(h) = Len(p) + 1
    /\ \A k \in 1..Len(h) : h[k] \in Books /\ \A x \in DOMAIN h[k] : \E r \in R : r.id = x
    /\ \A j \in 1..Len(q) : q[j].type = "New" => \E r \in R : r.id = q[j].id
    /\ \A k \in 1..Len(p) : Step(h[k], p[k], h[k + 1])
    /\ \A r \in R : Known(r, q, p, h) /\ Amends(r, q, p, h)
    /\ Fresh(q, p, h) /\ Entered(p, h)

\* t is s with one element more at its end, or less at its front.
Pushed(s, t, x) ==
    Len(t) = Len(s) + 1 /\ (\A k \in 1..Len(s) : t[k] = s[k]) /\ t[Len(s) + 1] = x
Popped(s, t) ==
    Len(s) > 0 /\ Len(t) = Len(s) - 1 /\ \A k \in 1..Len(t) : t[k] = s[k + 1]

\* submit: a row and its request.
LEMMA PushNew ==
    ASSUME NEW R, NEW q, NEW p, NEW h, Chan(R, q, p, h), NEW q1, NEW m, Pushed(q, q1, m),
           m.type = "New", NEW r, r.id = m.id, Asks(r, m),
           \A x \in R : x.id # m.id,
           \A j \in 1..Len(q) : q[j].id # m.id,
           \A k \in 1..Len(p) : p[k].id # m.id
    PROVE  Chan(R \cup {r}, q1, p, h)
<1>1. \A k \in 1..Len(h) : m.id \notin DOMAIN h[k]
  BY DEF Chan
<1>2. /\ Len(q) \in Nat /\ Len(q1) = Len(q) + 1 /\ Len(p) \in Nat /\ Len(h) = Len(p) + 1
      /\ \A j \in 1..Len(q) : q1[j] = q[j]
      /\ q1[Len(q1)] = m
  BY DEF Chan, Pushed
<1>3. \A k \in 1..Len(h) : h[k] \in Books /\ \A x \in DOMAIN h[k] : \E y \in R \cup {r} : y.id = x
  BY DEF Chan
<1>4. \A j \in 1..Len(q1) : q1[j].type = "New" => \E y \in R \cup {r} : y.id = q1[j].id
  BY <1>2 DEF Chan
<1>5. ASSUME NEW x \in R PROVE Known(x, q1, p, h) /\ Amends(x, q1, p, h)
  <2>1. Known(x, q, p, h) /\ Amends(x, q, p, h)
    BY DEF Chan
  <2>2. Known(x, q1, p, h)
    BY <1>2, <2>1 DEF Known
  <2>3. \A j \in 1..Len(q1) : Amend(x.id, q1, j) => j \in 1..Len(q) /\ Amend(x.id, q, j)
    BY <1>2 DEF Amend
  <2>4. \A j \in 1..Len(q) : q1[j] = q[j]
    BY <1>2
  <2>5. Amends(x, q1, p, h)
    BY <2>1, <2>3, <2>4 DEF Amends
  <2> QED BY <2>2, <2>5
<1>6. Known(r, q1, p, h)
  <2>1. r.id \notin DOMAIN h[1]
    BY <1>1, <1>2
  <2> QED BY <1>2, <2>1 DEF Known
<1>7. Amends(r, q1, p, h)
  <2>1. \A k \in 1..Len(p) : ~Reply(r.id, p, h, k)
    BY DEF Reply
  <2>2. \A j \in 1..Len(q1) : ~Amend(r.id, q1, j)
    BY <1>2 DEF Amend
  <2> QED BY <2>1, <2>2 DEF Amends
<1>8. Fresh(q1, p, h)
  <2>1. Fresh(q, p, h)
    BY DEF Chan
  <2>2. ASSUME NEW j \in 1..Len(q1), q1[j].type = "New"
        PROVE  /\ \A i \in 1..(j - 1) : q1[i].id # q1[j].id
               /\ \A k \in 1..Len(p) : p[k].id # q1[j].id
               /\ \A k \in 1..Len(h) : q1[j].id \notin DOMAIN h[k]
    <3>1. CASE j = Len(q1)
      BY <1>1, <1>2, <3>1
    <3>2. CASE j # Len(q1)
      BY <1>2, <2>1, <2>2, <3>2 DEF Fresh
    <3> QED BY <3>1, <3>2
  <2> QED BY <2>1, <2>2 DEF Fresh
<1> QED BY <1>2, <1>3, <1>4, <1>5, <1>6, <1>7, <1>8 DEF Chan

\* cancel and replace: a request for a row, which remembers it.
LEMMA PushAsk ==
    ASSUME NEW R, NEW q, NEW p, NEW h, Chan(R, q, p, h), NEW q1, NEW m, Pushed(q, q1, m),
           NEW r \in R, r.id = m.id, \A x \in R : x.id = r.id => x = r,
           NEW s, s.id = r.id, s.side = r.side, s.leaves = r.leaves, s.cum = r.cum, s.px = r.px,
           \/ /\ m.type = "Cancel" /\ s.newPx = r.newPx /\ s.newQty = r.newQty
              /\ "replace" \in r.pending => "replace" \in s.pending
           \/ /\ m.type = "Replace" /\ r.pending = {} /\ "replace" \in s.pending
              /\ s.newPx = m.px /\ s.newQty = m.qty
    PROVE  Chan((R \ {r}) \cup {s}, q1, p, h)
<1> DEFINE T == (R \ {r}) \cup {s}
<1>1. \A y : (\E x \in R : x.id = y) => \E x \in T : x.id = y
  OBVIOUS
<1>2. /\ Len(q) \in Nat /\ Len(q1) = Len(q) + 1 /\ Len(p) \in Nat /\ Len(h) = Len(p) + 1
      /\ \A j \in 1..Len(q) : q1[j] = q[j]
      /\ q1[Len(q1)] = m
  BY DEF Chan, Pushed
<1>3. \A k \in 1..Len(h) : h[k] \in Books /\ \A x \in DOMAIN h[k] : \E y \in T : y.id = x
  BY <1>1 DEF Chan
<1>4. \A j \in 1..Len(q1) : q1[j].type = "New" => \E y \in T : y.id = q1[j].id
  BY <1>1, <1>2 DEF Chan
<1>5. ASSUME NEW x \in R PROVE Known(x, q1, p, h)
  BY <1>2 DEF Chan, Known
<1>6. Known(s, q1, p, h)
  <2>1. \A o : Agrees(r, o) => Agrees(s, o)
    BY DEF Agrees
  <2>2. \A o : Asks(r, o) => Asks(s, o)
    BY DEF Asks
  <2>3. Known(r, q1, p, h)
    BY <1>5
  <2> QED BY <2>1, <2>2, <2>3 DEF Known
<1>7. ASSUME NEW x \in R, x # r PROVE Amends(x, q1, p, h)
  <2>1. Amends(x, q, p, h)
    BY DEF Chan
  <2>2. \A j \in 1..Len(q1) : Amend(x.id, q1, j) => j \in 1..Len(q) /\ Amend(x.id, q, j)
    BY <1>2, <1>7 DEF Amend
  <2> QED BY <1>2, <2>1, <2>2 DEF Amends
<1>8. Amends(s, q1, p, h)
  <2>1. Amends(r, q, p, h)
    BY DEF Chan
  <2>2. CASE m.type = "Cancel"
    <3>1. \A j \in 1..Len(q1) : Amend(s.id, q1, j) => j \in 1..Len(q) /\ Amend(r.id, q, j)
      BY <1>2, <2>2 DEF Amend
    <3>2. s.newPx = r.newPx /\ s.newQty = r.newQty
      BY <2>2
    <3>3. "replace" \in r.pending => "replace" \in s.pending
      BY <2>2
    <3> QED BY <1>2, <2>1, <3>1, <3>2, <3>3 DEF Amends
  <2>3. CASE m.type = "Replace"
    <3>1. \A k \in 1..Len(p) : ~Reply(s.id, p, h, k)
      BY <2>1, <2>3 DEF Amends
    <3>2. \A j \in 1..Len(q) : ~Amend(s.id, q, j)
      BY <2>1, <2>3 DEF Amends
    <3>3. \A j \in 1..Len(q1) : Amend(s.id, q1, j) => j = Len(q1)
      BY <1>2, <3>2 DEF Amend
    <3> QED BY <1>2, <2>3, <3>1, <3>3 DEF Amends
  <2> QED BY <2>2, <2>3
<1>9. Fresh(q1, p, h)
  BY <1>2 DEF Chan, Fresh
<1> QED BY <1>2, <1>3, <1>4, <1>5, <1>6, <1>7, <1>8, <1>9 DEF Chan

-----------------------------------------------------------------------------
(* The venue answers: a report more, and the book it leaves.               *)

LEMMA PushIndex ==
    ASSUME NEW R, NEW q, NEW p, NEW h, Chan(R, q, p, h),
           NEW p1, NEW m, Pushed(p, p1, m), NEW h1, NEW C, Pushed(h, h1, C)
    PROVE  /\ Len(q) \in Nat /\ Len(p) \in Nat /\ Len(h) = Len(p) + 1
           /\ Len(p1) = Len(h) /\ Len(h1) = Len(h) + 1
           /\ \A k \in 1..Len(p) : k \in 1..Len(p1) /\ p1[k] = p[k] /\ k < Len(h)
                                    /\ h1[k] = h[k] /\ h1[k + 1] = h[k + 1]
           /\ \A k \in 1..Len(h) : k \in 1..Len(h1) /\ h1[k] = h[k]
           /\ p1[Len(h)] = m /\ h1[Len(h) + 1] = C /\ h1[Len(h)] = h[Len(h)]
           /\ \A k \in 1..Len(p1) : k # Len(h) => k \in 1..Len(p)
           /\ \A k \in 1..Len(p1) : \A j \in 1..(k - 1) : j \in 1..Len(p) /\ j \in 1..Len(h)
           /\ \A k \in 1..Len(h1) : k # Len(h) + 1 => k \in 1..Len(h)
           /\ 1 \in 1..Len(h) /\ Len(h) \in 1..Len(h) /\ Len(h) \in 1..Len(p1)
           /\ h1[1] = h[1]
BY DEF Chan, Pushed

\* What a report at the end of the channel does not disturb.
LEMMA PushBooks ==
    ASSUME NEW R, NEW q, NEW p, NEW h, Chan(R, q, p, h),
           NEW p1, NEW m, Pushed(p, p1, m), NEW h1, NEW C \in Books, Pushed(h, h1, C),
           Step(h[Len(h)], m, C)
    PROVE  /\ \A k \in 1..Len(p1) : Step(h1[k], p1[k], h1[k + 1])
           /\ Entered(p1, h1)
           /\ m.type # "Ack" => DOMAIN C \subseteq DOMAIN h[Len(h)]
<1>1. /\ Len(q) \in Nat /\ Len(p) \in Nat /\ Len(h) = Len(p) + 1
      /\ Len(p1) = Len(h) /\ Len(h1) = Len(h) + 1
      /\ \A k \in 1..Len(p) : p1[k] = p[k]
      /\ \A k \in 1..Len(h) : h1[k] = h[k]
      /\ p1[Len(h)] = m /\ h1[Len(h) + 1] = C
  BY DEF Chan, Pushed
<1>2. \A k \in 1..Len(p1) : Step(h1[k], p1[k], h1[k + 1])
  <2> TAKE k \in 1..Len(p1)
  <2>1. CASE k = Len(p1)
    BY <1>1, <2>1
  <2>2. CASE k # Len(p1)
    <3>1. k \in 1..Len(p) /\ k \in 1..Len(h) /\ k + 1 \in 1..Len(h)
      BY <1>1, <2>2
    <3>2. Step(h[k], p[k], h[k + 1])
      BY <3>1 DEF Chan
    <3> QED BY <1>1, <3>1, <3>2
  <2> QED BY <2>1, <2>2
<1>3. m.type # "Ack" => DOMAIN C \subseteq DOMAIN h[Len(h)]
  BY DEF Step, ReportTypes
<1>4. Entered(p1, h1)
  <2> SUFFICES ASSUME NEW k \in 1..Len(h1), NEW l \in 1..Len(h1), NEW x \in DOMAIN h1[l],
                      k < l, x \notin DOMAIN h1[k]
               PROVE  \E j \in k..(l - 1) : p1[j].type = "Ack" /\ p1[j].id = x
    BY DEF Entered
  <2>0. Entered(p, h)
    BY DEF Chan
  <2>1. CASE l # Len(h1)
    <3>1. k \in 1..Len(h) /\ l \in 1..Len(h) /\ h1[k] = h[k] /\ h1[l] = h[l]
      BY <1>1, <2>1
    <3>2. PICK j \in k..(l - 1) : p[j].type = "Ack" /\ p[j].id = x
      BY <2>0, <3>1 DEF Entered
    <3>3. j \in 1..Len(p)
      BY <1>1, <3>1
    <3> QED BY <1>1, <3>2, <3>3
  <2>2. CASE l = Len(h1) /\ x \in DOMAIN h[Len(h)]
    <3>1. k \in 1..Len(h) /\ Len(h) \in 1..Len(h) /\ h1[k] = h[k] /\ k # Len(h)
      BY <1>1, <2>2
    <3>2. k < Len(h)
      BY <1>1, <3>1
    <3>3. PICK j \in k..(Len(h) - 1) : p[j].type = "Ack" /\ p[j].id = x
      BY <2>0, <2>2, <3>1, <3>2 DEF Entered
    <3>4. j \in 1..Len(p) /\ j \in k..(l - 1)
      BY <1>1, <2>2, <3>1
    <3> QED BY <1>1, <3>3, <3>4
  <2>3. CASE l = Len(h1) /\ x \notin DOMAIN h[Len(h)]
    <3>1. x \in DOMAIN C
      BY <1>1, <2>3
    <3>2. m.type = "Ack" /\ m.id = x
      BY <1>3, <2>3, <3>1 DEF Step
    <3>3. Len(h) \in k..(l - 1)
      BY <1>1, <2>3
    <3> QED BY <1>1, <3>2, <3>3
  <2> QED BY <2>1, <2>2, <2>3
<1> QED BY <1>2, <1>3, <1>4

\* A resting order trades or is dropped by the venue.
LEMMA Unasked ==
    ASSUME NEW R, NEW q, NEW p, NEW h, Chan(R, q, p, h),
           NEW p1, NEW m, Pushed(p, p1, m), NEW h1, NEW C \in Books, Pushed(h, h1, C),
           Step(h[Len(h)], m, C), m.type \in {"Fill", "Canceled", "Expired"},
           m.id \in DOMAIN h[Len(h)]
    PROVE  Chan(R, q, p1, h1)
<1>1. /\ Len(q) \in Nat /\ Len(p) \in Nat /\ Len(h) = Len(p) + 1
      /\ Len(p1) = Len(h) /\ Len(h1) = Len(h) + 1
      /\ \A k \in 1..Len(p) : k \in 1..Len(p1) /\ p1[k] = p[k] /\ k < Len(h)
                               /\ h1[k] = h[k] /\ h1[k + 1] = h[k + 1]
      /\ \A k \in 1..Len(h) : k \in 1..Len(h1) /\ h1[k] = h[k]
      /\ p1[Len(h)] = m /\ h1[Len(h) + 1] = C /\ h1[Len(h)] = h[Len(h)]
      /\ \A k \in 1..Len(p1) : k # Len(h) => k \in 1..Len(p)
      /\ \A k \in 1..Len(p1) : \A j \in 1..(k - 1) : j \in 1..Len(p) /\ j \in 1..Len(h)
      /\ \A k \in 1..Len(h1) : k # Len(h) + 1 => k \in 1..Len(h)
      /\ 1 \in 1..Len(h) /\ Len(h) \in 1..Len(h) /\ Len(h) \in 1..Len(p1)
      /\ h1[1] = h[1]
  BY ONLY Chan(R, q, p, h), Pushed(p, p1, m), Pushed(h, h1, C), PushIndex
<1>2. /\ \A k \in 1..Len(p1) : Step(h1[k], p1[k], h1[k + 1])
      /\ Entered(p1, h1)
  BY PushBooks
<1>3. DOMAIN C \subseteq DOMAIN h[Len(h)]
  BY PushBooks
<1>4. ASSUME NEW k \in 1..Len(h1)
      PROVE  h1[k] \in Books /\ \A x \in DOMAIN h1[k] : \E r \in R : r.id = x
  <2>1. CASE k = Len(h) + 1
    BY <1>1, <1>3, <2>1 DEF Chan
  <2>2. CASE k # Len(h) + 1
    BY <1>1, <2>2 DEF Chan
  <2> QED BY <2>1, <2>2
<1>5. ASSUME NEW r \in R PROVE Known(r, q, p1, h1) /\ Amends(r, q, p1, h1)
  <2>1. Known(r, q, p, h) /\ Amends(r, q, p, h)
    BY DEF Chan
  <2>2. Known(r, q, p1, h1)
    BY <1>1, <2>1 DEF Known
  <2>3. \A k \in 1..Len(p1) : Reply(r.id, p1, h1, k) => k \in 1..Len(p) /\ Reply(r.id, p, h, k)
    BY <1>1 DEF Reply
  <2>4. Amends(r, q, p1, h1)
    BY <1>1, <2>1, <2>3 DEF Amends
  <2> QED BY <2>2, <2>4
<1>6. Fresh(q, p1, h1)
  <2>0. Fresh(q, p, h)
    BY DEF Chan
  <2>1. ASSUME NEW k \in 1..Len(p1), p1[k].type \in {"Ack", "Reject"}, NEW j \in 1..(k - 1)
        PROVE  p1[j].id # p1[k].id /\ p1[k].id \notin DOMAIN h1[j]
    <3>1. k # Len(h)
      BY <1>1, <2>1
    <3>2. k \in 1..Len(p) /\ j \in 1..Len(p) /\ j \in 1..Len(h)
      BY <1>1, <3>1
    <3>3. p1[k] = p[k] /\ p1[j] = p[j] /\ h1[j] = h[j]
      BY <1>1, <3>2
    <3> QED BY <2>0, <2>1, <3>2, <3>3 DEF Fresh
  <2>2. ASSUME NEW j \in 1..Len(q), q[j].type = "New"
        PROVE  /\ \A i \in 1..(j - 1) : q[i].id # q[j].id
               /\ \A k \in 1..Len(p1) : p1[k].id # q[j].id
               /\ \A k \in 1..Len(h1) : q[j].id \notin DOMAIN h1[k]
    <3>1. /\ \A i \in 1..(j - 1) : q[i].id # q[j].id
          /\ \A k \in 1..Len(p) : p[k].id # q[j].id
          /\ \A k \in 1..Len(h) : q[j].id \notin DOMAIN h[k]
      BY <2>0, <2>2 DEF Fresh
    <3>2. q[j].id \notin DOMAIN h[Len(h)]
      BY <1>1, <3>1
    <3>3. ASSUME NEW k \in 1..Len(p1) PROVE p1[k].id # q[j].id
      BY <1>1, <3>1, <3>2
    <3>4. ASSUME NEW k \in 1..Len(h1) PROVE q[j].id \notin DOMAIN h1[k]
      BY <1>1, <1>3, <3>1, <3>2
    <3> QED BY <3>1, <3>3, <3>4
  <2> QED BY <2>1, <2>2 DEF Fresh
<1>7. \A j \in 1..Len(q) : q[j].type = "New" => \E r \in R : r.id = q[j].id
  BY DEF Chan
<1> QED BY <1>1, <1>2, <1>4, <1>5, <1>6, <1>7 DEF Chan

LEMMA PopIndex ==
    ASSUME NEW q, Len(q) \in Nat, NEW q1, Popped(q, q1)
    PROVE  /\ 1 \in 1..Len(q) /\ Len(q1) = Len(q) - 1 /\ Len(q1) \in Nat
           /\ \A j \in 1..Len(q1) : q1[j] = q[j + 1] /\ j + 1 \in 1..Len(q) /\ j + 1 # 1
           /\ \A j \in 1..Len(q) : j # 1 => (j - 1) \in 1..Len(q1) /\ q1[j - 1] = q[j]
           /\ \A j \in 1..Len(q1) : \A i \in 1..(j - 1) :
                 i \in 1..Len(q1) /\ q1[i] = q[i + 1] /\ i + 1 \in 1..((j + 1) - 1)
<1>1. /\ 1 \in 1..Len(q) /\ Len(q1) = Len(q) - 1 /\ Len(q1) \in Nat
      /\ \A j \in 1..Len(q1) : q1[j] = q[j + 1]
  BY DEF Popped
<1>2. ASSUME NEW j \in 1..Len(q), j # 1 PROVE (j - 1) \in 1..Len(q1) /\ q1[j - 1] = q[j]
  <2>1. (j - 1) \in 1..Len(q1) /\ (j - 1) + 1 = j
    BY <1>1, <1>2
  <2> QED BY <1>1, <2>1
<1> QED BY <1>1, <1>2

\* A request less, other than the front order itself, for the orders still to be
\* answered.
LEMMA PopRequest ==
    ASSUME NEW R, NEW q, NEW p, NEW h, Chan(R, q, p, h), NEW q1, Popped(q, q1)
    PROVE  /\ \A j \in 1..Len(q1) : q1[j].type = "New" =>
                 /\ \E r \in R : r.id = q1[j].id
                 /\ \A i \in 1..(j - 1) : q1[i].id # q1[j].id
                 /\ \A k \in 1..Len(p) : p[k].id # q1[j].id
                 /\ \A k \in 1..Len(h) : q1[j].id \notin DOMAIN h[k]
                 /\ q1[j].id # q[1].id
           /\ \A r \in R : r.id # q[1].id \/ q[1].type # "New" => Known(r, q1, p, h)
           /\ \A r \in R : \A j \in 1..Len(q1) : Amend(r.id, q1, j) => Amend(r.id, q, j + 1)
<1>1. /\ Len(q) \in Nat
      /\ 1 \in 1..Len(q) /\ Len(q1) = Len(q) - 1 /\ Len(q1) \in Nat
      /\ \A j \in 1..Len(q1) : q1[j] = q[j + 1] /\ j + 1 \in 1..Len(q) /\ j + 1 # 1
      /\ \A j \in 1..Len(q) : j # 1 => (j - 1) \in 1..Len(q1) /\ q1[j - 1] = q[j]
      /\ \A j \in 1..Len(q1) : \A i \in 1..(j - 1) :
            i \in 1..Len(q1) /\ q1[i] = q[i + 1] /\ i + 1 \in 1..((j + 1) - 1)
  BY PopIndex DEF Chan
<1>2. ASSUME NEW j \in 1..Len(q1), q1[j].type = "New"
      PROVE  /\ \E r \in R : r.id = q1[j].id
             /\ \A i \in 1..(j - 1) : q1[i].id # q1[j].id
             /\ \A k \in 1..Len(p) : p[k].id # q1[j].id
             /\ \A k \in 1..Len(h) : q1[j].id \notin DOMAIN h[k]
             /\ q1[j].id # q[1].id
  <2>1. q1[j] = q[j + 1] /\ j + 1 \in 1..Len(q) /\ 1 \in 1..((j + 1) - 1)
    BY <1>1
  <2>2. /\ \E r \in R : r.id = q[j + 1].id
        /\ \A i \in 1..((j + 1) - 1) : q[i].id # q[j + 1].id
        /\ \A k \in 1..Len(p) : p[k].id # q[j + 1].id
        /\ \A k \in 1..Len(h) : q[j + 1].id \notin DOMAIN h[k]
    BY <1>2, <2>1 DEF Chan, Fresh
  <2>3. \A i \in 1..(j - 1) : q1[i].id # q1[j].id
    BY <1>1, <2>1, <2>2
  <2> QED BY <2>1, <2>2, <2>3
<1>3. ASSUME NEW r \in R, r.id # q[1].id \/ q[1].type # "New" PROVE Known(r, q1, p, h)
  <2>1. Known(r, q, p, h)
    BY DEF Chan
  <2>2. ASSUME NEW j \in 1..Len(q), q[j].id = r.id, q[j].type = "New", Asks(r, q[j])
        PROVE  \E i \in 1..Len(q1) : q1[i].id = r.id /\ q1[i].type = "New" /\ Asks(r, q1[i])
    <3>1. j # 1
      BY <1>3, <2>2
    <3>2. (j - 1) \in 1..Len(q1) /\ q1[j - 1] = q[j]
      BY <1>1, <3>1
    <3> QED BY <2>2, <3>2
  <2> QED BY <2>1, <2>2 DEF Known
<1>4. ASSUME NEW r \in R, NEW j \in 1..Len(q1), Amend(r.id, q1, j) PROVE Amend(r.id, q, j + 1)
  BY <1>1, <1>4 DEF Amend
<1> QED BY <1>2, <1>3, <1>4

\* The next request is a new order: it rests or is refused.
LEMMA Birth ==
    ASSUME NEW R, NEW q, NEW p, NEW h, Chan(R, q, p, h), NEW q1, Popped(q, q1),
           NEW p1, NEW m, Pushed(p, p1, m), NEW h1, NEW C \in Books, Pushed(h, h1, C),
           Step(h[Len(h)], m, C), q[1].type = "New", m.id = q[1].id,
           m.type \in {"Ack", "Reject"},
           \A x, y \in R : x.id = y.id => x = y,
           m.type = "Ack" => C[m.id] = [side |-> q[1].side, px |-> q[1].px,
                                        cum |-> 0, leaves |-> q[1].qty]
    PROVE  Chan(R, q1, p1, h1)
<1>1. /\ Len(q) \in Nat /\ Len(p) \in Nat /\ Len(h) = Len(p) + 1
      /\ Len(p1) = Len(h) /\ Len(h1) = Len(h) + 1
      /\ \A k \in 1..Len(p) : k \in 1..Len(p1) /\ p1[k] = p[k] /\ k < Len(h)
                               /\ h1[k] = h[k] /\ h1[k + 1] = h[k + 1]
      /\ \A k \in 1..Len(h) : k \in 1..Len(h1) /\ h1[k] = h[k]
      /\ p1[Len(h)] = m /\ h1[Len(h) + 1] = C /\ h1[Len(h)] = h[Len(h)]
      /\ \A k \in 1..Len(p1) : k # Len(h) => k \in 1..Len(p)
      /\ \A k \in 1..Len(p1) : \A j \in 1..(k - 1) : j \in 1..Len(p) /\ j \in 1..Len(h)
      /\ \A k \in 1..Len(h1) : k # Len(h) + 1 => k \in 1..Len(h)
      /\ 1 \in 1..Len(h) /\ Len(h) \in 1..Len(h) /\ Len(h) \in 1..Len(p1)
      /\ h1[1] = h[1]
  BY ONLY Chan(R, q, p, h), Pushed(p, p1, m), Pushed(h, h1, C), PushIndex
<1>s. /\ \A k \in 1..Len(p1) : Step(h1[k], p1[k], h1[k + 1])
      /\ Entered(p1, h1)
  BY PushBooks
<1>2. 1 \in 1..Len(q) /\ Len(q1) \in Nat
  BY <1>1, PopIndex
<1>3. /\ \A k \in 1..Len(p) : p[k].id # m.id
      /\ \A k \in 1..Len(h) : m.id \notin DOMAIN h[k]
  BY <1>2 DEF Chan, Fresh
<1>4. \A j \in 1..Len(q) : j # 1 /\ q[j].type = "New" => q[j].id # m.id
  <2>1. ASSUME NEW j \in 1..Len(q), j # 1, q[j].type = "New" PROVE q[j].id # m.id
    <3>1. 1 \in 1..(j - 1)
      BY <2>1
    <3> QED BY <2>1, <3>1 DEF Chan, Fresh
  <2> QED BY <2>1
<1>5. PICK b \in R : b.id = m.id
  BY <1>2 DEF Chan
<1>6. Asks(b, q[1])
  <2>1. Known(b, q, p, h) /\ b.id \notin DOMAIN h[1]
    BY <1>1, <1>3, <1>5 DEF Chan
  <2>2. PICK j \in 1..Len(q) : q[j].id = b.id /\ q[j].type = "New" /\ Asks(b, q[j])
    BY <1>3, <1>5, <2>1 DEF Known
  <2> QED BY <1>4, <1>5, <2>2
<1>c. \A x \in DOMAIN C : x = m.id \/ x \in DOMAIN h[Len(h)]
  BY DEF Step
<1>7. ASSUME NEW k \in 1..Len(h1)
      PROVE  h1[k] \in Books /\ \A x \in DOMAIN h1[k] : \E r \in R : r.id = x
  <2>1. CASE k = Len(h) + 1
    <3>1. \A x \in DOMAIN h[Len(h)] : \E r \in R : r.id = x
      BY <1>1 DEF Chan
    <3> QED BY <1>1, <1>5, <1>c, <2>1, <3>1
  <2>2. CASE k # Len(h) + 1
    BY <1>1, <2>2 DEF Chan
  <2> QED BY <2>1, <2>2
<1>8. ASSUME NEW j \in 1..Len(q1), q1[j].type = "New"
      PROVE  /\ \E r \in R : r.id = q1[j].id
             /\ \A i \in 1..(j - 1) : q1[i].id # q1[j].id
             /\ \A k \in 1..Len(p1) : p1[k].id # q1[j].id
             /\ \A k \in 1..Len(h1) : q1[j].id \notin DOMAIN h1[k]
  <2>1. /\ \E r \in R : r.id = q1[j].id
        /\ \A i \in 1..(j - 1) : q1[i].id # q1[j].id
        /\ \A k \in 1..Len(p) : p[k].id # q1[j].id
        /\ \A k \in 1..Len(h) : q1[j].id \notin DOMAIN h[k]
        /\ q1[j].id # m.id
    BY <1>8, PopRequest
  <2>2. ASSUME NEW k \in 1..Len(p1) PROVE p1[k].id # q1[j].id
    BY <1>1, <2>1
  <2>3. q1[j].id \notin DOMAIN C
    BY <1>1, <1>c, <2>1
  <2>4. ASSUME NEW k \in 1..Len(h1) PROVE q1[j].id \notin DOMAIN h1[k]
    BY <1>1, <2>1, <2>3
  <2> QED BY <2>1, <2>2, <2>4
<1>9. Fresh(q1, p1, h1)
  <2>1. ASSUME NEW k \in 1..Len(p1), p1[k].type \in {"Ack", "Reject"}, NEW j \in 1..(k - 1)
        PROVE  p1[j].id # p1[k].id /\ p1[k].id \notin DOMAIN h1[j]
    <3>1. j \in 1..Len(p) /\ j \in 1..Len(h) /\ p1[j] = p[j] /\ h1[j] = h[j]
      BY <1>1
    <3>2. CASE k = Len(h)
      BY <1>1, <1>3, <3>1, <3>2
    <3>3. CASE k # Len(h)
      <4>1. k \in 1..Len(p) /\ p1[k] = p[k]
        BY <1>1, <3>3
      <4> QED BY <2>1, <3>1, <4>1 DEF Chan, Fresh
    <3> QED BY <3>2, <3>3
  <2> QED BY <1>8, <2>1 DEF Fresh
<1>10. ASSUME NEW r \in R PROVE Known(r, q1, p1, h1)
  <2>1. CASE r.id = m.id
    <3>1. r = b
      BY <1>5, <2>1
    <3>2. r.id \notin DOMAIN h1[1]
      BY <1>1, <1>3, <2>1
    <3>3. m.type = "Ack" => Agrees(r, C[r.id])
      BY <1>6, <2>1, <3>1 DEF Agrees, Asks
    <3>4. Len(h) \in 1..Len(p1) /\ p1[Len(h)] = m /\ h1[Len(h) + 1] = C
      BY <1>1
    <3> QED BY <2>1, <3>2, <3>3, <3>4 DEF Known
  <2>2. CASE r.id # m.id
    <3>1. Known(r, q1, p, h)
      BY <2>2, PopRequest
    <3> QED BY <1>1, <3>1 DEF Known
  <2> QED BY <2>1, <2>2
<1>11. ASSUME NEW r \in R PROVE Amends(r, q1, p1, h1)
  <2>1. Amends(r, q, p, h)
    BY DEF Chan
  <2>2. \A k \in 1..Len(p1) : Reply(r.id, p1, h1, k) => k \in 1..Len(p) /\ Reply(r.id, p, h, k)
    BY <1>1 DEF Reply
  <2>3. ASSUME NEW j \in 1..Len(q1), Amend(r.id, q1, j)
        PROVE  Amend(r.id, q, j + 1) /\ j + 1 \in 1..Len(q) /\ q1[j] = q[j + 1]
    BY <1>1, <2>3, PopRequest, PopIndex
  <2>4. ASSUME NEW k \in 1..Len(p1), Reply(r.id, p1, h1, k)
        PROVE  /\ "replace" \in r.pending
               /\ p1[k].type = "Replaced" =>
                     /\ h1[k + 1][r.id].px = r.newPx
                     /\ h1[k + 1][r.id].cum + h1[k + 1][r.id].leaves = r.newQty
               /\ \A l \in 1..Len(p1) : Reply(r.id, p1, h1, l) => l = k
               /\ \A j \in 1..Len(q1) : ~Amend(r.id, q1, j)
    BY <1>1, <2>1, <2>2, <2>3, <2>4 DEF Amends
  <2>5. ASSUME NEW j \in 1..Len(q1), Amend(r.id, q1, j)
        PROVE  /\ "replace" \in r.pending /\ q1[j].px = r.newPx /\ q1[j].qty = r.newQty
               /\ \A i \in 1..Len(q1) : Amend(r.id, q1, i) => i = j
    <3>1. Amend(r.id, q, j + 1) /\ j + 1 \in 1..Len(q) /\ q1[j] = q[j + 1]
      BY <2>3, <2>5
    <3>2. ASSUME NEW i \in 1..Len(q1), Amend(r.id, q1, i) PROVE i = j
      <4>1. Amend(r.id, q, i + 1) /\ i + 1 \in 1..Len(q)
        BY <2>3, <3>2
      <4>2. i + 1 = j + 1
        BY <2>1, <3>1, <4>1 DEF Amends
      <4> QED BY <1>2, <4>2
    <3> QED BY <2>1, <3>1, <3>2 DEF Amends
  <2> QED BY <2>4, <2>5 DEF Amends
<1> QED BY <1>1, <1>2, <1>s, <1>7, <1>8, <1>9, <1>10, <1>11 DEF Chan

\* The next request is a cancel or an amend; an amend of a resting order is
\* answered by Replaced, at its terms, or by a CancelReject, and nothing else
\* is said of it.
LEMMA Answer ==
    ASSUME NEW R, NEW q, NEW p, NEW h, Chan(R, q, p, h), NEW q1, Popped(q, q1),
           NEW p1, NEW m, Pushed(p, p1, m), NEW h1, NEW C \in Books, Pushed(h, h1, C),
           Step(h[Len(h)], m, C), q[1].type # "New", m.id = q[1].id,
           m.type \in {"Canceled", "CancelReject", "Replaced"},
           m.type # "Canceled" /\ m.id \in DOMAIN h[Len(h)] => q[1].type = "Replace",
           m.type = "Replaced" /\ m.id \in DOMAIN h[Len(h)] =>
              C[m.id].px = q[1].px /\ C[m.id].cum + C[m.id].leaves = q[1].qty
    PROVE  Chan(R, q1, p1, h1)
<1>1. /\ Len(q) \in Nat /\ Len(p) \in Nat /\ Len(h) = Len(p) + 1
      /\ Len(p1) = Len(h) /\ Len(h1) = Len(h) + 1
      /\ \A k \in 1..Len(p) : k \in 1..Len(p1) /\ p1[k] = p[k] /\ k < Len(h)
                               /\ h1[k] = h[k] /\ h1[k + 1] = h[k + 1]
      /\ \A k \in 1..Len(h) : k \in 1..Len(h1) /\ h1[k] = h[k]
      /\ p1[Len(h)] = m /\ h1[Len(h) + 1] = C /\ h1[Len(h)] = h[Len(h)]
      /\ \A k \in 1..Len(p1) : k # Len(h) => k \in 1..Len(p)
      /\ \A k \in 1..Len(p1) : \A j \in 1..(k - 1) : j \in 1..Len(p) /\ j \in 1..Len(h)
      /\ \A k \in 1..Len(h1) : k # Len(h) + 1 => k \in 1..Len(h)
      /\ 1 \in 1..Len(h) /\ Len(h) \in 1..Len(h) /\ Len(h) \in 1..Len(p1)
      /\ h1[1] = h[1]
  BY ONLY Chan(R, q, p, h), Pushed(p, p1, m), Pushed(h, h1, C), PushIndex
<1>s. /\ \A k \in 1..Len(p1) : Step(h1[k], p1[k], h1[k + 1])
      /\ Entered(p1, h1)
  BY PushBooks
<1>c. DOMAIN C \subseteq DOMAIN h[Len(h)]
  BY PushBooks
<1>2. 1 \in 1..Len(q) /\ Len(q1) \in Nat
  BY <1>1, PopIndex
<1>3. ASSUME NEW k \in 1..Len(h1)
      PROVE  h1[k] \in Books /\ \A x \in DOMAIN h1[k] : \E r \in R : r.id = x
  <2>1. CASE k = Len(h) + 1
    BY <1>1, <1>c, <2>1 DEF Chan
  <2>2. CASE k # Len(h) + 1
    BY <1>1, <2>2 DEF Chan
  <2> QED BY <2>1, <2>2
<1>4. ASSUME NEW j \in 1..Len(q1), q1[j].type = "New"
      PROVE  /\ \E r \in R : r.id = q1[j].id
             /\ \A i \in 1..(j - 1) : q1[i].id # q1[j].id
             /\ \A k \in 1..Len(p1) : p1[k].id # q1[j].id
             /\ \A k \in 1..Len(h1) : q1[j].id \notin DOMAIN h1[k]
  <2>1. /\ \E r \in R : r.id = q1[j].id
        /\ \A i \in 1..(j - 1) : q1[i].id # q1[j].id
        /\ \A k \in 1..Len(p) : p[k].id # q1[j].id
        /\ \A k \in 1..Len(h) : q1[j].id \notin DOMAIN h[k]
        /\ q1[j].id # m.id
    BY <1>4, PopRequest
  <2>2. ASSUME NEW k \in 1..Len(p1) PROVE p1[k].id # q1[j].id
    BY <1>1, <2>1
  <2>3. q1[j].id \notin DOMAIN C
    BY <1>1, <1>c, <2>1
  <2>4. ASSUME NEW k \in 1..Len(h1) PROVE q1[j].id \notin DOMAIN h1[k]
    BY <1>1, <2>1, <2>3
  <2> QED BY <2>1, <2>2, <2>4
<1>5. Fresh(q1, p1, h1)
  <2>1. ASSUME NEW k \in 1..Len(p1), p1[k].type \in {"Ack", "Reject"}, NEW j \in 1..(k - 1)
        PROVE  p1[j].id # p1[k].id /\ p1[k].id \notin DOMAIN h1[j]
    <3>1. k # Len(h)
      BY <1>1, <2>1
    <3>2. /\ k \in 1..Len(p) /\ j \in 1..Len(p) /\ j \in 1..Len(h)
          /\ p1[k] = p[k] /\ p1[j] = p[j] /\ h1[j] = h[j]
      BY <1>1, <3>1
    <3> QED BY <2>1, <3>2 DEF Chan, Fresh
  <2> QED BY <1>4, <2>1 DEF Fresh
<1>6. ASSUME NEW r \in R PROVE Known(r, q1, p1, h1)
  <2>1. Known(r, q1, p, h)
    BY PopRequest
  <2> QED BY <1>1, <2>1 DEF Known
<1>7. ASSUME NEW r \in R PROVE Amends(r, q1, p1, h1)
  <2>1. Amends(r, q, p, h)
    BY DEF Chan
  <2>2. \A k \in 1..Len(p) : Reply(r.id, p1, h1, k) <=> Reply(r.id, p, h, k)
    BY <1>1 DEF Reply
  <2>3. ASSUME NEW j \in 1..Len(q1), Amend(r.id, q1, j)
        PROVE  Amend(r.id, q, j + 1) /\ j + 1 \in 1..Len(q) /\ q1[j] = q[j + 1] /\ j + 1 # 1
    BY <1>1, <2>3, PopRequest, PopIndex
  <2>4. ASSUME Reply(r.id, p1, h1, Len(h))
        PROVE  /\ Amend(r.id, q, 1) /\ m.id = r.id /\ r.id \in DOMAIN h[Len(h)]
               /\ m.type \in {"Replaced", "CancelReject"}
    BY <1>1, <2>4 DEF Reply, Amend
  <2>5. ASSUME NEW k \in 1..Len(p1), Reply(r.id, p1, h1, k)
        PROVE  /\ "replace" \in r.pending
               /\ p1[k].type = "Replaced" =>
                     /\ h1[k + 1][r.id].px = r.newPx
                     /\ h1[k + 1][r.id].cum + h1[k + 1][r.id].leaves = r.newQty
               /\ \A l \in 1..Len(p1) : Reply(r.id, p1, h1, l) => l = k
               /\ \A j \in 1..Len(q1) : ~Amend(r.id, q1, j)
    <3>1. CASE k = Len(h)
      <4>1. Amend(r.id, q, 1) /\ m.id = r.id /\ r.id \in DOMAIN h[Len(h)]
        BY <2>4, <2>5, <3>1
      <4>2. "replace" \in r.pending /\ q[1].px = r.newPx /\ q[1].qty = r.newQty
        BY <1>2, <2>1, <4>1 DEF Amends
      <4>3. \A l \in 1..Len(p) : ~Reply(r.id, p, h, l)
        BY <1>2, <2>1, <4>1 DEF Amends
      <4>4. \A l \in 1..Len(p1) : Reply(r.id, p1, h1, l) => l = k
        BY <1>1, <2>2, <3>1, <4>3
      <4>5. \A j \in 1..Len(q1) : ~Amend(r.id, q1, j)
        <5> SUFFICES ASSUME NEW j \in 1..Len(q1), Amend(r.id, q1, j) PROVE FALSE
          OBVIOUS
        <5>1. Amend(r.id, q, j + 1) /\ j + 1 \in 1..Len(q) /\ j + 1 # 1
          BY <2>3
        <5> QED BY <1>2, <2>1, <4>1, <5>1 DEF Amends
      <4>6. p1[k].type = "Replaced" =>
                     /\ h1[k + 1][r.id].px = r.newPx
                     /\ h1[k + 1][r.id].cum + h1[k + 1][r.id].leaves = r.newQty
        BY <1>1, <3>1, <4>1, <4>2
      <4> QED BY <4>2, <4>4, <4>5, <4>6
    <3>2. CASE k # Len(h)
      <4>1. k \in 1..Len(p) /\ Reply(r.id, p, h, k) /\ p1[k] = p[k] /\ h1[k + 1] = h[k + 1]
        BY <1>1, <2>2, <2>5, <3>2
      <4>2. /\ "replace" \in r.pending
            /\ p[k].type = "Replaced" =>
                  /\ h[k + 1][r.id].px = r.newPx
                  /\ h[k + 1][r.id].cum + h[k + 1][r.id].leaves = r.newQty
            /\ \A l \in 1..Len(p) : Reply(r.id, p, h, l) => l = k
            /\ \A j \in 1..Len(q) : ~Amend(r.id, q, j)
        BY <2>1, <4>1 DEF Amends
      <4>3. ~Reply(r.id, p1, h1, Len(h))
        BY <1>2, <2>4, <4>2
      <4>4. \A l \in 1..Len(p1) : Reply(r.id, p1, h1, l) => l = k
        BY <1>1, <2>2, <4>2, <4>3
      <4>5. \A j \in 1..Len(q1) : ~Amend(r.id, q1, j)
        BY <2>3, <4>2
      <4> QED BY <4>1, <4>2, <4>4, <4>5
    <3> QED BY <3>1, <3>2
  <2>6. ASSUME NEW j \in 1..Len(q1), Amend(r.id, q1, j)
        PROVE  /\ "replace" \in r.pending /\ q1[j].px = r.newPx /\ q1[j].qty = r.newQty
               /\ \A i \in 1..Len(q1) : Amend(r.id, q1, i) => i = j
    <3>1. Amend(r.id, q, j + 1) /\ j + 1 \in 1..Len(q) /\ q1[j] = q[j + 1]
      BY <2>3, <2>6
    <3>2. ASSUME NEW i \in 1..Len(q1), Amend(r.id, q1, i) PROVE i = j
      <4>1. Amend(r.id, q, i + 1) /\ i + 1 \in 1..Len(q)
        BY <2>3, <3>2
      <4>2. i + 1 = j + 1
        BY <2>1, <3>1, <4>1 DEF Amends
      <4> QED BY <1>2, <4>2
    <3> QED BY <2>1, <3>1, <3>2 DEF Amends
  <2> QED BY <2>5, <2>6 DEF Amends
<1> QED BY <1>1, <1>2, <1>s, <1>3, <1>4, <1>5, <1>6, <1>7 DEF Chan

-----------------------------------------------------------------------------
(* poll_reports: the table takes the report at the front.                  *)

\* What a report at the front leaves of the channel, whatever it does to its row.
LEMMA PopBooks ==
    ASSUME NEW R, NEW q, NEW p, NEW h, Chan(R, q, p, h),
           NEW p1, Popped(p, p1), NEW h1, Popped(h, h1)
    PROVE  /\ Len(q) \in Nat /\ Len(p1) \in Nat /\ Len(h1) = Len(p1) + 1
           /\ \A k \in 1..Len(h1) : h1[k] \in Books /\ \A x \in DOMAIN h1[k] : \E r \in R : r.id = x
           /\ \A k \in 1..Len(p1) : Step(h1[k], p1[k], h1[k + 1])
           /\ Fresh(q, p1, h1)
           /\ Entered(p1, h1)
<1>1. /\ Len(q) \in Nat /\ Len(p) \in Nat /\ Len(h) = Len(p) + 1 /\ Len(h) \in Nat
      /\ Len(h1) = Len(p1) + 1
  BY DEF Chan, Popped
<1>2. /\ 1 \in 1..Len(p) /\ Len(p1) = Len(p) - 1 /\ Len(p1) \in Nat
      /\ \A j \in 1..Len(p1) : p1[j] = p[j + 1] /\ j + 1 \in 1..Len(p) /\ j + 1 # 1
      /\ \A j \in 1..Len(p1) : \A i \in 1..(j - 1) :
            i \in 1..Len(p1) /\ p1[i] = p[i + 1] /\ i + 1 \in 1..((j + 1) - 1)
  BY <1>1, PopIndex
<1>3. \A j \in 1..Len(h1) : h1[j] = h[j + 1] /\ j + 1 \in 1..Len(h)
  BY <1>1 DEF Popped
<1>4. \A k \in 1..Len(h1) : h1[k] \in Books /\ \A x \in DOMAIN h1[k] : \E r \in R : r.id = x
  BY <1>3 DEF Chan
<1>5. ASSUME NEW k \in 1..Len(p1) PROVE Step(h1[k], p1[k], h1[k + 1])
  <2>1. k \in 1..Len(h1) /\ k + 1 \in 1..Len(h1)
    BY <1>1, <1>2
  <2>2. p1[k] = p[k + 1] /\ h1[k] = h[k + 1] /\ h1[k + 1] = h[(k + 1) + 1] /\ k + 1 \in 1..Len(p)
    BY <1>2, <1>3, <2>1
  <2> QED BY <2>2 DEF Chan
<1>6. Fresh(q, p1, h1)
  <2>0. Fresh(q, p, h)
    BY DEF Chan
  <2>1. ASSUME NEW k \in 1..Len(p1), p1[k].type \in {"Ack", "Reject"}, NEW j \in 1..(k - 1)
        PROVE  p1[j].id # p1[k].id /\ p1[k].id \notin DOMAIN h1[j]
    <3>1. /\ p1[k] = p[k + 1] /\ k + 1 \in 1..Len(p)
          /\ p1[j] = p[j + 1] /\ j + 1 \in 1..((k + 1) - 1) /\ j \in 1..Len(p1)
      BY <1>2
    <3>2. h1[j] = h[j + 1]
      BY <1>1, <1>2, <1>3, <3>1
    <3> QED BY <2>0, <2>1, <3>1, <3>2 DEF Fresh
  <2>2. ASSUME NEW j \in 1..Len(q), q[j].type = "New"
        PROVE  /\ \A i \in 1..(j - 1) : q[i].id # q[j].id
               /\ \A k \in 1..Len(p1) : p1[k].id # q[j].id
               /\ \A k \in 1..Len(h1) : q[j].id \notin DOMAIN h1[k]
    <3>1. /\ \A i \in 1..(j - 1) : q[i].id # q[j].id
          /\ \A k \in 1..Len(p) : p[k].id # q[j].id
          /\ \A k \in 1..Len(h) : q[j].id \notin DOMAIN h[k]
      BY <2>0, <2>2 DEF Fresh
    <3>2. \A k \in 1..Len(p1) : p1[k].id # q[j].id
      BY <1>2, <3>1
    <3>3. \A k \in 1..Len(h1) : q[j].id \notin DOMAIN h1[k]
      BY <1>3, <3>1
    <3> QED BY <3>1, <3>2, <3>3
  <2> QED BY <2>1, <2>2 DEF Fresh
<1>7. Entered(p1, h1)
  <2> SUFFICES ASSUME NEW k \in 1..Len(h1), NEW l \in 1..Len(h1), NEW x \in DOMAIN h1[l],
                      k < l, x \notin DOMAIN h1[k]
               PROVE  \E j \in k..(l - 1) : p1[j].type = "Ack" /\ p1[j].id = x
    BY DEF Entered
  <2>1. /\ k + 1 \in 1..Len(h) /\ l + 1 \in 1..Len(h) /\ k + 1 < l + 1
        /\ h1[k] = h[k + 1] /\ h1[l] = h[l + 1]
    BY <1>3
  <2>2. PICK i \in (k + 1)..((l + 1) - 1) : p[i].type = "Ack" /\ p[i].id = x
    <3>1. Entered(p, h)
      BY DEF Chan
    <3>2. \A u, v \in 1..Len(h) : \A y \in DOMAIN h[v] : u < v /\ y \notin DOMAIN h[u] =>
             \E i \in u..(v - 1) : p[i].type = "Ack" /\ p[i].id = y
      BY <3>1 DEF Entered
    <3>3. x \in DOMAIN h[l + 1] /\ x \notin DOMAIN h[k + 1]
      BY <2>1
    <3> QED BY <2>1, <3>2, <3>3
  <2>3. i \in Int /\ (i - 1) \in k..(l - 1) /\ (i - 1) \in 1..Len(p1) /\ (i - 1) + 1 = i
    BY <1>1, <1>2
  <2>4. p1[i - 1] = p[i]
    BY <1>2, <2>3
  <2> QED BY <2>2, <2>3, <2>4
<1> QED BY <1>1, <1>2, <1>4, <1>5, <1>6, <1>7

\* What a report at the front leaves of the rows.
LEMMA PopRows ==
    ASSUME NEW R, NEW q, NEW p, NEW h, Chan(R, q, p, h),
           NEW p1, Popped(p, p1), NEW h1, Popped(h, h1)
    PROVE  /\ \A r \in R : r.id # p[1].id => Known(r, q, p1, h1)
           /\ \A r \in R : Amends(r, q, p1, h1)
           /\ \A r \in R : Reply(r.id, p, h, 1) =>
                 /\ \A k \in 1..Len(p1) : ~Reply(r.id, p1, h1, k)
                 /\ \A j \in 1..Len(q) : ~Amend(r.id, q, j)
<1>1. /\ Len(q) \in Nat /\ Len(p) \in Nat /\ Len(h) = Len(p) + 1 /\ Len(h) \in Nat
      /\ Len(h1) = Len(p1) + 1
  BY DEF Chan, Popped
<1>2. /\ 1 \in 1..Len(p) /\ Len(p1) = Len(p) - 1 /\ Len(p1) \in Nat
      /\ \A j \in 1..Len(p1) : p1[j] = p[j + 1] /\ j + 1 \in 1..Len(p) /\ j + 1 # 1
      /\ \A j \in 1..Len(p) : j # 1 => (j - 1) \in 1..Len(p1) /\ p1[j - 1] = p[j]
  BY <1>1, PopIndex
<1>3. \A j \in 1..Len(h1) : h1[j] = h[j + 1] /\ j + 1 \in 1..Len(h)
  BY <1>1 DEF Popped
<1>4. \A k \in 1..Len(p1) : h1[k] = h[k + 1] /\ h1[k + 1] = h[(k + 1) + 1]
  BY <1>1, <1>2, <1>3
<1>5. h1[1] = h[2] /\ Step(h[1], p[1], h[2])
  <2>1. 1 \in 1..Len(h1) /\ 1 + 1 = 2
    BY <1>1, <1>2
  <2>2. Step(h[1], p[1], h[1 + 1])
    BY <1>2 DEF Chan
  <2> QED BY <1>3, <2>1, <2>2
<1>6. ASSUME NEW r \in R, r.id # p[1].id PROVE Known(r, q, p1, h1)
  <2>0. Known(r, q, p, h)
    BY DEF Chan
  <2>1. CASE r.id \in DOMAIN h[1]
    <3>1. r.id \in DOMAIN h[2] /\ h[2][r.id] = h[1][r.id]
      BY <1>5, <1>6, <2>1 DEF Step
    <3> QED BY <1>5, <2>0, <2>1, <3>1 DEF Known
  <2>2. CASE r.id \notin DOMAIN h[1]
    <3>1. r.id \notin DOMAIN h1[1]
      BY <1>5, <1>6, <2>2 DEF Step
    <3>2. ASSUME NEW k \in 1..Len(p), p[k].id = r.id, p[k].type \in {"Ack", "Reject"},
                 p[k].type = "Ack" => Agrees(r, h[k + 1][r.id])
          PROVE  \E i \in 1..Len(p1) :
                    /\ p1[i].id = r.id /\ p1[i].type \in {"Ack", "Reject"}
                    /\ p1[i].type = "Ack" => Agrees(r, h1[i + 1][r.id])
      <4>1. k # 1
        BY <1>6, <3>2
      <4>2. (k - 1) \in 1..Len(p1) /\ p1[k - 1] = p[k] /\ ((k - 1) + 1) + 1 = k + 1
        BY <1>2, <4>1
      <4>3. h1[(k - 1) + 1] = h[k + 1]
        BY <1>4, <4>2
      <4> QED BY <3>2, <4>2, <4>3
    <3> QED BY <2>0, <2>2, <3>1, <3>2 DEF Known
  <2> QED BY <2>1, <2>2
<1>7. ASSUME NEW r \in R
      PROVE  /\ Amends(r, q, p1, h1)
             /\ Reply(r.id, p, h, 1) => /\ \A k \in 1..Len(p1) : ~Reply(r.id, p1, h1, k)
                                        /\ \A j \in 1..Len(q) : ~Amend(r.id, q, j)
  <2>0. Amends(r, q, p, h)
    BY DEF Chan
  <2>1. \A k \in 1..Len(p1) : Reply(r.id, p1, h1, k) => Reply(r.id, p, h, k + 1)
    BY <1>2, <1>4 DEF Reply
  <2>2. ASSUME NEW k \in 1..Len(p1), Reply(r.id, p1, h1, k)
        PROVE  /\ "replace" \in r.pending
               /\ p1[k].type = "Replaced" =>
                     /\ h1[k + 1][r.id].px = r.newPx
                     /\ h1[k + 1][r.id].cum + h1[k + 1][r.id].leaves = r.newQty
               /\ \A l \in 1..Len(p1) : Reply(r.id, p1, h1, l) => l = k
               /\ \A j \in 1..Len(q) : ~Amend(r.id, q, j)
    <3>1. Reply(r.id, p, h, k + 1) /\ k + 1 \in 1..Len(p) /\ p1[k] = p[k + 1]
      BY <1>2, <2>1, <2>2
    <3>2. /\ "replace" \in r.pending
          /\ p[k + 1].type = "Replaced" =>
                /\ h[(k + 1) + 1][r.id].px = r.newPx
                /\ h[(k + 1) + 1][r.id].cum + h[(k + 1) + 1][r.id].leaves = r.newQty
          /\ \A l \in 1..Len(p) : Reply(r.id, p, h, l) => l = k + 1
          /\ \A j \in 1..Len(q) : ~Amend(r.id, q, j)
      BY <2>0, <3>1 DEF Amends
    <3>3. ASSUME NEW l \in 1..Len(p1), Reply(r.id, p1, h1, l) PROVE l = k
      <4>1. l + 1 = k + 1
        BY <1>2, <2>1, <3>2, <3>3
      <4> QED BY <1>2, <4>1
    <3>4. h1[k + 1] = h[(k + 1) + 1]
      BY <1>4
    <3> QED BY <3>1, <3>2, <3>3, <3>4
  <2>3. Amends(r, q, p1, h1)
    BY <2>0, <2>2 DEF Amends
  <2>4. ASSUME Reply(r.id, p, h, 1)
        PROVE  /\ \A k \in 1..Len(p1) : ~Reply(r.id, p1, h1, k)
               /\ \A j \in 1..Len(q) : ~Amend(r.id, q, j)
    <3>1. /\ \A l \in 1..Len(p) : Reply(r.id, p, h, l) => l = 1
          /\ \A j \in 1..Len(q) : ~Amend(r.id, q, j)
      BY <1>2, <2>0, <2>4 DEF Amends
    <3>2. ASSUME NEW k \in 1..Len(p1), Reply(r.id, p1, h1, k) PROVE FALSE
      BY <1>2, <2>1, <3>1, <3>2
    <3> QED BY <3>1, <3>2
  <2> QED BY <2>3, <2>4
<1> QED BY <1>6, <1>7

\* What the report at the front can be, seen from the row it is about.
LEMMA HeadFacts ==
    ASSUME NEW R, NEW q, NEW p, NEW h, Chan(R, q, p, h), Len(p) > 0, NEW r \in R, r.id = p[1].id
    PROVE  /\ Step(h[1], p[1], h[2])
           /\ p[1].type = "Ack" => r.id \in DOMAIN h[2] /\ Agrees(r, h[2][r.id])
           /\ p[1].type \notin {"Ack", "Reject"} => r.id \in DOMAIN h[1] /\ Agrees(r, h[1][r.id])
           /\ p[1].type \in {"Replaced", "CancelReject"} => Reply(r.id, p, h, 1)
           /\ p[1].type = "Fill" => p[1].qty \in 1..r.leaves
           /\ p[1].type = "Replaced" =>
                 /\ "replace" \in r.pending
                 /\ h[2][r.id].px = r.newPx
                 /\ h[2][r.id].cum + h[2][r.id].leaves = r.newQty
<1>1. /\ Len(q) \in Nat /\ Len(p) \in Nat /\ Len(h) = Len(p) + 1
      /\ 1 \in 1..Len(p) /\ 1 \in 1..Len(h)
      /\ \A k \in 1..Len(p) : k # 1 => 1 \in 1..(k - 1)
  BY DEF Chan
<1>2. Step(h[1], p[1], h[2])
  <2>1. Step(h[1], p[1], h[1 + 1]) /\ 1 + 1 = 2
    BY <1>1 DEF Chan
  <2> QED BY <2>1
<1>3. Fresh(q, p, h) /\ Known(r, q, p, h) /\ Amends(r, q, p, h)
  BY DEF Chan
<1>4. \A j \in 1..Len(q) : q[j].type = "New" => q[j].id # r.id
  BY <1>1, <1>3 DEF Fresh
<1>5. \A k \in 1..Len(p) : p[k].id = r.id /\ p[k].type \in {"Ack", "Reject"} => k = 1
  BY <1>1, <1>3 DEF Fresh
<1>6. p[1].type = "Ack" => r.id \in DOMAIN h[2] /\ Agrees(r, h[2][r.id])
  <2> SUFFICES ASSUME p[1].type = "Ack" PROVE r.id \in DOMAIN h[2] /\ Agrees(r, h[2][r.id])
    OBVIOUS
  <2>1. r.id \notin DOMAIN h[1] /\ r.id \in DOMAIN h[2]
    BY <1>2 DEF Step
  <2>2. PICK k \in 1..Len(p) : /\ p[k].id = r.id /\ p[k].type \in {"Ack", "Reject"}
                               /\ p[k].type = "Ack" => Agrees(r, h[k + 1][r.id])
    BY <1>3, <1>4, <2>1 DEF Known
  <2>3. k = 1 /\ k + 1 = 2
    BY <1>5, <2>2
  <2> QED BY <2>1, <2>2, <2>3
<1>7. p[1].type \notin {"Ack", "Reject"} => r.id \in DOMAIN h[1] /\ Agrees(r, h[1][r.id])
  BY <1>3, <1>4, <1>5 DEF Known
<1>8. p[1].type \in {"Replaced", "CancelReject"} => Reply(r.id, p, h, 1)
  BY <1>7 DEF Reply
<1>9. p[1].type = "Fill" => p[1].qty \in 1..r.leaves
  <2> SUFFICES ASSUME p[1].type = "Fill" PROVE p[1].qty \in 1..r.leaves
    OBVIOUS
  <2>1. p[1].qty \in 1..h[1][r.id].leaves
    BY <1>2 DEF Step
  <2> QED BY <1>7, <2>1 DEF Agrees
<1>10. p[1].type = "Replaced" => /\ "replace" \in r.pending
                                /\ h[2][r.id].px = r.newPx
                                /\ h[2][r.id].cum + h[2][r.id].leaves = r.newQty
  <2> SUFFICES ASSUME p[1].type = "Replaced"
               PROVE  /\ "replace" \in r.pending
                      /\ h[1 + 1][r.id].px = r.newPx
                      /\ h[1 + 1][r.id].cum + h[1 + 1][r.id].leaves = r.newQty
    BY 1 + 1 = 2
  <2> QED BY <1>1, <1>3, <1>8 DEF Amends
<1> QED BY <1>2, <1>6, <1>7, <1>8, <1>9, <1>10

\* The report at the front ends its order, and nothing is said of it again.
LEMMA PopGone ==
    ASSUME NEW R, NEW q, NEW p, NEW h, Chan(R, q, p, h),
           NEW p1, Popped(p, p1), NEW h1, Popped(h, h1),
           p[1].id \notin DOMAIN h[2], NEW T \in SUBSET R,
           \A r \in T : r.id # p[1].id, \A r \in R \ T : r.id = p[1].id
    PROVE  Chan(T, q, p1, h1)
<1>1. /\ Len(q) \in Nat /\ Len(p1) \in Nat /\ Len(h1) = Len(p1) + 1
      /\ \A k \in 1..Len(h1) : h1[k] \in Books /\ \A x \in DOMAIN h1[k] : \E r \in R : r.id = x
      /\ \A k \in 1..Len(p1) : Step(h1[k], p1[k], h1[k + 1])
      /\ Fresh(q, p1, h1)
      /\ Entered(p1, h1)
  BY PopBooks
<1>2. \A r \in T : Known(r, q, p1, h1) /\ Amends(r, q, p1, h1)
  BY PopRows
<1>3. /\ 1 \in 1..Len(p) /\ h1[1] = h[2]
      /\ \A k \in 1..Len(p1) : p1[k] = p[k + 1] /\ k + 1 \in 1..Len(p) /\ 1 \in 1..((k + 1) - 1)
  BY <1>1 DEF Popped, Chan
<1>4. \A k \in 1..Len(p1) : p1[k].type = "Ack" => p1[k].id # p[1].id
  BY <1>3 DEF Chan, Fresh
<1>5. ASSUME NEW l \in 1..Len(h1) PROVE p[1].id \notin DOMAIN h1[l]
  <2> SUFFICES ASSUME p[1].id \in DOMAIN h1[l] PROVE FALSE
    OBVIOUS
  <2>1. 1 \in 1..Len(h1) /\ 1 < l
    BY <1>1, <1>3
  <2>2. PICK j \in 1..(l - 1) : p1[j].type = "Ack" /\ p1[j].id = p[1].id
    BY <1>1, <1>3, <2>1 DEF Entered
  <2>3. j \in 1..Len(p1)
    BY <1>1
  <2> QED BY <1>4, <2>2, <2>3
<1>6. \A j \in 1..Len(q) : q[j].type = "New" => q[j].id # p[1].id /\ \E r \in R : r.id = q[j].id
  BY <1>3 DEF Chan, Fresh
<1>7. \A x : x # p[1].id /\ (\E r \in R : r.id = x) => \E r \in T : r.id = x
  OBVIOUS
<1>8. \A k \in 1..Len(h1) : h1[k] \in Books /\ \A x \in DOMAIN h1[k] : \E r \in T : r.id = x
  BY <1>1, <1>5, <1>7
<1>9. \A j \in 1..Len(q) : q[j].type = "New" => \E r \in T : r.id = q[j].id
  BY <1>6, <1>7
<1> QED BY <1>1, <1>2, <1>8, <1>9 DEF Chan

\* The report at the front changes its row, if there is one.
LEMMA PopKept ==
    ASSUME NEW R, NEW q, NEW p, NEW h, Chan(R, q, p, h),
           NEW p1, Popped(p, p1), NEW h1, Popped(h, h1), NEW T,
           \A r \in R : \E s \in T : s.id = r.id,
           \A s \in T : (s \in R /\ s.id # p[1].id) \/ (Known(s, q, p1, h1) /\ Amends(s, q, p1, h1))
    PROVE  Chan(T, q, p1, h1)
<1>1. /\ Len(q) \in Nat /\ Len(p1) \in Nat /\ Len(h1) = Len(p1) + 1
      /\ \A k \in 1..Len(h1) : h1[k] \in Books /\ \A x \in DOMAIN h1[k] : \E r \in R : r.id = x
      /\ \A k \in 1..Len(p1) : Step(h1[k], p1[k], h1[k + 1])
      /\ Fresh(q, p1, h1)
      /\ Entered(p1, h1)
  BY PopBooks
<1>2. \A s \in T : Known(s, q, p1, h1) /\ Amends(s, q, p1, h1)
  BY PopRows
<1>3. \A j \in 1..Len(q) : q[j].type = "New" => \E r \in R : r.id = q[j].id
  BY DEF Chan
<1>4. \A k \in 1..Len(h1) : h1[k] \in Books /\ \A x \in DOMAIN h1[k] : \E r \in T : r.id = x
  BY <1>1
<1>5. \A j \in 1..Len(q) : q[j].type = "New" => \E r \in T : r.id = q[j].id
  BY <1>3
<1> QED BY <1>1, <1>2, <1>4, <1>5 DEF Chan

-----------------------------------------------------------------------------
(* The order table's dense array, and the sums kept beside it.             *)

LEMMA SeqPushed ==
    ASSUME NEW S, NEW s \in Seq(S), NEW x \in S
    PROVE  /\ Append(s, x) \in Seq(S) /\ Pushed(s, Append(s, x), x)
           /\ Len(s) \in Nat /\ Len(Append(s, x)) = Len(s) + 1
BY AppendProperties, LenProperties DEF Pushed

LEMMA SeqPopped ==
    ASSUME NEW S, NEW s \in Seq(S), s # <<>>
    PROVE  /\ Tail(s) \in Seq(S) /\ Popped(s, Tail(s)) /\ Head(s) = s[1] /\ s[1] \in S
           /\ Len(s) \in Nat /\ Len(s) > 0 /\ Len(Tail(s)) = Len(s) - 1
<1>1. Len(s) \in Nat /\ Len(s) > 0
  BY EmptySeq, LenProperties
<1>2. Head(s) = s[1] /\ s[1] \in S
  BY <1>1, HeadTailProperties, ElementOfSeq
<1> QED BY <1>1, <1>2, HeadTailProperties DEF Popped

Distinct(rs) == \A i, j \in DOMAIN rs : rs[i].id = rs[j].id => i = j

\* t is rs with s in place i.
Updated(rs, t, i, s) ==
    /\ t \in Seq(Row) /\ Len(t) = Len(rs) /\ i \in 1..Len(rs) /\ t[i] = s
    /\ \A k \in 1..Len(rs) : k # i => t[k] = rs[k]

LEMMA UpdateRow ==
    ASSUME NEW rs \in Seq(Row), NEW i \in 1..Len(rs), NEW s \in Row
    PROVE  Updated(rs, [rs EXCEPT ![i] = s], i, s)
BY ExceptSeq DEF Updated

LEMMA UpdatedRows ==
    ASSUME NEW rs \in Seq(Row), Distinct(rs), NEW t, NEW i, NEW s, Updated(rs, t, i, s),
           s.id = rs[i].id
    PROVE  Distinct(t) /\ RowSet(t) = (RowSet(rs) \ {rs[i]}) \cup {s}
<1>1. DOMAIN rs = 1..Len(rs) /\ DOMAIN t = 1..Len(rs) /\ i \in 1..Len(rs)
  BY LenProperties DEF Updated
<1>2. t[i] = s /\ \A k \in 1..Len(rs) : k # i => t[k] = rs[k]
  BY DEF Updated
<1>3. \A k \in 1..Len(rs) : t[k].id = rs[k].id
  BY <1>2
<1>4. Distinct(t)
  BY <1>1, <1>3 DEF Distinct
<1>5. \A k \in 1..Len(rs) : rs[k] = rs[i] => k = i
  BY <1>1 DEF Distinct
<1>6. ASSUME NEW x \in RowSet(t) PROVE x \in (RowSet(rs) \ {rs[i]}) \cup {s}
  <2>1. PICK k \in 1..Len(rs) : x = t[k]
    BY <1>1, <1>6 DEF RowSet
  <2> QED BY <1>1, <1>2, <1>5, <2>1 DEF RowSet
<1>7. ASSUME NEW x \in (RowSet(rs) \ {rs[i]}) \cup {s} PROVE x \in RowSet(t)
  <2>1. CASE x = s
    BY <1>1, <1>2, <2>1 DEF RowSet
  <2>2. CASE x # s
    <3>1. PICK k \in 1..Len(rs) : x = rs[k] /\ k # i
      BY <1>1, <1>7, <2>2 DEF RowSet
    <3> QED BY <1>1, <1>2, <3>1 DEF RowSet
  <2> QED BY <2>1, <2>2
<1> QED BY <1>4, <1>6, <1>7

LEMMA AppendedRows ==
    ASSUME NEW rs \in Seq(Row), Distinct(rs), NEW s \in Row,
           \A i \in 1..Len(rs) : rs[i].id # s.id
    PROVE  /\ Append(rs, s) \in Seq(Row) /\ Len(Append(rs, s)) = Len(rs) + 1
           /\ Distinct(Append(rs, s)) /\ RowSet(Append(rs, s)) = RowSet(rs) \cup {s}
<1> DEFINE t == Append(rs, s)
<1>1. /\ t \in Seq(Row) /\ Len(t) = Len(rs) + 1 /\ t[Len(rs) + 1] = s
      /\ \A k \in 1..Len(rs) : t[k] = rs[k]
  BY AppendProperties
<1>2. DOMAIN rs = 1..Len(rs) /\ DOMAIN t = 1..Len(t) /\ Len(rs) \in Nat
  BY <1>1, LenProperties
<1> HIDE DEF t
<1>3. DOMAIN t = 1..(Len(rs) + 1)
  BY <1>1, <1>2
<1>4. \A k \in DOMAIN t : k # Len(rs) + 1 => k \in DOMAIN rs /\ t[k] = rs[k]
  BY <1>1, <1>2, <1>3
<1>5. Distinct(t)
  BY <1>1, <1>2, <1>3, <1>4 DEF Distinct
<1>6. Len(rs) + 1 \in DOMAIN t /\ \A k \in DOMAIN rs : k \in DOMAIN t /\ t[k] = rs[k]
  BY <1>1, <1>2, <1>3
<1>7. RowSet(t) = RowSet(rs) \cup {s}
  BY <1>1, <1>4, <1>6 DEF RowSet
<1> QED BY <1>1, <1>5, <1>7 DEF t

LEMMA RemovedRows ==
    ASSUME NEW rs \in Seq(Row), Distinct(rs), NEW i \in 1..Len(rs)
    PROVE  /\ SwapRemove(rs, i) \in Seq(Row) /\ Len(SwapRemove(rs, i)) = Len(rs) - 1
           /\ Distinct(SwapRemove(rs, i))
           /\ RowSet(SwapRemove(rs, i)) = RowSet(rs) \ {rs[i]}
<1> DEFINE t == SwapRemove(rs, i)
           n == Len(rs)
<1>1. DOMAIN rs = 1..n /\ n \in Nat /\ n # 0 /\ n \in 1..n /\ \A k \in 1..n : rs[k] \in Row
  BY LenProperties, ElementOfSeq
<1>i. 1..(n - 1) = (1..n) \ {n}
  BY <1>1
<1>2. t = [k \in 1..(n - 1) |-> IF k = i THEN rs[n] ELSE rs[k]]
  BY DEF SwapRemove
<1>3. t \in [1..(n - 1) -> Row] /\ n - 1 \in Nat
  BY <1>1, <1>2
<1>4. t \in Seq(Row) /\ Len(t) = n - 1 /\ DOMAIN t = 1..(n - 1)
  BY <1>2, <1>3
<1>5. \A k \in 1..(n - 1) : t[k] = IF k = i THEN rs[n] ELSE rs[k]
  BY <1>2
<1> HIDE DEF t
<1> DEFINE from(k) == IF k = i THEN n ELSE k
<1>6. /\ \A k \in 1..(n - 1) : from(k) \in 1..n /\ from(k) # i /\ t[k] = rs[from(k)]
      /\ \A a, b \in 1..(n - 1) : from(a) = from(b) => a = b
  <2>1. \A k \in 1..(n - 1) : k \in 1..n /\ k # n
    BY <1>i
  <2> QED BY <1>1, <1>5, <2>1
<1> HIDE DEF from
<1>7. ASSUME NEW a \in 1..(n - 1), NEW b \in 1..(n - 1), t[a].id = t[b].id PROVE a = b
  <2>1. from(a) = from(b)
    BY <1>1, <1>6, <1>7 DEF Distinct
  <2> QED BY <1>6, <2>1
<1>8. Distinct(t)
  BY <1>4, <1>7 DEF Distinct
<1>9. ASSUME NEW x \in RowSet(t) PROVE x \in RowSet(rs) \ {rs[i]}
  <2>1. PICK k \in 1..(n - 1) : x = t[k]
    BY <1>4, <1>9 DEF RowSet
  <2>2. PICK j \in 1..n : j # i /\ x = rs[j]
    BY <1>6, <2>1
  <2>3. x # rs[i]
    BY <1>1, <2>2 DEF Distinct
  <2> QED BY <1>1, <2>2, <2>3 DEF RowSet
<1>10. ASSUME NEW x \in RowSet(rs), x # rs[i] PROVE x \in RowSet(t)
  <2>1. PICK j \in 1..n : x = rs[j] /\ j # i
    BY <1>1, <1>10 DEF RowSet
  <2>2. CASE j = n
    <3>0. i \in 1..(n - 1)
      BY <1>i, <2>1, <2>2
    <3>1. t[i] = rs[j]
      BY <1>5, <2>2, <3>0
    <3> QED BY <1>4, <2>1, <3>0, <3>1 DEF RowSet
  <2>3. CASE j # n
    <3>0. j \in 1..(n - 1)
      BY <1>i, <2>3
    <3>1. t[j] = rs[j]
      BY <1>5, <2>1, <3>0
    <3> QED BY <1>4, <2>1, <3>0, <3>1 DEF RowSet
  <2> QED BY <2>2, <2>3
<1>11. RowSet(t) = RowSet(rs) \ {rs[i]}
  BY <1>9, <1>10
<1> QED BY <1>4, <1>8, <1>11 DEF t

\* The sum over the rows of what g says of each.
SumRows(g, rs) == SumFunctionOnSet([i \in DOMAIN rs |-> g[rs[i]]], DOMAIN rs)

LEMMA SumRowsType ==
    ASSUME NEW rs \in Seq(Row), NEW g \in [Row -> Nat]
    PROVE  SumRows(g, rs) \in Nat
<1>1. DOMAIN rs = 1..Len(rs) /\ Len(rs) \in Nat /\ \A i \in 1..Len(rs) : rs[i] \in Row
  BY LenProperties, ElementOfSeq
<1>2. IsFiniteSet(DOMAIN rs)
  BY <1>1, FS_Interval
<1> DEFINE f == [i \in DOMAIN rs |-> g[rs[i]]]
<1>3. \A i \in DOMAIN rs : f[i] \in Nat
  BY <1>1
<1> HIDE DEF f
<1>4. SumFunctionOnSet(f, DOMAIN rs) \in Nat
  BY <1>2, <1>3, SumNat
<1> QED BY <1>4 DEF SumRows, f

LEMMA SumAppended ==
    ASSUME NEW rs \in Seq(Row), NEW s \in Row, NEW g \in [Row -> Nat]
    PROVE  SumRows(g, Append(rs, s)) = SumRows(g, rs) + g[s]
<1> DEFINE t == Append(rs, s)
           f == [i \in DOMAIN rs |-> g[rs[i]]]
           e == [i \in DOMAIN t |-> g[t[i]]]
           n == Len(rs)
<1>1. /\ t \in Seq(Row) /\ Len(t) = n + 1 /\ t[n + 1] = s
      /\ \A k \in 1..n : t[k] = rs[k]
  BY AppendProperties
<1>2. DOMAIN rs = 1..n /\ DOMAIN t = 1..Len(t) /\ n \in Nat /\ \A i \in 1..n : rs[i] \in Row
  BY <1>1, LenProperties, ElementOfSeq
<1> HIDE DEF t
<1>3. DOMAIN t = 1..(n + 1) /\ 1..(n + 1) = (1..n) \cup {n + 1} /\ n + 1 \notin 1..n
  BY <1>1, <1>2
<1>4. IsFiniteSet(1..n)
  BY <1>2, FS_Interval
<1>5. /\ \A i \in 1..n : e[i] = f[i] /\ f[i] \in Int
      /\ e[n + 1] = g[s] /\ e[n + 1] \in Int
  BY <1>1, <1>2, <1>3
<1> HIDE DEF e, f
<1>6. SumFunctionOnSet(e, (1..n) \cup {n + 1}) = e[n + 1] + SumFunctionOnSet(e, 1..n)
  BY <1>3, <1>4, <1>5, SumAdd
<1>7. SumFunctionOnSet(e, 1..n) = SumFunctionOnSet(f, 1..n) /\ SumFunctionOnSet(f, 1..n) \in Int
  BY <1>4, <1>5, SumSame, SumType
<1>8. SumFunctionOnSet(e, 1..(n + 1)) = SumFunctionOnSet(f, 1..n) + g[s]
  <2>1. SumFunctionOnSet(e, 1..(n + 1)) = g[s] + SumFunctionOnSet(f, 1..n)
    BY <1>3, <1>5, <1>6, <1>7
  <2>2. g[s] \in Int
    OBVIOUS
  <2> QED BY <1>7, <2>1, <2>2
<1> QED BY <1>2, <1>3, <1>8 DEF SumRows, t, e, f

LEMMA SumUpdated ==
    ASSUME NEW rs \in Seq(Row), NEW t, NEW i, NEW s \in Row, Updated(rs, t, i, s),
           NEW g \in [Row -> Nat]
    PROVE  SumRows(g, t) = SumRows(g, rs) + (g[s] - g[rs[i]])
<1> DEFINE f == [k \in DOMAIN rs |-> g[rs[k]]]
           e == [k \in DOMAIN t |-> g[t[k]]]
           n == Len(rs)
<1>1. /\ DOMAIN rs = 1..n /\ DOMAIN t = 1..n /\ n \in Nat /\ i \in 1..n
      /\ \A k \in 1..n : rs[k] \in Row /\ t[k] \in Row
      /\ t[i] = s /\ \A k \in 1..n : k # i => t[k] = rs[k]
  BY LenProperties, ElementOfSeq DEF Updated
<1>2. IsFiniteSet(1..n)
  BY <1>1, FS_Interval
<1>3. /\ \A k \in 1..n : f[k] \in Int /\ e[k] \in Int
      /\ \A k \in (1..n) \ {i} : f[k] = e[k]
      /\ e[i] = g[s] /\ f[i] = g[rs[i]]
  BY <1>1
<1> DEFINE D == 1..n
<1>d. /\ IsFiniteSet(D) /\ i \in D
      /\ \A k \in D : f[k] \in Int /\ e[k] \in Int
      /\ \A k \in D \ {i} : f[k] = e[k]
  BY <1>1, <1>2, <1>3
<1> HIDE DEF e, f, D
<1>4. SumFunctionOnSet(e, D) = SumFunctionOnSet(f, D) + (e[i] - f[i])
  BY <1>d, SumChange
<1>5. DOMAIN rs = D /\ DOMAIN t = D
  BY <1>1 DEF D
<1> QED BY <1>3, <1>4, <1>5 DEF SumRows, e, f

LEMMA SumRemoved ==
    ASSUME NEW rs \in Seq(Row), NEW i \in 1..Len(rs), NEW g \in [Row -> Nat]
    PROVE  SumRows(g, SwapRemove(rs, i)) = SumRows(g, rs) - g[rs[i]]
<1> DEFINE n == Len(rs)
           t == SwapRemove(rs, i)
           f == [k \in DOMAIN rs |-> g[rs[k]]]
           e == [k \in DOMAIN t |-> g[t[k]]]
           mid == [k \in DOMAIN rs |-> IF k = i THEN g[rs[n]] ELSE g[rs[k]]]
<1>1. DOMAIN rs = 1..n /\ n \in Nat /\ n # 0 /\ n \in 1..n /\ \A k \in 1..n : rs[k] \in Row
  BY LenProperties, ElementOfSeq
<1>2. DOMAIN t = 1..(n - 1) /\ \A k \in 1..(n - 1) : t[k] = IF k = i THEN rs[n] ELSE rs[k]
  BY DEF SwapRemove
<1> HIDE DEF t
<1>i. 1..(n - 1) = (1..n) \ {n}
  BY <1>1
<1>f. IsFiniteSet(1..n)
  BY <1>1, FS_Interval
<1>3. /\ IsFiniteSet(1..n) /\ IsFiniteSet(1..(n - 1)) /\ 1..(n - 1) = (1..n) \ {n}
  <2>1. IsFiniteSet((1..n) \ {n})
    BY <1>f, FS_RemoveElement
  <2> QED BY <1>i, <1>f, <2>1
<1>4. /\ \A k \in 1..n : f[k] \in Int /\ mid[k] \in Int
      /\ \A k \in (1..n) \ {i} : f[k] = mid[k]
      /\ mid[i] = g[rs[n]] /\ mid[n] = g[rs[n]] /\ f[i] = g[rs[i]]
  BY <1>1
<1>5. \A k \in 1..(n - 1) : e[k] = mid[k]
  BY <1>1, <1>2, <1>3
<1> DEFINE D == 1..n
           D1 == 1..(n - 1)
<1>d. /\ IsFiniteSet(D) /\ i \in D /\ n \in D
      /\ \A k \in D : f[k] \in Int /\ mid[k] \in Int
      /\ \A k \in D \ {i} : f[k] = mid[k]
  BY <1>1, <1>3, <1>4
<1>e. /\ IsFiniteSet(D1) /\ D1 = D \ {n}
      /\ \A k \in D1 : e[k] = mid[k]
      /\ DOMAIN rs = D /\ DOMAIN t = D1
  BY <1>1, <1>2, <1>3, <1>5
<1> HIDE DEF n, e, f, mid, D, D1
<1>6. SumFunctionOnSet(mid, D) = SumFunctionOnSet(f, D) + (mid[i] - f[i])
  <2>1. SumFunctionOnSet(mid, D) = mid[i] + SumFunctionOnSet(mid, D \ {i})
    BY <1>d, SumRemove
  <2>2. SumFunctionOnSet(f, D) = f[i] + SumFunctionOnSet(f, D \ {i})
    BY <1>d, SumRemove
  <2>3. IsFiniteSet(D \ {i}) /\ SumFunctionOnSet(f, D \ {i}) = SumFunctionOnSet(mid, D \ {i})
    BY <1>d, FS_RemoveElement, SumSame
  <2>4. SumFunctionOnSet(f, D \ {i}) \in Int
    BY <1>d, <2>3, SumType
  <2>5. mid[i] \in Int /\ f[i] \in Int
    BY <1>d
  <2> QED BY <2>1, <2>2, <2>3, <2>4, <2>5
<1>7. SumFunctionOnSet(mid, D) = mid[n] + SumFunctionOnSet(mid, D \ {n})
  BY <1>d, SumRemove
<1>8. /\ SumFunctionOnSet(e, D1) = SumFunctionOnSet(mid, D1)
      /\ SumFunctionOnSet(mid, D1) \in Int /\ SumFunctionOnSet(f, D) \in Int
  BY <1>d, <1>e, SumSame, SumType
<1>9. SumFunctionOnSet(e, D1) = SumFunctionOnSet(f, D) - f[i]
  <2>1. mid[n] + SumFunctionOnSet(mid, D1) = SumFunctionOnSet(f, D) + (mid[n] - f[i])
    BY <1>4, <1>6, <1>7, <1>e
  <2>2. mid[n] \in Int /\ f[i] \in Int
    BY <1>d
  <2> DEFINE x == mid[n]
             y == f[i]
             u == SumFunctionOnSet(mid, D1)
             v == SumFunctionOnSet(f, D)
  <2>3. x \in Int /\ y \in Int /\ u \in Int /\ v \in Int /\ x + u = v + (x - y)
    BY <1>8, <2>1, <2>2
  <2> HIDE DEF x, y, u, v
  <2>4. u = v - y
    BY <2>3
  <2> QED BY <1>8, <2>4 DEF u, v, y
<1> QED BY <1>4, <1>9, <1>e DEF SumRows, t, e, f

-----------------------------------------------------------------------------
(* What the operations write in a row.                                     *)

Traded(r, n) ==
    [id |-> r.id, side |-> r.side, px |-> r.px, qty |-> r.qty, leaves |-> r.leaves - n,
     cum |-> r.cum + n, pending |-> r.pending, newPx |-> r.newPx, newQty |-> r.newQty]
Amended(r) ==
    [id |-> r.id, side |-> r.side, px |-> r.newPx, qty |-> r.newQty, leaves |-> r.newQty - r.cum,
     cum |-> r.cum, pending |-> r.pending \ {"replace"}, newPx |-> r.newPx, newQty |-> r.newQty]
Marked(r, marks, px, n) ==
    [id |-> r.id, side |-> r.side, px |-> r.px, qty |-> r.qty, leaves |-> r.leaves,
     cum |-> r.cum, pending |-> marks, newPx |-> px, newQty |-> n]

LEMMA RowFields ==
    ASSUME NEW r \in Row
    PROVE  /\ r.id \in Id /\ r.side \in Side /\ r.px \in Nat /\ r.qty \in Qty
           /\ r.leaves \in Nat \ {0} /\ r.cum \in Nat /\ r.newPx \in Nat /\ r.newQty \in Nat
           /\ r.pending \in SUBSET {"cancel", "replace"}
           /\ DOMAIN r = {"id", "side", "px", "qty", "leaves", "cum", "pending", "newPx", "newQty"}
BY DEF Row

LEMMA WriteAmended ==
    ASSUME NEW rs \in Seq(Row), NEW i \in 1..Len(rs)
    PROVE  [rs EXCEPT ![i].px = rs[i].newPx, ![i].qty = rs[i].newQty,
                      ![i].leaves = rs[i].newQty - rs[i].cum, ![i].pending = @ \ {"replace"}]
              = [rs EXCEPT ![i] = Amended(rs[i])]
<1> DEFINE r == rs[i]
<1>1. /\ DOMAIN rs = 1..Len(rs) /\ rs[i] \in Row
      /\ DOMAIN r = {"id", "side", "px", "qty", "leaves", "cum", "pending", "newPx", "newQty"}
  BY LenProperties, ElementOfSeq, RowFields
<1>2. [r EXCEPT !.px = r.newPx, !.qty = r.newQty,
                !.leaves = r.newQty - r.cum, !.pending = @ \ {"replace"}] = Amended(r)
  <2>1. [r EXCEPT !.px = r.newPx, !.qty = r.newQty,
                  !.leaves = r.newQty - r.cum, !.pending = @ \ {"replace"}] =
           [f \in DOMAIN r |-> IF f = "pending" THEN r.pending \ {"replace"}
                               ELSE IF f = "leaves" THEN r.newQty - r.cum
                               ELSE IF f = "qty" THEN r.newQty
                               ELSE IF f = "px" THEN r.newPx ELSE r[f]]
    BY <1>1
  <2> DEFINE l == r.newQty - r.cum
             m == r.pending \ {"replace"}
  <2>2. Amended(r) = [id |-> r.id, side |-> r.side, px |-> r.newPx, qty |-> r.newQty, leaves |-> l,
                      cum |-> r.cum, pending |-> m, newPx |-> r.newPx, newQty |-> r.newQty]
    BY DEF Amended
  <2>3. [f \in DOMAIN r |-> IF f = "pending" THEN m ELSE IF f = "leaves" THEN l
                            ELSE IF f = "qty" THEN r.newQty
                            ELSE IF f = "px" THEN r.newPx ELSE r[f]]
          = [id |-> r.id, side |-> r.side, px |-> r.newPx, qty |-> r.newQty, leaves |-> l,
             cum |-> r.cum, pending |-> m, newPx |-> r.newPx, newQty |-> r.newQty]
    <3> HIDE DEF l, m
    <3> QED BY <1>1
  <2> QED BY <2>1, <2>2, <2>3
<1> QED BY <1>1, <1>2

LEMMA WriteMarked ==
    ASSUME NEW rs \in Seq(Row), NEW i \in 1..Len(rs), NEW m
    PROVE  [rs EXCEPT ![i].pending = m]
              = [rs EXCEPT ![i] = Marked(rs[i], m, rs[i].newPx, rs[i].newQty)]
<1> DEFINE r == rs[i]
<1>1. /\ DOMAIN rs = 1..Len(rs) /\ rs[i] \in Row
      /\ DOMAIN r = {"id", "side", "px", "qty", "leaves", "cum", "pending", "newPx", "newQty"}
  BY LenProperties, ElementOfSeq, RowFields
<1>2. [r EXCEPT !.pending = m] = Marked(r, m, r.newPx, r.newQty)
  BY <1>1 DEF Marked
<1> QED BY <1>1, <1>2

-----------------------------------------------------------------------------
(* The inductive invariant.                                                *)

Req == [type : {"New", "Cancel", "Replace"}, id : Id, side : Side, px : Nat,
        qty : Nat \ {0}, tif : {"GTC", "IOC"}]
Rep == [type : ReportTypes, id : Id, px : Nat, qty : Nat]

\* The rows have their types and identifiers of their own, taken in order.
TableInv ==
    /\ rows \in Seq(Row) /\ Distinct(rows) /\ Len(rows) <= MaxRows
    /\ nextId \in 1..(MaxSubmits + 1)
    /\ \A r \in RowSet(rows) : r.id < nextId /\ ("replace" \in r.pending => r.newQty \in Qty)

\* What is in flight has its type and speaks of identifiers already taken.
WireInv ==
    /\ requests \in Seq(Req) /\ Len(requests) <= QUEUE /\ reports \in Seq(Rep)
    /\ \A j \in 1..Len(requests) : requests[j].id < nextId
    /\ \A k \in 1..Len(reports) : reports[k].id < nextId
    /\ ~Live => requests = <<>> /\ Len(reports) <= QUEUE

\* The channel ends in book B.  The NullRouter fills nothing.
NoFills(B) == \A x \in DOMAIN B : B[x].cum = 0
Linked(R, q, p, B) ==
    \E h \in Seq(Books) : /\ Chan(R, q, p, h) /\ h[Len(h)] = B
                          /\ ~Live => \A k \in 1..Len(h) : NoFills(h[k])

\* The table is linked to the venue's book, or, without a venue, to some book.
ChanInv == \E B : (Live => B = book) /\ Linked(RowSet(rows), requests, reports, B)

Lots(d) == [r \in Row |-> IF r.side = d THEN r.leaves ELSE 0]
Locks(d) == [r \in Row |-> IF r.side = d THEN Reservation(d, r.px, r.leaves) ELSE 0]

\* The figures kept beside the table are the sums over it.
AccountInv ==
    /\ open \in [Side -> Int] /\ reserved \in [Side -> Int] /\ total \in [Side -> Int]
    /\ pos \in Int /\ slip \in Nat
    /\ \A d \in Side : open[d] = SumRows(Lots(d), rows) /\ reserved[d] = SumRows(Locks(d), rows)

\* How far each side is from the position limit and from its funds, and what
\* an amend in flight would take of it.
Slack(d) == IF d = "buy" THEN MaxPosition - (pos + open["buy"]) ELSE MaxPosition + (pos - open["sell"])
Room(d) == IF d = "buy" THEN (total["buy"] - reserved["buy"]) + slip ELSE total["sell"] - reserved["sell"]
Amending(r) == "replace" \in r.pending
MoreLots(r) == (r.newQty - r.cum) - r.leaves
MoreFunds(r) == Reservation(r.side, r.newPx, r.newQty - r.cum) - Reservation(r.side, r.px, r.leaves)

\* Nothing has met an amend in flight: there is one at most, and its terms fit.
RiskInv ==
    ~raced =>
        /\ \A r, s \in RowSet(rows) : Amending(r) /\ Amending(s) => r = s
        /\ \A d \in Side : Room(d) >= 0
        /\ \A r \in RowSet(rows) : Amending(r) => MoreFunds(r) <= Room(r.side)
        /\ MaxPosition # 0 => /\ \A d \in Side : Slack(d) >= 0
                              /\ \A r \in RowSet(rows) : Amending(r) => MoreLots(r) <= Slack(r.side)

\* A KILL that exec has not seen is met by at most one frame before the drain.
LoopInv ==
    /\ pc \in {"start", "top", "poll", "onExec", "tick", "timer", "drain", "drainExec",
              "drainTick", "stop", "cancelAll", "await", "done"}
    /\ flags \subseteq {"kill", "pause", "swap"} /\ cached \subseteq {"kill", "pause", "swap"}
    /\ ci \in 0..MaxRows /\ lag \in 0..2 /\ ops \in 0..MaxOps
    /\ term \in BOOLEAN /\ swapping \in BOOLEAN /\ raced \in BOOLEAN
    /\ pc \in {"start", "top", "poll", "onExec", "tick", "timer"} => lag <= 1
    /\ pc \in {"poll", "onExec"} /\ "kill" \in flags \ cached => lag = 0

IInv == TableInv /\ WireInv /\ ChanInv /\ AccountInv /\ RiskInv /\ LoopInv

-----------------------------------------------------------------------------
(* The account follows the table.                                          *)

LEMMA WeightTypes ==
    ASSUME NEW d \in Side
    PROVE  /\ Lots(d) \in [Row -> Nat] /\ Locks(d) \in [Row -> Nat]
           /\ \A r \in Row : /\ Lots(d)[r] = IF r.side = d THEN r.leaves ELSE 0
                             /\ Locks(d)[r] = IF r.side = d THEN Reservation(d, r.px, r.leaves) ELSE 0
<1>1. \A r \in Row : r.leaves \in Nat /\ Reservation(d, r.px, r.leaves) \in Nat
  BY RowFields DEF Reservation
<1> QED BY <1>1 DEF Lots, Locks

LEMMA AccountAdd ==
    ASSUME AccountInv, rows \in Seq(Row), NEW s \in Row, rows' = Append(rows, s),
           open' = [open EXCEPT ![s.side] = @ + s.leaves],
           reserved' = [reserved EXCEPT ![s.side] = @ + Reservation(s.side, s.px, s.leaves)],
           UNCHANGED <<pos, total, slip>>
    PROVE  AccountInv'
<1>0. s.side \in Side /\ s.leaves \in Nat /\ Reservation(s.side, s.px, s.leaves) \in Nat
  BY RowFields DEF Reservation
<1>1. /\ open \in [Side -> Int] /\ reserved \in [Side -> Int]
      /\ open' \in [Side -> Int] /\ reserved' \in [Side -> Int]
  BY <1>0 DEF AccountInv
<1>2. ASSUME NEW d \in Side PROVE open'[d] = SumRows(Lots(d), rows')
  <2>1. SumRows(Lots(d), rows') = open[d] + Lots(d)[s]
    BY WeightTypes, SumAppended DEF AccountInv
  <2>2. Lots(d)[s] = IF s.side = d THEN s.leaves ELSE 0
    BY WeightTypes
  <2> QED BY <1>0, <1>1, <2>1, <2>2
<1>3. ASSUME NEW d \in Side PROVE reserved'[d] = SumRows(Locks(d), rows')
  <2>1. SumRows(Locks(d), rows') = reserved[d] + Locks(d)[s]
    BY WeightTypes, SumAppended DEF AccountInv
  <2>2. Locks(d)[s] = IF s.side = d THEN Reservation(d, s.px, s.leaves) ELSE 0
    BY WeightTypes
  <2> QED BY <1>0, <1>1, <2>1, <2>2
<1> QED BY <1>1, <1>2, <1>3 DEF AccountInv

LEMMA AccountSet ==
    ASSUME AccountInv, rows \in Seq(Row), NEW i, NEW s \in Row, Updated(rows, rows', i, s),
           s.side = rows[i].side,
           NEW a \in Int, open' = [open EXCEPT ![s.side] = @ + a], a = s.leaves - rows[i].leaves,
           NEW b \in Int, reserved' = [reserved EXCEPT ![s.side] = @ + b],
           b = Reservation(s.side, s.px, s.leaves) - Reservation(s.side, rows[i].px, rows[i].leaves),
           pos' \in Int, total' \in [Side -> Int], slip' \in Nat
    PROVE  AccountInv'
<1>0. /\ rows[i] \in Row /\ s.side \in Side /\ s.leaves \in Nat /\ rows[i].leaves \in Nat
      /\ Reservation(s.side, s.px, s.leaves) \in Nat
      /\ Reservation(s.side, rows[i].px, rows[i].leaves) \in Nat
  <2>1. rows[i] \in Row
    BY ElementOfSeq DEF Updated
  <2>2. /\ s.px \in Nat /\ s.leaves \in Nat /\ s.side \in Side
        /\ rows[i].px \in Nat /\ rows[i].leaves \in Nat
    BY <2>1, RowFields
  <2>3. \A x, y \in Nat : Reservation(s.side, x, y) \in Nat
    BY DEF Reservation
  <2> QED BY <2>1, <2>2, <2>3
<1>1. /\ open \in [Side -> Int] /\ reserved \in [Side -> Int]
      /\ open' \in [Side -> Int] /\ reserved' \in [Side -> Int]
  <2>1. open \in [Side -> Int] /\ reserved \in [Side -> Int]
    BY DEF AccountInv
  <2>2. \A f \in [Side -> Int], d \in Side, x \in Int :
           [f EXCEPT ![d] = @ + x] \in [Side -> Int] /\ [f EXCEPT ![d] = @ - x] \in [Side -> Int]
    OBVIOUS
  <2> QED BY <1>0, <2>1, <2>2
<1>2. ASSUME NEW d \in Side PROVE open'[d] = SumRows(Lots(d), rows')
  <2>1. SumRows(Lots(d), rows') = open[d] + (Lots(d)[s] - Lots(d)[rows[i]])
    BY WeightTypes, SumUpdated DEF AccountInv
  <2>2. /\ Lots(d)[s] = IF s.side = d THEN s.leaves ELSE 0
        /\ Lots(d)[rows[i]] = IF rows[i].side = d THEN rows[i].leaves ELSE 0
    BY <1>0, WeightTypes
  <2> QED BY <1>0, <1>1, <2>1, <2>2
<1>3. ASSUME NEW d \in Side PROVE reserved'[d] = SumRows(Locks(d), rows')
  <2>1. SumRows(Locks(d), rows') = reserved[d] + (Locks(d)[s] - Locks(d)[rows[i]])
    BY WeightTypes, SumUpdated DEF AccountInv
  <2>2. /\ Locks(d)[s] = IF s.side = d THEN Reservation(s.side, s.px, s.leaves) ELSE 0
        /\ Locks(d)[rows[i]] = IF s.side = d THEN Reservation(s.side, rows[i].px, rows[i].leaves) ELSE 0
    BY <1>0, WeightTypes
  <2> QED BY <1>0, <1>1, <2>1, <2>2
<1> QED BY <1>1, <1>2, <1>3 DEF AccountInv

LEMMA AccountDel ==
    ASSUME AccountInv, rows \in Seq(Row), NEW i \in 1..Len(rows), rows' = SwapRemove(rows, i),
           NEW r, r = rows[i],
           NEW a \in Int, open' = [open EXCEPT ![r.side] = @ + a], a = -r.leaves,
           NEW b \in Int, reserved' = [reserved EXCEPT ![r.side] = @ - b],
           b = Reservation(r.side, r.px, r.leaves),
           pos' \in Int, total' \in [Side -> Int], slip' \in Nat
    PROVE  AccountInv'
<1>0. /\ r \in Row /\ r.side \in Side /\ r.leaves \in Nat
      /\ Reservation(r.side, r.px, r.leaves) \in Nat
  BY RowFields, ElementOfSeq DEF Reservation
<1>1. /\ open \in [Side -> Int] /\ reserved \in [Side -> Int]
      /\ open' \in [Side -> Int] /\ reserved' \in [Side -> Int]
  <2>1. open \in [Side -> Int] /\ reserved \in [Side -> Int]
    BY DEF AccountInv
  <2>2. \A f \in [Side -> Int], d \in Side, x \in Int :
           [f EXCEPT ![d] = @ + x] \in [Side -> Int] /\ [f EXCEPT ![d] = @ - x] \in [Side -> Int]
    OBVIOUS
  <2> QED BY <1>0, <2>1, <2>2
<1>2. ASSUME NEW d \in Side PROVE open'[d] = SumRows(Lots(d), rows')
  <2>1. SumRows(Lots(d), rows') = open[d] - Lots(d)[r]
    BY WeightTypes, SumRemoved DEF AccountInv
  <2>2. Lots(d)[r] = IF r.side = d THEN r.leaves ELSE 0
    BY <1>0, WeightTypes
  <2> QED BY <1>0, <1>1, <2>1, <2>2
<1>3. ASSUME NEW d \in Side PROVE reserved'[d] = SumRows(Locks(d), rows')
  <2>1. SumRows(Locks(d), rows') = reserved[d] - Locks(d)[r]
    BY WeightTypes, SumRemoved DEF AccountInv
  <2>2. Locks(d)[r] = IF r.side = d THEN Reservation(r.side, r.px, r.leaves) ELSE 0
    BY <1>0, WeightTypes
  <2> QED BY <1>0, <1>1, <2>1, <2>2
<1> QED BY <1>1, <1>2, <1>3 DEF AccountInv

-----------------------------------------------------------------------------
(* The limits hold as long as nothing meets an amend in flight.            *)

LEMMA Headroom ==
    ASSUME AccountInv
    PROVE  /\ Slack("buy") \in Int /\ Slack("sell") \in Int
           /\ Room("buy") \in Int /\ Room("sell") \in Int
           /\ Available("buy") \in Int /\ Available("sell") \in Int
           /\ Room("buy") = Available("buy") + slip /\ Room("sell") = Available("sell")
           /\ pos \in Int /\ slip \in Nat
           /\ \A d \in Side : open[d] \in Int /\ reserved[d] \in Int /\ total[d] \in Int
BY OrdersAssumption DEF AccountInv, Slack, Room, Available, Side

\* What position_check admits is within the side's slack.
LEMMA PositionFits ==
    ASSUME AccountInv, NEW d \in Side, NEW n \in Int, NEW px, PositionOk(d, n, px), MaxPosition # 0
    PROVE  n <= Slack(d)
<1>1. MaxPosition \in Nat /\ pos \in Int /\ open["buy"] \in Int /\ open["sell"] \in Int
  BY OrdersAssumption, Headroom DEF Side
<1>2. CASE d = "buy"
  <2> DEFINE worst == pos + open["buy"] + n
  <2>1. (IF worst < 0 THEN -worst ELSE worst) <= MaxPosition
    BY <1>2 DEF PositionOk
  <2> QED BY <1>1, <1>2, <2>1 DEF Slack
<1>3. CASE d = "sell"
  <2> DEFINE worst == pos - open["sell"] - n
  <2>1. (IF worst < 0 THEN -worst ELSE worst) <= MaxPosition
    BY <1>3 DEF PositionOk
  <2> QED BY <1>1, <1>3, <2>1 DEF Slack
<1> QED BY <1>2, <1>3 DEF Side

\* An accepted order or a fill that leaves raced unset has met no amend.
LEMMA NoAmend ==
    ASSUME MeetsAmend, rows \in Seq(Row), ~raced'
    PROVE  ~raced /\ \A r \in RowSet(rows) : ~Amending(r)
BY DEF MeetsAmend, RowSet, Amending

LEMMA RiskAdd ==
    ASSUME AccountInv, RiskInv, rows \in Seq(Row), NEW s \in Row, s.pending = {},
           RowSet(rows)' = RowSet(rows) \cup {s}, MeetsAmend,
           PositionOk(s.side, s.leaves, s.px),
           Reservation(s.side, s.px, s.leaves) <= Available(s.side),
           open' = [open EXCEPT ![s.side] = @ + s.leaves],
           reserved' = [reserved EXCEPT ![s.side] = @ + Reservation(s.side, s.px, s.leaves)],
           UNCHANGED <<pos, total, slip>>
    PROVE  RiskInv'
<1> SUFFICES ASSUME ~raced' 
             PROVE  /\ \A r, x \in RowSet(rows)' : Amending(r) /\ Amending(x) => r = x
                    /\ \A d \in Side : Room(d)' >= 0
                    /\ \A r \in RowSet(rows)' : Amending(r) => MoreFunds(r) <= Room(r.side)'
                    /\ MaxPosition # 0 =>
                          /\ \A d \in Side : Slack(d)' >= 0
                          /\ \A r \in RowSet(rows)' : Amending(r) => MoreLots(r) <= Slack(r.side)'
  BY DEF RiskInv
<1>1. ~raced /\ \A r \in RowSet(rows) : ~Amending(r)
  BY NoAmend
<1>2. \A r \in RowSet(rows)' : ~Amending(r)
  BY <1>1 DEF Amending
<1>3. s.side \in Side /\ s.leaves \in Nat /\ Reservation(s.side, s.px, s.leaves) \in Nat
  BY RowFields DEF Reservation
<1> DEFINE v == Reservation(s.side, s.px, s.leaves)
<1> HIDE DEF v
<1>4. v \in Nat /\ v <= Available(s.side)
      /\ reserved' = [reserved EXCEPT ![s.side] = @ + v]
  BY <1>3 DEF v
<1>t. /\ open \in [Side -> Int] /\ reserved \in [Side -> Int] /\ total \in [Side -> Int]
      /\ pos \in Int /\ slip \in Nat
  BY DEF AccountInv
<1>u. pos' = pos
  OBVIOUS
<1>5. \A d \in Side : Room(d)' >= 0
  <2>1. \A d \in Side : Room(d) >= 0
    BY <1>1 DEF RiskInv
  <2>2. \A d \in Side : reserved'[d] = IF d = s.side THEN reserved[d] + v ELSE reserved[d]
    BY <1>3, <1>4, <1>t
  <2> QED BY <1>3, <1>4, <1>t, <2>1, <2>2 DEF Side, Room, Available
<1>6. MaxPosition # 0 => \A d \in Side : Slack(d)' >= 0
  <2> SUFFICES ASSUME MaxPosition # 0, NEW d \in Side PROVE Slack(d)' >= 0
    OBVIOUS
  <2>1. \A e \in Side : Slack(e) >= 0
    BY <1>1 DEF RiskInv
  <2>2. s.leaves <= Slack(s.side)
    BY <1>3, PositionFits
  <2>3. \A e \in Side : open'[e] = IF e = s.side THEN open[e] + s.leaves ELSE open[e]
    BY <1>3, <1>t
  <2>4. MaxPosition \in Nat
    BY OrdersAssumption
  <2>5. open["buy"] \in Int /\ open["sell"] \in Int
    BY <1>t DEF Side
  <2>6. CASE s.side = "buy"
    <3>1. open'["buy"] = open["buy"] + s.leaves /\ open'["sell"] = open["sell"]
      BY <2>3, <2>6 DEF Side
    <3>2. /\ s.leaves <= MaxPosition - (pos + open["buy"])
          /\ 0 <= MaxPosition + (pos - open["sell"])
      BY <2>1, <2>2, <2>6 DEF Side, Slack
    <3>3. /\ MaxPosition - (pos' + open'["buy"]) >= 0 /\ MaxPosition + (pos' - open'["sell"]) >= 0
      BY ONLY <1>3, <1>t, <1>u, <2>4, <2>5, <3>1, <3>2
    <3> QED BY <3>3 DEF Slack, Side
  <2>7. CASE s.side = "sell"
    <3>1. open'["sell"] = open["sell"] + s.leaves /\ open'["buy"] = open["buy"]
      BY <2>3, <2>7 DEF Side
    <3>2. /\ 0 <= MaxPosition - (pos + open["buy"])
          /\ s.leaves <= MaxPosition + (pos - open["sell"])
      BY <2>1, <2>2, <2>7 DEF Side, Slack
    <3>3. /\ MaxPosition - (pos' + open'["buy"]) >= 0 /\ MaxPosition + (pos' - open'["sell"]) >= 0
      BY ONLY <1>3, <1>t, <1>u, <2>4, <2>5, <3>1, <3>2
    <3> QED BY <3>3 DEF Slack, Side
  <2> QED BY <1>3, <2>6, <2>7 DEF Side
<1> QED BY <1>2, <1>5, <1>6

\* finish: the row gives its lots and its funds back.
LEMMA RiskDel ==
    ASSUME AccountInv, RiskInv, NEW r \in Row,
           RowSet(rows)' \subseteq RowSet(rows), raced' = raced,
           open' = [open EXCEPT ![r.side] = @ + (-r.leaves)],
           reserved' = [reserved EXCEPT ![r.side] = @ - Reservation(r.side, r.px, r.leaves)],
           UNCHANGED <<pos, total, slip>>,
           \A x \in RowSet(rows) : x \in Row
    PROVE  RiskInv'
<1> SUFFICES ASSUME ~raced'
             PROVE  /\ \A x, y \in RowSet(rows)' : Amending(x) /\ Amending(y) => x = y
                    /\ \A d \in Side : Room(d)' >= 0
                    /\ \A x \in RowSet(rows)' : Amending(x) => MoreFunds(x) <= Room(x.side)'
                    /\ MaxPosition # 0 =>
                          /\ \A d \in Side : Slack(d)' >= 0
                          /\ \A x \in RowSet(rows)' : Amending(x) => MoreLots(x) <= Slack(x.side)'
  BY DEF RiskInv
<1>1. ~raced
  OBVIOUS
<1>3. r.side \in Side /\ r.leaves \in Nat /\ Reservation(r.side, r.px, r.leaves) \in Nat
  BY RowFields DEF Reservation
<1>t. /\ open \in [Side -> Int] /\ reserved \in [Side -> Int] /\ total \in [Side -> Int]
      /\ pos \in Int /\ slip \in Nat /\ MaxPosition \in Nat
  BY OrdersAssumption DEF AccountInv
<1> DEFINE v == Reservation(r.side, r.px, r.leaves)
<1> HIDE DEF v
<1>4. v \in Nat /\ reserved' = [reserved EXCEPT ![r.side] = @ - v]
  BY <1>3 DEF v
<1>5. \A d \in Side : Room(d) \in Int /\ Room(d)' \in Int /\ Room(d)' >= Room(d)
  <2>2. \A d \in Side : reserved'[d] = IF d = r.side THEN reserved[d] - v ELSE reserved[d]
    BY <1>3, <1>4, <1>t
  <2> QED BY <1>3, <1>4, <1>t, <2>2 DEF Side, Room
<1>6. \A d \in Side : Slack(d) \in Int /\ Slack(d)' \in Int /\ Slack(d)' >= Slack(d)
  <2>2. \A d \in Side : open'[d] = IF d = r.side THEN open[d] - r.leaves ELSE open[d]
    BY <1>3, <1>t
  <2> QED BY <1>3, <1>t, <2>2 DEF Side, Slack
<1>7. ASSUME NEW x \in RowSet(rows)', Amending(x)
      PROVE  /\ MoreFunds(x) <= Room(x.side)'
             /\ MaxPosition # 0 => MoreLots(x) <= Slack(x.side)'
  <2>1. x \in RowSet(rows) /\ x \in Row /\ x.side \in Side
    BY RowFields
  <2>2. MoreFunds(x) \in Int /\ MoreLots(x) \in Int
    BY <2>1, RowFields DEF MoreFunds, MoreLots, Reservation
  <2>3. MoreFunds(x) <= Room(x.side) /\ (MaxPosition # 0 => MoreLots(x) <= Slack(x.side))
    BY <1>1, <1>7, <2>1 DEF RiskInv
  <2>4. /\ Room(x.side) \in Int /\ Room(x.side)' \in Int /\ Room(x.side)' >= Room(x.side)
        /\ Slack(x.side) \in Int /\ Slack(x.side)' \in Int /\ Slack(x.side)' >= Slack(x.side)
    BY <1>5, <1>6, <2>1
  <2> HIDE DEF MoreFunds, MoreLots
  <2>5. MoreFunds(x) <= Room(x.side)'
    BY <2>2, <2>3, <2>4
  <2>6. MaxPosition # 0 => MoreLots(x) <= Slack(x.side)'
    BY <2>2, <2>3, <2>4
  <2> QED BY <2>5, <2>6
<1>8. \A d \in Side : Room(d)' >= 0
  <2>1. \A d \in Side : Room(d) >= 0
    BY <1>1 DEF RiskInv
  <2> QED BY <1>5, <2>1
<1>9. MaxPosition # 0 => \A d \in Side : Slack(d)' >= 0
  <2>1. MaxPosition # 0 => \A d \in Side : Slack(d) >= 0
    BY <1>1 DEF RiskInv
  <2> QED BY <1>6, <2>1
<1>10. \A x, y \in RowSet(rows)' : Amending(x) /\ Amending(y) => x = y
  BY <1>1 DEF RiskInv
<1> QED BY <1>7, <1>8, <1>9, <1>10

\* on_fill: a fill moves the position and the funds it was reserved for.
LEMMA RiskFill ==
    ASSUME AccountInv, RiskInv, rows \in Seq(Row), NEW r \in Row, NEW n \in 1..r.leaves,
           NEW px \in Nat, MeetsAmend,
           \A x \in RowSet(rows)' : x \in RowSet(rows) \/ x.pending = r.pending,
           r \in RowSet(rows), open' = [open EXCEPT ![r.side] = @ - n],
           AccountFill(r.side, px, n, r.px)
    PROVE  RiskInv'
<1> SUFFICES ASSUME ~raced'
             PROVE  /\ \A x, y \in RowSet(rows)' : Amending(x) /\ Amending(y) => x = y
                    /\ \A d \in Side : Room(d)' >= 0
                    /\ \A x \in RowSet(rows)' : Amending(x) => MoreFunds(x) <= Room(x.side)'
                    /\ MaxPosition # 0 =>
                          /\ \A d \in Side : Slack(d)' >= 0
                          /\ \A x \in RowSet(rows)' : Amending(x) => MoreLots(x) <= Slack(x.side)'
  BY DEF RiskInv
<1>1. ~raced /\ \A x \in RowSet(rows) : ~Amending(x)
  BY NoAmend
<1>2. \A x \in RowSet(rows)' : ~Amending(x)
  BY <1>1 DEF Amending
<1>3. r.side \in Side /\ r.leaves \in Nat /\ r.px \in Nat /\ n \in Nat
  BY RowFields
<1>t. /\ open \in [Side -> Int] /\ reserved \in [Side -> Int] /\ total \in [Side -> Int]
      /\ pos \in Int /\ slip \in Nat /\ MaxPosition \in Nat
  BY OrdersAssumption DEF AccountInv
<1>4. /\ \A d \in Side : Room(d) >= 0
      /\ MaxPosition # 0 => \A d \in Side : Slack(d) >= 0
  BY <1>1 DEF RiskInv
<1>5. CASE r.side = "buy"
  <2>1. /\ pos' = pos + n /\ open'["buy"] = open["buy"] - n /\ open'["sell"] = open["sell"]
    BY <1>3, <1>5, <1>t DEF AccountFill, Side
  <2>2. MaxPosition # 0 => \A d \in Side : Slack(d)' >= 0
    <3>1. open["buy"] \in Int /\ open["sell"] \in Int
      BY <1>t DEF Side
    <3>2. MaxPosition # 0 => /\ MaxPosition - (pos + open["buy"]) >= 0
                             /\ MaxPosition + (pos - open["sell"]) >= 0
      BY <1>4 DEF Slack, Side
    <3>3. MaxPosition # 0 => /\ MaxPosition - (pos' + open'["buy"]) >= 0
                             /\ MaxPosition + (pos' - open'["sell"]) >= 0
      BY ONLY <1>3, <1>t, <2>1, <3>1, <3>2
    <3> QED BY <3>3 DEF Slack, Side
  <2>3. /\ total'["sell"] = total["sell"] + n /\ total'["buy"] = total["buy"] - px * n
        /\ reserved'["buy"] = reserved["buy"] - r.px * n /\ reserved'["sell"] = reserved["sell"]
        /\ slip' = IF px > r.px THEN slip + (px - r.px) * n ELSE slip
    BY <1>3, <1>5, <1>t DEF AccountFill, Side, Reservation
  <2>4. /\ px * n \in Int /\ r.px * n \in Int /\ (px - r.px) * n = px * n - r.px * n
        /\ px <= r.px => px * n <= r.px * n
    BY <1>3
  <2>5. \A d \in Side : Room(d)' >= 0
    <3>1. /\ total["buy"] \in Int /\ total["sell"] \in Int
          /\ reserved["buy"] \in Int /\ reserved["sell"] \in Int
      BY <1>t DEF Side
    <3>2. /\ (total["buy"] - reserved["buy"]) + slip >= 0
          /\ total["sell"] - reserved["sell"] >= 0
      BY <1>4 DEF Room, Side
    <3>3. (total'["buy"] - reserved'["buy"]) + slip' >= 0
      <4> DEFINE u == px * n
                 v == r.px * n
                 w == (px - r.px) * n
      <4>1. /\ total'["buy"] = total["buy"] - u /\ reserved'["buy"] = reserved["buy"] - v
            /\ slip' = IF px > r.px THEN slip + w ELSE slip
        BY <2>3
      <4>2. u \in Int /\ v \in Int /\ w = u - v /\ (px <= r.px => u <= v) /\ px \in Int /\ r.px \in Int
        BY <1>3, <2>4
      <4> HIDE DEF u, v, w
      <4> QED BY ONLY <1>t, <3>1, <3>2, <4>1, <4>2
    <3>4. total'["sell"] - reserved'["sell"] >= 0
      BY <1>3, <2>3, <3>1, <3>2
    <3> QED BY <3>3, <3>4 DEF Room, Side
  <2> QED BY <1>2, <2>2, <2>5
<1>6. CASE r.side = "sell"
  <2>1. /\ pos' = pos - n /\ open'["sell"] = open["sell"] - n /\ open'["buy"] = open["buy"]
    BY <1>3, <1>6, <1>t DEF AccountFill, Side
  <2>2. MaxPosition # 0 => \A d \in Side : Slack(d)' >= 0
    <3>1. open["buy"] \in Int /\ open["sell"] \in Int
      BY <1>t DEF Side
    <3>2. MaxPosition # 0 => /\ MaxPosition - (pos + open["buy"]) >= 0
                             /\ MaxPosition + (pos - open["sell"]) >= 0
      BY <1>4 DEF Slack, Side
    <3>3. MaxPosition # 0 => /\ MaxPosition - (pos' + open'["buy"]) >= 0
                             /\ MaxPosition + (pos' - open'["sell"]) >= 0
      BY ONLY <1>3, <1>t, <2>1, <3>1, <3>2
    <3> QED BY <3>3 DEF Slack, Side
  <2>3. /\ total'["sell"] = total["sell"] - n /\ total'["buy"] = total["buy"] + px * n
        /\ reserved'["sell"] = reserved["sell"] - n /\ reserved'["buy"] = reserved["buy"]
        /\ slip' = slip
    BY <1>3, <1>6, <1>t DEF AccountFill, Side, Reservation
  <2>4. px * n \in Nat
    BY <1>3
  <2>5. \A d \in Side : Room(d)' >= 0
    <3>1. /\ total["buy"] \in Int /\ total["sell"] \in Int
          /\ reserved["buy"] \in Int /\ reserved["sell"] \in Int
      BY <1>t DEF Side
    <3>2. /\ (total["buy"] - reserved["buy"]) + slip >= 0
          /\ total["sell"] - reserved["sell"] >= 0
      BY <1>4 DEF Room, Side
    <3>3. (total'["buy"] - reserved'["buy"]) + slip' >= 0
      BY ONLY <1>t, <2>3, <2>4, <3>1, <3>2
    <3>4. total'["sell"] - reserved'["sell"] >= 0
      BY <1>3, <2>3, <3>1, <3>2
    <3> QED BY <3>3, <3>4 DEF Room, Side
  <2> QED BY <1>2, <2>2, <2>5
<1> QED BY <1>3, <1>5, <1>6 DEF Side

\* cancel, CancelReject: the account is left alone, and no amend is added.
LEMMA RiskKeep ==
    ASSUME RiskInv, NEW r \in RowSet(rows), NEW s,
           RowSet(rows)' = (RowSet(rows) \ {r}) \cup {s},
           UNCHANGED <<pos, total, reserved, slip, open, raced>>,
           Amending(s) => /\ Amending(r) /\ s.side = r.side
                          /\ MoreFunds(s) = MoreFunds(r) /\ MoreLots(s) = MoreLots(r)
    PROVE  RiskInv'
<1> SUFFICES ASSUME ~raced'
             PROVE  /\ \A x, y \in RowSet(rows)' : Amending(x) /\ Amending(y) => x = y
                    /\ \A d \in Side : Room(d)' >= 0
                    /\ \A x \in RowSet(rows)' : Amending(x) => MoreFunds(x) <= Room(x.side)'
                    /\ MaxPosition # 0 =>
                          /\ \A d \in Side : Slack(d)' >= 0
                          /\ \A x \in RowSet(rows)' : Amending(x) => MoreLots(x) <= Slack(x.side)'
  BY DEF RiskInv
<1>1. \A d : Room(d)' = Room(d) /\ Slack(d)' = Slack(d)
  BY DEF Room, Slack
<1>2. /\ \A x, y \in RowSet(rows) : Amending(x) /\ Amending(y) => x = y
      /\ \A d \in Side : Room(d) >= 0
      /\ \A x \in RowSet(rows) : Amending(x) => MoreFunds(x) <= Room(x.side)
      /\ MaxPosition # 0 => /\ \A d \in Side : Slack(d) >= 0
                            /\ \A x \in RowSet(rows) : Amending(x) => MoreLots(x) <= Slack(x.side)
  BY DEF RiskInv
<1> HIDE DEF Amending, MoreFunds, MoreLots
<1>3. \A x, y \in RowSet(rows)' : Amending(x) /\ Amending(y) => x = y
  BY <1>2
<1>4. ASSUME NEW x \in RowSet(rows)', Amending(x)
      PROVE  /\ MoreFunds(x) <= Room(x.side)'
             /\ MaxPosition # 0 => MoreLots(x) <= Slack(x.side)'
  <2>1. CASE x \in RowSet(rows)
    BY <1>1, <1>2, <1>4, <2>1
  <2>2. CASE x = s
    BY <1>1, <1>2, <1>4, <2>2
  <2> QED BY <2>1, <2>2
<1> QED BY <1>1, <1>2, <1>3, <1>4

\* replace: the gate lets an amend through that fits.
LEMMA RiskAsk ==
    ASSUME AccountInv, RiskInv, rows \in Seq(Row), NEW r \in RowSet(rows), r \in Row, MeetsAmend,
           NEW px \in Nat, NEW n \in Nat, CheckReplace(r, px, n),
           RowSet(rows)' = (RowSet(rows) \ {r}) \cup {Marked(r, {"replace"}, px, n)},
           UNCHANGED <<pos, total, reserved, slip, open>>
    PROVE  RiskInv'
<1> DEFINE s == Marked(r, {"replace"}, px, n)
<1> SUFFICES ASSUME ~raced'
             PROVE  /\ \A x, y \in RowSet(rows)' : Amending(x) /\ Amending(y) => x = y
                    /\ \A d \in Side : Room(d)' >= 0
                    /\ \A x \in RowSet(rows)' : Amending(x) => MoreFunds(x) <= Room(x.side)'
                    /\ MaxPosition # 0 =>
                          /\ \A d \in Side : Slack(d)' >= 0
                          /\ \A x \in RowSet(rows)' : Amending(x) => MoreLots(x) <= Slack(x.side)'
  BY DEF RiskInv
<1>1. ~raced /\ \A x \in RowSet(rows) : ~Amending(x)
  BY NoAmend
<1>2. \A d : Room(d)' = Room(d) /\ Slack(d)' = Slack(d)
  BY DEF Room, Slack
<1>3. /\ \A d \in Side : Room(d) >= 0
      /\ MaxPosition # 0 => \A d \in Side : Slack(d) >= 0
  BY <1>1 DEF RiskInv
<1>4. \A x \in RowSet(rows)' : Amending(x) => x = s
  BY <1>1
<1>5. /\ r.side \in Side /\ r.px \in Nat /\ r.leaves \in Nat /\ r.cum \in Nat
      /\ s.side = r.side /\ s.px = r.px /\ s.leaves = r.leaves /\ s.cum = r.cum
      /\ s.newPx = px /\ s.newQty = n
  BY RowFields DEF Marked
<1> HIDE DEF s
<1>6. MoreFunds(s) <= Room(s.side)
  <2>1. MoreFunds(s) <= Available(s.side)
    BY <1>5 DEF MoreFunds, CheckReplace
  <2>2. MoreFunds(s) \in Int
    BY <1>5 DEF MoreFunds, Reservation
  <2>3. Available(s.side) \in Int /\ Room(s.side) \in Int /\ Available(s.side) <= Room(s.side)
    <3>1. /\ Available("buy") \in Int /\ Available("sell") \in Int
          /\ Room("buy") = Available("buy") + slip /\ Room("sell") = Available("sell")
          /\ slip \in Nat /\ s.side \in {"buy", "sell"}
      BY <1>5, Headroom DEF Side
    <3> QED BY ONLY <3>1
  <2> HIDE DEF MoreFunds
  <2> QED BY <2>1, <2>2, <2>3
<1>7. MaxPosition # 0 => MoreLots(s) <= Slack(s.side)
  <2> SUFFICES ASSUME MaxPosition # 0 PROVE MoreLots(s) <= Slack(s.side)
    OBVIOUS
  <2>1. MoreLots(s) = (n - r.cum) - r.leaves /\ MoreLots(s) \in Int
    BY <1>5 DEF MoreLots
  <2>2. Slack(s.side) >= 0 /\ Slack(s.side) \in Int
    BY <1>3, <1>5, Headroom DEF Side
  <2>3. CASE n - r.cum > r.leaves
    <3>1. PositionOk(r.side, (n - r.cum) - r.leaves, px)
      BY <2>3 DEF CheckReplace
    <3> QED BY <1>5, <2>1, <3>1, PositionFits
  <2>4. CASE ~(n - r.cum > r.leaves)
    <3>1. MoreLots(s) <= 0
      BY <1>5, <2>1, <2>4
    <3> QED BY <2>1, <2>2, <3>1
  <2> QED BY <2>3, <2>4
<1> QED BY <1>2, <1>3, <1>4, <1>6, <1>7

\* Replaced: the new terms, which were known to fit, take effect.
LEMMA RiskAmended ==
    ASSUME AccountInv, RiskInv, NEW r \in RowSet(rows), r \in Row, Amending(r),
           RowSet(rows)' = (RowSet(rows) \ {r}) \cup {Amended(r)}, raced' = raced,
           open' = [open EXCEPT ![r.side] = @ + MoreLots(r)],
           reserved' = [reserved EXCEPT ![r.side] = @ + MoreFunds(r)],
           UNCHANGED <<pos, total, slip>>
    PROVE  RiskInv'
<1> SUFFICES ASSUME ~raced'
             PROVE  /\ \A x, y \in RowSet(rows)' : Amending(x) /\ Amending(y) => x = y
                    /\ \A d \in Side : Room(d)' >= 0
                    /\ \A x \in RowSet(rows)' : Amending(x) => MoreFunds(x) <= Room(x.side)'
                    /\ MaxPosition # 0 =>
                          /\ \A d \in Side : Slack(d)' >= 0
                          /\ \A x \in RowSet(rows)' : Amending(x) => MoreLots(x) <= Slack(x.side)'
  BY DEF RiskInv
<1>1. ~raced
  OBVIOUS
<1>2. /\ \A d \in Side : Room(d) >= 0
      /\ MaxPosition # 0 => \A d \in Side : Slack(d) >= 0
      /\ MoreFunds(r) <= Room(r.side)
      /\ MaxPosition # 0 => MoreLots(r) <= Slack(r.side)
  BY <1>1 DEF RiskInv
<1>3. \A x \in RowSet(rows)' : ~Amending(x)
  <2>1. \A x \in RowSet(rows) : Amending(x) => x = r
    BY <1>1 DEF RiskInv
  <2>2. ~Amending(Amended(r))
    BY DEF Amending, Amended
  <2> QED BY <2>1, <2>2
<1>4. r.side \in Side /\ MoreFunds(r) \in Int /\ MoreLots(r) \in Int
  BY RowFields DEF MoreFunds, MoreLots, Reservation
<1>t. /\ open \in [Side -> Int] /\ reserved \in [Side -> Int] /\ total \in [Side -> Int]
      /\ pos \in Int /\ slip \in Nat /\ MaxPosition \in Nat
  BY OrdersAssumption DEF AccountInv
<1>5. /\ \A d \in Side : reserved'[d] = IF d = r.side THEN reserved[d] + MoreFunds(r) ELSE reserved[d]
      /\ \A d \in Side : open'[d] = IF d = r.side THEN open[d] + MoreLots(r) ELSE open[d]
  BY <1>4, <1>t
<1>6. UNCHANGED <<pos, total, slip>>
  OBVIOUS
<1>7. \A d \in Side : d # r.side => Room(d)' = Room(d) /\ Slack(d)' = Slack(d)
  BY ONLY <1>5, <1>6 DEF Room, Slack, Side
<1>8. Room(r.side)' = Room(r.side) - MoreFunds(r) /\ Room(r.side) \in Int
  BY ONLY <1>4, <1>5, <1>6, <1>t DEF Room, Side
<1>9. Slack(r.side)' = Slack(r.side) - MoreLots(r) /\ Slack(r.side) \in Int
  BY ONLY <1>4, <1>5, <1>6, <1>t DEF Slack, Side
<1>10. \A d \in Side : Room(d)' >= 0
  BY ONLY <1>2, <1>4, <1>7, <1>8
<1>11. MaxPosition # 0 => \A d \in Side : Slack(d)' >= 0
  BY ONLY <1>2, <1>4, <1>7, <1>9
<1> QED BY <1>3, <1>10, <1>11

-----------------------------------------------------------------------------
(* What the venue does to its book.                                        *)

Rest(B, id, o) == [k \in DOMAIN B \cup {id} |-> IF k = id THEN o ELSE B[k]]
Drop(B, id) == [k \in DOMAIN B \ {id} |-> B[k]]
Reprice(B, id, px, n) ==
    [k \in DOMAIN B |->
        IF k = id THEN [side |-> B[k].side, px |-> px, cum |-> B[k].cum, leaves |-> n - B[k].cum]
        ELSE B[k]]
Trade(B, id, n) ==
    [k \in DOMAIN B |->
        IF k = id THEN [side |-> B[k].side, px |-> B[k].px, cum |-> B[k].cum + n,
                        leaves |-> B[k].leaves - n]
        ELSE B[k]]

LEMMA BookIs ==
    ASSUME NEW B
    PROVE  B \in Books <=> /\ B = [k \in DOMAIN B |-> B[k]]
                           /\ DOMAIN B \subseteq Id /\ \A k \in DOMAIN B : B[k] \in VOrder
<1>1. ASSUME B \in Books
      PROVE  /\ B = [k \in DOMAIN B |-> B[k]]
             /\ DOMAIN B \subseteq Id /\ \A k \in DOMAIN B : B[k] \in VOrder
  <2>1. PICK S \in SUBSET Id : B \in [S -> VOrder]
    BY <1>1 DEF Books
  <2> QED BY <2>1
<1>2. ASSUME B = [k \in DOMAIN B |-> B[k]], DOMAIN B \subseteq Id, \A k \in DOMAIN B : B[k] \in VOrder
      PROVE  B \in Books
  <2>1. B \in [DOMAIN B -> VOrder]
    BY <1>2
  <2> QED BY <1>2, <2>1 DEF Books
<1> QED BY <1>1, <1>2

LEMMA RestStep ==
    ASSUME NEW B \in Books, NEW id \in Id, id \notin DOMAIN B, NEW o \in VOrder,
           NEW m, m.type = "Ack", m.id = id
    PROVE  Rest(B, id, o) \in Books /\ Step(B, m, Rest(B, id, o)) /\ Rest(B, id, o)[id] = o
<1> DEFINE C == Rest(B, id, o)
<1>1. /\ DOMAIN B \subseteq Id /\ \A k \in DOMAIN B : B[k] \in VOrder
  BY BookIs
<1>2. /\ C = [k \in DOMAIN C |-> C[k]] /\ DOMAIN C = DOMAIN B \cup {id}
      /\ C[id] = o /\ \A k \in DOMAIN B : C[k] = B[k]
  BY DEF Rest
<1> HIDE DEF C
<1>3. C \in Books
  <2>1. DOMAIN C \subseteq Id /\ \A k \in DOMAIN C : C[k] \in VOrder
    BY <1>1, <1>2
  <2> QED BY <1>2, <2>1, BookIs
<1>4. Step(B, m, C)
  BY <1>2 DEF Step, ReportTypes
<1> QED BY <1>2, <1>3, <1>4 DEF C

LEMMA DropStep ==
    ASSUME NEW B \in Books, NEW id,
           NEW m, m.type \in {"Canceled", "Expired"}, m.id = id
    PROVE  Drop(B, id) \in Books /\ Step(B, m, Drop(B, id))
<1> DEFINE C == Drop(B, id)
<1>1. /\ DOMAIN B \subseteq Id /\ \A k \in DOMAIN B : B[k] \in VOrder
  BY BookIs
<1>2. /\ C = [k \in DOMAIN C |-> C[k]] /\ DOMAIN C = DOMAIN B \ {id}
      /\ \A k \in DOMAIN C : C[k] = B[k]
  BY DEF Drop
<1> HIDE DEF C
<1>3. C \in Books
  <2>1. DOMAIN C \subseteq Id /\ \A k \in DOMAIN C : C[k] \in VOrder
    BY <1>1, <1>2
  <2> QED BY <1>2, <2>1, BookIs
<1>4. Step(B, m, C)
  BY <1>2 DEF Step, ReportTypes
<1> QED BY <1>3, <1>4 DEF C

LEMMA RepriceStep ==
    ASSUME NEW B \in Books, NEW id, NEW px \in Nat, NEW n \in Nat,
           id \in DOMAIN B => n > B[id].cum,
           NEW m, m.type = "Replaced", m.id = id
    PROVE  /\ Reprice(B, id, px, n) \in Books /\ Step(B, m, Reprice(B, id, px, n))
           /\ DOMAIN Reprice(B, id, px, n) = DOMAIN B
           /\ \A k \in DOMAIN B : Reprice(B, id, px, n)[k].cum = B[k].cum
           /\ id \in DOMAIN B => /\ Reprice(B, id, px, n)[id].px = px
                                 /\ Reprice(B, id, px, n)[id].cum + Reprice(B, id, px, n)[id].leaves = n
<1> DEFINE C == Reprice(B, id, px, n)
<1>1. /\ DOMAIN B \subseteq Id /\ \A k \in DOMAIN B : B[k] \in VOrder
  BY BookIs
<1>v. \A k \in DOMAIN B : B[k].side \in Side /\ B[k].cum \in Nat
  BY <1>1 DEF VOrder
<1>2. /\ C = [k \in DOMAIN C |-> C[k]] /\ DOMAIN C = DOMAIN B
      /\ id \in DOMAIN B => C[id] = [side |-> B[id].side, px |-> px, cum |-> B[id].cum,
                                     leaves |-> n - B[id].cum]
      /\ \A k \in DOMAIN B : k # id => C[k] = B[k]
  BY DEF Reprice
<1> HIDE DEF C
<1>3. id \in DOMAIN B => /\ C[id] \in VOrder /\ C[id].side = B[id].side /\ C[id].cum = B[id].cum
                         /\ C[id].px = px /\ C[id].cum + C[id].leaves = n
  <2> SUFFICES ASSUME id \in DOMAIN B
               PROVE  /\ C[id] \in VOrder /\ C[id].side = B[id].side /\ C[id].cum = B[id].cum
                      /\ C[id].px = px /\ C[id].cum + C[id].leaves = n
    OBVIOUS
  <2>1. B[id].side \in Side /\ B[id].cum \in Nat /\ n - B[id].cum \in Nat \ {0}
    BY <1>v
  <2>2. C[id] \in VOrder
    BY <1>2, <2>1 DEF VOrder
  <2> QED BY <1>2, <2>1, <2>2
<1>4. C \in Books
  <2>1. \A k \in DOMAIN C : C[k] \in VOrder
    BY <1>1, <1>2, <1>3
  <2>2. DOMAIN C \subseteq Id
    BY <1>1, <1>2
  <2> QED BY <1>2, <2>1, <2>2, BookIs
<1>5. Step(B, m, C)
  BY <1>2, <1>3 DEF Step, ReportTypes
<1>6. \A k \in DOMAIN B : C[k].cum = B[k].cum
  BY <1>2, <1>3
<1> QED BY <1>2, <1>3, <1>4, <1>5, <1>6 DEF C

LEMMA TradeStep ==
    ASSUME NEW B \in Books, NEW id \in DOMAIN B, NEW n \in Nat \ {0}, n < B[id].leaves,
           NEW m, m.type = "Fill", m.id = id, m.qty = n
    PROVE  Trade(B, id, n) \in Books /\ Step(B, m, Trade(B, id, n))
<1> DEFINE C == Trade(B, id, n)
<1>1. /\ DOMAIN B \subseteq Id /\ \A k \in DOMAIN B : B[k] \in VOrder
  BY BookIs
<1>v. B[id].side \in Side /\ B[id].px \in Nat /\ B[id].cum \in Nat /\ B[id].leaves \in Nat
  BY <1>1 DEF VOrder
<1>2. /\ C = [k \in DOMAIN C |-> C[k]] /\ DOMAIN C = DOMAIN B
      /\ C[id] = [side |-> B[id].side, px |-> B[id].px, cum |-> B[id].cum + n,
                  leaves |-> B[id].leaves - n]
      /\ \A k \in DOMAIN B : k # id => C[k] = B[k]
  BY DEF Trade
<1> HIDE DEF C
<1>3. C[id] \in VOrder
  <2>1. B[id].cum + n \in Nat /\ B[id].leaves - n \in Nat \ {0}
    BY <1>v
  <2> QED BY <1>2, <1>v, <2>1 DEF VOrder
<1>4. C \in Books
  <2>1. \A k \in DOMAIN C : C[k] \in VOrder
    BY <1>1, <1>2, <1>3
  <2>2. DOMAIN C \subseteq Id
    BY <1>1, <1>2
  <2> QED BY <1>2, <2>1, <2>2, BookIs
<1>5. Step(B, m, C)
  <2>1. m.qty \in 1..B[id].leaves /\ m.qty # B[id].leaves
    BY <1>v
  <2> QED BY <1>2, <2>1 DEF Step, ReportTypes
<1> QED BY <1>4, <1>5 DEF C

LEMMA FillOutStep ==
    ASSUME NEW B \in Books, NEW id \in DOMAIN B,
           NEW m, m.type = "Fill", m.id = id, m.qty = B[id].leaves
    PROVE  Drop(B, id) \in Books /\ Step(B, m, Drop(B, id))
<1> DEFINE C == Drop(B, id)
<1>1. /\ DOMAIN B \subseteq Id /\ \A k \in DOMAIN B : B[k] \in VOrder
  BY BookIs
<1>v. B[id].leaves \in Nat \ {0}
  BY <1>1 DEF VOrder
<1>2. /\ C = [k \in DOMAIN C |-> C[k]] /\ DOMAIN C = DOMAIN B \ {id}
      /\ \A k \in DOMAIN C : C[k] = B[k]
  BY DEF Drop
<1> HIDE DEF C
<1>3. C \in Books
  <2>1. DOMAIN C \subseteq Id /\ \A k \in DOMAIN C : C[k] \in VOrder
    BY <1>1, <1>2
  <2> QED BY <1>2, <2>1, BookIs
<1>4. Step(B, m, C)
  <2>1. m.qty \in 1..B[id].leaves
    BY <1>v
  <2> QED BY <1>2, <2>1 DEF Step, ReportTypes
<1> QED BY <1>3, <1>4 DEF C

LEMMA SameStep ==
    ASSUME NEW B, NEW m, m.type \in {"Reject", "CancelReject"},
           m.type = "Reject" => m.id \notin DOMAIN B
    PROVE  Step(B, m, B)
BY DEF Step, ReportTypes

-----------------------------------------------------------------------------
(* The same for the sequences of the model.                                *)

LEMMA LinkLast ==
    ASSUME NEW R, NEW q, NEW p, NEW B, Linked(R, q, p, B)
    PROVE  /\ B \in Books /\ (~Live => NoFills(B))
           /\ \A x \in DOMAIN B : \E r \in R : r.id = x
           /\ \A j \in 1..Len(q) : q[j].type = "New" => q[j].id \notin DOMAIN B
<1>1. PICK h \in Seq(Books) : /\ Chan(R, q, p, h) /\ h[Len(h)] = B
                              /\ ~Live => \A k \in 1..Len(h) : NoFills(h[k])
  BY DEF Linked
<1>2. Len(h) \in 1..Len(h)
  BY <1>1 DEF Chan
<1> QED BY <1>1, <1>2 DEF Chan, Fresh

LEMMA LinkNew ==
    ASSUME NEW R, NEW q \in Seq(Req), NEW p, NEW B, Linked(R, q, p, B), NEW m \in Req,
           m.type = "New", NEW r, r.id = m.id, Asks(r, m),
           \A x \in R : x.id # m.id,
           \A j \in 1..Len(q) : q[j].id # m.id,
           \A k \in 1..Len(p) : p[k].id # m.id
    PROVE  Linked(R \cup {r}, Append(q, m), p, B)
<1>1. PICK h \in Seq(Books) : /\ Chan(R, q, p, h) /\ h[Len(h)] = B
                              /\ ~Live => \A k \in 1..Len(h) : NoFills(h[k])
  BY DEF Linked
<1>2. Pushed(q, Append(q, m), m)
  BY SeqPushed
<1>3. Chan(R \cup {r}, Append(q, m), p, h)
  BY <1>1, <1>2, PushNew
<1> QED BY <1>1, <1>3 DEF Linked

LEMMA LinkAsk ==
    ASSUME NEW R, NEW q \in Seq(Req), NEW p, NEW B, Linked(R, q, p, B), NEW m \in Req,
           NEW r \in R, r.id = m.id, \A x \in R : x.id = r.id => x = r,
           NEW s, s.id = r.id, s.side = r.side, s.leaves = r.leaves, s.cum = r.cum, s.px = r.px,
           \/ /\ m.type = "Cancel" /\ s.newPx = r.newPx /\ s.newQty = r.newQty
              /\ "replace" \in r.pending => "replace" \in s.pending
           \/ /\ m.type = "Replace" /\ r.pending = {} /\ "replace" \in s.pending
              /\ s.newPx = m.px /\ s.newQty = m.qty
    PROVE  Linked((R \ {r}) \cup {s}, Append(q, m), p, B)
<1>1. PICK h \in Seq(Books) : /\ Chan(R, q, p, h) /\ h[Len(h)] = B
                              /\ ~Live => \A k \in 1..Len(h) : NoFills(h[k])
  BY DEF Linked
<1>2. Pushed(q, Append(q, m), m)
  BY SeqPushed
<1>3. Chan((R \ {r}) \cup {s}, Append(q, m), p, h)
  BY <1>1, <1>2, PushAsk
<1> QED BY <1>1, <1>3 DEF Linked

LEMMA Extend ==
    ASSUME NEW h \in Seq(Books), NEW C \in Books, ~Live => \A k \in 1..Len(h) : NoFills(h[k]),
           ~Live => NoFills(C)
    PROVE  /\ Append(h, C) \in Seq(Books) /\ Pushed(h, Append(h, C), C)
           /\ Append(h, C)[Len(Append(h, C))] = C
           /\ ~Live => \A k \in 1..Len(Append(h, C)) : NoFills(Append(h, C)[k])
<1>1. /\ Append(h, C) \in Seq(Books) /\ Pushed(h, Append(h, C), C)
      /\ Len(h) \in Nat /\ Len(Append(h, C)) = Len(h) + 1
  BY SeqPushed
<1> DEFINE g == Append(h, C)
<1> HIDE DEF g
<1>2. /\ Pushed(h, g, C) /\ Len(g) = Len(h) + 1
  BY <1>1 DEF g
<1>3. g[Len(g)] = C
  BY <1>1, <1>2 DEF Pushed
<1>4. \A k \in 1..Len(g) : k # Len(g) => k \in 1..Len(h) /\ g[k] = h[k]
  BY <1>1, <1>2 DEF Pushed
<1>5. ~Live => \A k \in 1..Len(g) : NoFills(g[k])
  BY <1>3, <1>4
<1> QED BY <1>1, <1>3, <1>5 DEF g

LEMMA LinkUnasked ==
    ASSUME NEW R, NEW q, NEW p \in Seq(Rep), NEW B, Linked(R, q, p, B), NEW m \in Rep,
           NEW C \in Books, Step(B, m, C), ~Live => NoFills(C),
           m.type \in {"Fill", "Canceled", "Expired"}, m.id \in DOMAIN B
    PROVE  Linked(R, q, Append(p, m), C)
<1>1. PICK h \in Seq(Books) : /\ Chan(R, q, p, h) /\ h[Len(h)] = B
                              /\ ~Live => \A k \in 1..Len(h) : NoFills(h[k])
  BY DEF Linked
<1>2. Pushed(p, Append(p, m), m)
  BY SeqPushed
<1>3. /\ Append(h, C) \in Seq(Books) /\ Pushed(h, Append(h, C), C)
      /\ Append(h, C)[Len(Append(h, C))] = C
      /\ ~Live => \A k \in 1..Len(Append(h, C)) : NoFills(Append(h, C)[k])
  BY <1>1, Extend
<1>4. Chan(R, q, Append(p, m), Append(h, C))
  BY <1>1, <1>2, <1>3, Unasked
<1> QED BY <1>3, <1>4 DEF Linked

LEMMA LinkBirth ==
    ASSUME NEW R, NEW q \in Seq(Req), q # <<>>, NEW p \in Seq(Rep), NEW B, Linked(R, q, p, B),
           NEW m \in Rep, NEW C \in Books, Step(B, m, C), ~Live => NoFills(C),
           q[1].type = "New", m.id = q[1].id, m.type \in {"Ack", "Reject"},
           \A x, y \in R : x.id = y.id => x = y,
           m.type = "Ack" => C[m.id] = [side |-> q[1].side, px |-> q[1].px,
                                        cum |-> 0, leaves |-> q[1].qty]
    PROVE  Linked(R, Tail(q), Append(p, m), C)
<1>1. PICK h \in Seq(Books) : /\ Chan(R, q, p, h) /\ h[Len(h)] = B
                              /\ ~Live => \A k \in 1..Len(h) : NoFills(h[k])
  BY DEF Linked
<1>2. Pushed(p, Append(p, m), m) /\ Popped(q, Tail(q))
  BY SeqPushed, SeqPopped
<1>3. /\ Append(h, C) \in Seq(Books) /\ Pushed(h, Append(h, C), C)
      /\ Append(h, C)[Len(Append(h, C))] = C
      /\ ~Live => \A k \in 1..Len(Append(h, C)) : NoFills(Append(h, C)[k])
  BY <1>1, Extend
<1>4. Chan(R, Tail(q), Append(p, m), Append(h, C))
  BY <1>1, <1>2, <1>3, Birth
<1> QED BY <1>3, <1>4 DEF Linked

LEMMA LinkAnswer ==
    ASSUME NEW R, NEW q \in Seq(Req), q # <<>>, NEW p \in Seq(Rep), NEW B, Linked(R, q, p, B),
           NEW m \in Rep, NEW C \in Books, Step(B, m, C), ~Live => NoFills(C),
           q[1].type # "New", m.id = q[1].id,
           m.type \in {"Canceled", "CancelReject", "Replaced"},
           m.type # "Canceled" /\ m.id \in DOMAIN B => q[1].type = "Replace",
           m.type = "Replaced" /\ m.id \in DOMAIN B =>
              C[m.id].px = q[1].px /\ C[m.id].cum + C[m.id].leaves = q[1].qty
    PROVE  Linked(R, Tail(q), Append(p, m), C)
<1>1. PICK h \in Seq(Books) : /\ Chan(R, q, p, h) /\ h[Len(h)] = B
                              /\ ~Live => \A k \in 1..Len(h) : NoFills(h[k])
  BY DEF Linked
<1>2. Pushed(p, Append(p, m), m) /\ Popped(q, Tail(q))
  BY SeqPushed, SeqPopped
<1>3. /\ Append(h, C) \in Seq(Books) /\ Pushed(h, Append(h, C), C)
      /\ Append(h, C)[Len(Append(h, C))] = C
      /\ ~Live => \A k \in 1..Len(Append(h, C)) : NoFills(Append(h, C)[k])
  BY <1>1, Extend
<1>4. Chan(R, Tail(q), Append(p, m), Append(h, C))
  BY <1>1, <1>2, <1>3, Answer
<1> QED BY <1>3, <1>4 DEF Linked

\* The report at the front is taken: h is the channel's books before.
LEMMA LinkPopped ==
    ASSUME NEW R, NEW q, NEW p \in Seq(Rep), p # <<>>, NEW B, NEW h \in Seq(Books),
           Chan(R, q, p, h), h[Len(h)] = B, ~Live => \A k \in 1..Len(h) : NoFills(h[k])
    PROVE  /\ Popped(p, Tail(p)) /\ Popped(h, Tail(h)) /\ Len(p) > 0
           /\ h[1] \in Books /\ h[2] \in Books /\ Tail(h)[1] = h[2]
           /\ \A T : Chan(T, q, Tail(p), Tail(h)) => Linked(T, q, Tail(p), B)
<1>1. Popped(p, Tail(p)) /\ Len(p) \in Nat /\ Len(p) > 0
  BY SeqPopped
<1>2. Len(h) = Len(p) + 1
  BY DEF Chan
<1>3. h # <<>>
  BY <1>1, <1>2, EmptySeq
<1>4. Tail(h) \in Seq(Books) /\ Popped(h, Tail(h)) /\ Len(Tail(h)) = Len(h) - 1
  BY <1>3, SeqPopped
<1> DEFINE g == Tail(h)
<1> HIDE DEF g
<1>5. g \in Seq(Books) /\ Popped(h, g) /\ Len(g) = Len(p)
  BY <1>1, <1>2, <1>4 DEF g
<1>6. \A k \in 1..Len(g) : g[k] = h[k + 1] /\ k + 1 \in 1..Len(h)
  BY <1>1, <1>2, <1>5 DEF Popped
<1>7. g[1] = h[2] /\ g[Len(g)] = h[Len(h)]
  <2>1. 1 \in 1..Len(g) /\ Len(g) \in 1..Len(g) /\ 1 + 1 = 2 /\ Len(g) + 1 = Len(h)
    BY <1>1, <1>2, <1>5
  <2> QED BY <1>6, <2>1
<1>8. h[1] \in Books /\ h[2] \in Books
  <2>1. 1 \in 1..Len(h) /\ 2 \in 1..Len(h)
    BY <1>1, <1>2
  <2> QED BY <2>1, ElementOfSeq
<1>9. ~Live => \A k \in 1..Len(g) : NoFills(g[k])
  BY <1>6
<1>10. \A T : Chan(T, q, Tail(p), g) => Linked(T, q, Tail(p), B)
  BY <1>5, <1>7, <1>9 DEF Linked
<1> QED BY <1>1, <1>4, <1>7, <1>8, <1>10 DEF g

\* A report for an order the table does not have (any more).
LEMMA TakeUnknown ==
    ASSUME NEW R, NEW q, NEW p \in Seq(Rep), p # <<>>, NEW B, Linked(R, q, p, B),
           \A x \in R : x.id # p[1].id
    PROVE  Linked(R, q, Tail(p), B)
<1>1. PICK h \in Seq(Books) : /\ Chan(R, q, p, h) /\ h[Len(h)] = B
                              /\ ~Live => \A k \in 1..Len(h) : NoFills(h[k])
  BY DEF Linked
<1>2. /\ Popped(p, Tail(p)) /\ Popped(h, Tail(h))
      /\ \A T : Chan(T, q, Tail(p), Tail(h)) => Linked(T, q, Tail(p), B)
  BY <1>1, LinkPopped
<1>3. Chan(R, q, Tail(p), Tail(h))
  BY <1>1, <1>2, PopKept
<1> QED BY <1>2, <1>3

\* A report that ends the order of its row.
LEMMA TakeLast ==
    ASSUME NEW R, NEW q, NEW p \in Seq(Rep), p # <<>>, NEW B, Linked(R, q, p, B),
           NEW r \in R, r \in Row, r.id = p[1].id, \A x \in R : x.id = r.id => x = r,
           p[1].type \in {"Reject", "Canceled", "Expired"}
              \/ (p[1].type = "Fill" /\ p[1].qty = r.leaves)
    PROVE  Linked(R \ {r}, q, Tail(p), B)
<1>1. PICK h \in Seq(Books) : /\ Chan(R, q, p, h) /\ h[Len(h)] = B
                              /\ ~Live => \A k \in 1..Len(h) : NoFills(h[k])
  BY DEF Linked
<1>2. /\ Popped(p, Tail(p)) /\ Popped(h, Tail(h)) /\ Len(p) > 0
      /\ \A T : Chan(T, q, Tail(p), Tail(h)) => Linked(T, q, Tail(p), B)
  BY <1>1, LinkPopped
<1>3. /\ Step(h[1], p[1], h[2])
      /\ p[1].type \notin {"Ack", "Reject"} => r.id \in DOMAIN h[1] /\ Agrees(r, h[1][r.id])
  BY <1>1, <1>2, HeadFacts
<1>4. p[1].id \notin DOMAIN h[2]
  <2>1. CASE p[1].type \in {"Reject", "Canceled", "Expired"}
    BY <1>3, <2>1 DEF Step
  <2>2. CASE p[1].type = "Fill" /\ p[1].qty = r.leaves
    <3>1. p[1].qty = h[1][p[1].id].leaves
      BY <1>3, <2>2 DEF Agrees
    <3> QED BY <1>3, <2>2, <3>1 DEF Step
  <2> QED BY <2>1, <2>2
<1>5. R \ {r} \in SUBSET R /\ (\A x \in R \ {r} : x.id # p[1].id) /\ \A x \in R \ (R \ {r}) : x.id = p[1].id
  OBVIOUS
<1>6. Chan(R \ {r}, q, Tail(p), Tail(h))
  BY <1>1, <1>2, <1>4, <1>5, PopGone
<1> QED BY <1>2, <1>6

\* Ack: the row is what the venue now has.
LEMMA TakeAck ==
    ASSUME NEW R, NEW q, NEW p \in Seq(Rep), p # <<>>, NEW B, Linked(R, q, p, B),
           NEW r \in R, r.id = p[1].id, \A x \in R : x.id = r.id => x = r,
           p[1].type = "Ack"
    PROVE  Linked(R, q, Tail(p), B)
<1>1. PICK h \in Seq(Books) : /\ Chan(R, q, p, h) /\ h[Len(h)] = B
                              /\ ~Live => \A k \in 1..Len(h) : NoFills(h[k])
  BY DEF Linked
<1>2. /\ Popped(p, Tail(p)) /\ Popped(h, Tail(h)) /\ Len(p) > 0 /\ Tail(h)[1] = h[2]
      /\ \A T : Chan(T, q, Tail(p), Tail(h)) => Linked(T, q, Tail(p), B)
  BY <1>1, LinkPopped
<1>3. r.id \in DOMAIN h[2] /\ Agrees(r, h[2][r.id])
  BY <1>1, <1>2, HeadFacts
<1>4. Known(r, q, Tail(p), Tail(h))
  BY <1>2, <1>3 DEF Known
<1>5. Amends(r, q, Tail(p), Tail(h))
  BY <1>1, <1>2, PopRows
<1>6. \A x \in R : (x \in R /\ x.id # p[1].id) \/ (Known(x, q, Tail(p), Tail(h)) /\ Amends(x, q, Tail(p), Tail(h)))
  BY <1>4, <1>5
<1>7. Chan(R, q, Tail(p), Tail(h))
  BY <1>1, <1>2, <1>6, PopKept
<1> QED BY <1>2, <1>7

\* A fill that leaves something: no more than the row has left.
LEMMA TakeFill ==
    ASSUME NEW R, NEW q, NEW p \in Seq(Rep), p # <<>>, NEW B, Linked(R, q, p, B),
           NEW r \in R, r \in Row, r.id = p[1].id, \A x \in R : x.id = r.id => x = r,
           p[1].type = "Fill"
    PROVE  /\ p[1].qty \in 1..r.leaves
           /\ p[1].qty # r.leaves => Linked((R \ {r}) \cup {Traded(r, p[1].qty)}, q, Tail(p), B)
<1>1. PICK h \in Seq(Books) : /\ Chan(R, q, p, h) /\ h[Len(h)] = B
                              /\ ~Live => \A k \in 1..Len(h) : NoFills(h[k])
  BY DEF Linked
<1>2. /\ Popped(p, Tail(p)) /\ Popped(h, Tail(h)) /\ Len(p) > 0 /\ Tail(h)[1] = h[2]
      /\ \A T : Chan(T, q, Tail(p), Tail(h)) => Linked(T, q, Tail(p), B)
  BY <1>1, LinkPopped
<1>3. /\ Step(h[1], p[1], h[2]) /\ p[1].qty \in 1..r.leaves
      /\ r.id \in DOMAIN h[1] /\ Agrees(r, h[1][r.id])
  BY <1>1, <1>2, HeadFacts
<1>4. ASSUME p[1].qty # r.leaves
      PROVE  Linked((R \ {r}) \cup {Traded(r, p[1].qty)}, q, Tail(p), B)
  <2> DEFINE s == Traded(r, p[1].qty)
  <2>1. /\ s.id = r.id /\ s.side = r.side /\ s.px = r.px /\ s.leaves = r.leaves - p[1].qty
        /\ s.cum = r.cum + p[1].qty /\ s.pending = r.pending
        /\ s.newPx = r.newPx /\ s.newQty = r.newQty
    BY DEF Traded
  <2> HIDE DEF s
  <2>2. /\ r.id \in DOMAIN h[2]
        /\ h[2][r.id] = [side |-> h[1][r.id].side, px |-> h[1][r.id].px,
                         cum |-> h[1][r.id].cum + p[1].qty, leaves |-> h[1][r.id].leaves - p[1].qty]
    BY <1>3, <1>4 DEF Step, Agrees
  <2>3. Agrees(s, h[2][r.id])
    BY <1>3, <2>1, <2>2 DEF Agrees
  <2>4. Known(s, q, Tail(p), Tail(h))
    BY <1>2, <2>1, <2>2, <2>3 DEF Known
  <2>5. Amends(r, q, Tail(p), Tail(h))
    BY <1>1, <1>2, PopRows
  <2>6. Amends(s, q, Tail(p), Tail(h))
    BY <2>1, <2>5 DEF Amends
  <2>7. Chan((R \ {r}) \cup {s}, q, Tail(p), Tail(h))
    <3>1. \A x \in R : \E y \in (R \ {r}) \cup {s} : y.id = x.id
      BY <2>1
    <3>2. \A y \in (R \ {r}) \cup {s} : (y \in R /\ y.id # p[1].id)
                \/ (Known(y, q, Tail(p), Tail(h)) /\ Amends(y, q, Tail(p), Tail(h)))
      BY <2>4, <2>6
    <3> QED BY <1>1, <1>2, <3>1, <3>2, PopKept
  <2> QED BY <1>2, <2>7 DEF s
<1> QED BY <1>3, <1>4

\* Replaced: the venue took the terms the row remembers.
LEMMA TakeReplaced ==
    ASSUME NEW R, NEW q, NEW p \in Seq(Rep), p # <<>>, NEW B, Linked(R, q, p, B),
           NEW r \in R, r \in Row, r.id = p[1].id, \A x \in R : x.id = r.id => x = r,
           p[1].type = "Replaced"
    PROVE  /\ "replace" \in r.pending /\ r.newQty - r.cum \in Nat \ {0}
           /\ Linked((R \ {r}) \cup {Amended(r)}, q, Tail(p), B)
<1>1. PICK h \in Seq(Books) : /\ Chan(R, q, p, h) /\ h[Len(h)] = B
                              /\ ~Live => \A k \in 1..Len(h) : NoFills(h[k])
  BY DEF Linked
<1>2. /\ Popped(p, Tail(p)) /\ Popped(h, Tail(h)) /\ Len(p) > 0 /\ Tail(h)[1] = h[2] /\ h[2] \in Books
      /\ \A T : Chan(T, q, Tail(p), Tail(h)) => Linked(T, q, Tail(p), B)
  BY <1>1, LinkPopped
<1>3. /\ Step(h[1], p[1], h[2]) /\ Reply(r.id, p, h, 1) /\ "replace" \in r.pending
      /\ r.id \in DOMAIN h[1] /\ Agrees(r, h[1][r.id])
      /\ h[2][r.id].px = r.newPx /\ h[2][r.id].cum + h[2][r.id].leaves = r.newQty
  BY <1>1, <1>2, HeadFacts
<1>4. /\ r.id \in DOMAIN h[2] /\ h[2][r.id].side = r.side /\ h[2][r.id].cum = r.cum
  BY <1>3 DEF Step, Agrees
<1>5. h[2][r.id].leaves \in Nat \ {0} /\ r.cum \in Nat /\ r.newQty \in Nat
  <2>1. h[2][r.id] \in VOrder
    BY <1>2, <1>4, BookIs
  <2> QED BY <2>1, RowFields DEF VOrder
<1>6. h[2][r.id].leaves = r.newQty - r.cum
  BY <1>3, <1>4, <1>5
<1> DEFINE s == Amended(r)
<1>7. s.id = r.id /\ s.side = r.side /\ s.px = r.newPx /\ s.leaves = r.newQty - r.cum /\ s.cum = r.cum
  BY DEF Amended
<1> HIDE DEF s
<1>8. Known(s, q, Tail(p), Tail(h))
  <2>1. Agrees(s, h[2][r.id])
    BY <1>3, <1>4, <1>6, <1>7 DEF Agrees
  <2> QED BY <1>2, <1>4, <1>7, <2>1 DEF Known
<1>9. /\ \A k \in 1..Len(Tail(p)) : ~Reply(r.id, Tail(p), Tail(h), k)
      /\ \A j \in 1..Len(q) : ~Amend(r.id, q, j)
  BY <1>1, <1>2, <1>3, PopRows
<1>10. Amends(s, q, Tail(p), Tail(h))
  BY <1>7, <1>9 DEF Amends
<1>11. Chan((R \ {r}) \cup {s}, q, Tail(p), Tail(h))
  <2>1. \A x \in R : \E y \in (R \ {r}) \cup {s} : y.id = x.id
    BY <1>7
  <2>2. \A y \in (R \ {r}) \cup {s} : (y \in R /\ y.id # p[1].id)
              \/ (Known(y, q, Tail(p), Tail(h)) /\ Amends(y, q, Tail(p), Tail(h)))
    BY <1>8, <1>10
  <2> QED BY <1>1, <1>2, <2>1, <2>2, PopKept
<1> QED BY <1>2, <1>3, <1>5, <1>6, <1>11 DEF s

\* CancelReject: nothing is pending, and no amend is in flight.
LEMMA TakeCancelReject ==
    ASSUME NEW R, NEW q, NEW p \in Seq(Rep), p # <<>>, NEW B, Linked(R, q, p, B),
           NEW r \in R, r.id = p[1].id, \A x \in R : x.id = r.id => x = r,
           p[1].type = "CancelReject", NEW n, NEW px
    PROVE  Linked((R \ {r}) \cup {Marked(r, {}, px, n)}, q, Tail(p), B)
<1>1. PICK h \in Seq(Books) : /\ Chan(R, q, p, h) /\ h[Len(h)] = B
                              /\ ~Live => \A k \in 1..Len(h) : NoFills(h[k])
  BY DEF Linked
<1>2. /\ Popped(p, Tail(p)) /\ Popped(h, Tail(h)) /\ Len(p) > 0 /\ Tail(h)[1] = h[2]
      /\ \A T : Chan(T, q, Tail(p), Tail(h)) => Linked(T, q, Tail(p), B)
  BY <1>1, LinkPopped
<1>3. /\ Step(h[1], p[1], h[2]) /\ Reply(r.id, p, h, 1)
      /\ r.id \in DOMAIN h[1] /\ Agrees(r, h[1][r.id])
  BY <1>1, <1>2, HeadFacts
<1>4. h[2] = h[1]
  BY <1>3 DEF Step
<1> DEFINE s == Marked(r, {}, px, n)
<1>5. s.id = r.id /\ s.side = r.side /\ s.px = r.px /\ s.leaves = r.leaves /\ s.cum = r.cum
  BY DEF Marked
<1> HIDE DEF s
<1>6. Known(s, q, Tail(p), Tail(h))
  BY <1>2, <1>3, <1>4, <1>5 DEF Known, Agrees
<1>7. /\ \A k \in 1..Len(Tail(p)) : ~Reply(r.id, Tail(p), Tail(h), k)
      /\ \A j \in 1..Len(q) : ~Amend(r.id, q, j)
  BY <1>1, <1>2, <1>3, PopRows
<1>8. Amends(s, q, Tail(p), Tail(h))
  BY <1>5, <1>7 DEF Amends
<1>9. Chan((R \ {r}) \cup {s}, q, Tail(p), Tail(h))
  <2>1. \A x \in R : \E y \in (R \ {r}) \cup {s} : y.id = x.id
    BY <1>5
  <2>2. \A y \in (R \ {r}) \cup {s} : (y \in R /\ y.id # p[1].id)
              \/ (Known(y, q, Tail(p), Tail(h)) /\ Amends(y, q, Tail(p), Tail(h)))
    BY <1>6, <1>8
  <2> QED BY <1>1, <1>2, <2>1, <2>2, PopKept
<1> QED BY <1>2, <1>9 DEF s

-----------------------------------------------------------------------------
(* apply_report keeps the invariant.                                       *)

LEMMA RowsUnique ==
    ASSUME TableInv
    PROVE  /\ \A x \in RowSet(rows) : x \in Row
           /\ \A x, y \in RowSet(rows) : x.id = y.id => x = y
           /\ \A i \in 1..Len(rows) : rows[i] \in RowSet(rows)
           /\ DOMAIN rows = 1..Len(rows) /\ Len(rows) \in Nat
<1>1. DOMAIN rows = 1..Len(rows) /\ Len(rows) \in Nat /\ \A i \in 1..Len(rows) : rows[i] \in Row
  BY LenProperties, ElementOfSeq DEF TableInv
<1>2. Distinct(rows)
  BY DEF TableInv
<1> QED BY <1>1, <1>2 DEF RowSet, Distinct

LEMMA OnRow ==
    ASSUME TableInv, NEW i, NEW s \in Row, Updated(rows, rows', i, s), s.id = rows[i].id,
           "replace" \in s.pending => s.newQty \in Qty, nextId' = nextId
    PROVE  /\ TableInv' /\ RowSet(rows)' = (RowSet(rows) \ {rows[i]}) \cup {s}
           /\ rows[i] \in RowSet(rows)
<1>1. rows \in Seq(Row) /\ Distinct(rows)
  BY DEF TableInv
<1>2. Distinct(rows') /\ RowSet(rows') = (RowSet(rows) \ {rows[i]}) \cup {s}
  BY <1>1, UpdatedRows
<1>3. rows' \in Seq(Row) /\ Len(rows') = Len(rows) /\ i \in 1..Len(rows)
  BY DEF Updated
<1>4. rows[i] \in RowSet(rows)
  BY <1>3, RowsUnique
<1>5. \A r \in RowSet(rows') : r.id < nextId /\ ("replace" \in r.pending => r.newQty \in Qty)
  BY <1>2, <1>4 DEF TableInv
<1> QED BY <1>2, <1>3, <1>4, <1>5 DEF TableInv

LEMMA OffRow ==
    ASSUME TableInv, NEW i \in 1..Len(rows), rows' = SwapRemove(rows, i), nextId' = nextId
    PROVE  TableInv' /\ RowSet(rows)' = RowSet(rows) \ {rows[i]}
<1>1. rows \in Seq(Row) /\ Distinct(rows) /\ Len(rows) \in Nat
  BY RowsUnique DEF TableInv
<1>2. /\ rows' \in Seq(Row) /\ Len(rows') = Len(rows) - 1 /\ Distinct(rows')
      /\ RowSet(rows') = RowSet(rows) \ {rows[i]}
  BY <1>1, RemovedRows
<1>3. Len(rows') <= MaxRows
  <2>1. Len(rows) <= MaxRows /\ MaxRows \in Nat
    BY OrdersAssumption DEF TableInv
  <2> QED BY <1>1, <1>2, <2>1
<1> QED BY <1>2, <1>3 DEF TableInv

LEMMA PollWire ==
    ASSUME WireInv, reports # <<>>, reports' = Tail(reports), UNCHANGED <<nextId, requests>>
    PROVE  /\ WireInv' /\ reports \in Seq(Rep) /\ reports[1] \in Rep /\ Head(reports) = reports[1]
<1>1. /\ reports \in Seq(Rep) /\ reports' \in Seq(Rep) /\ Popped(reports, reports')
      /\ Head(reports) = reports[1] /\ reports[1] \in Rep
      /\ Len(reports) \in Nat /\ Len(reports') = Len(reports) - 1
  BY SeqPopped DEF WireInv
<1>2. \A k \in 1..Len(reports') : reports'[k] = reports[k + 1] /\ k + 1 \in 1..Len(reports)
  BY <1>1 DEF Popped
<1>3. \A k \in 1..Len(reports') : reports'[k].id < nextId
  BY <1>2 DEF WireInv
<1>4. ~Live => Len(reports') <= QUEUE
  BY <1>1, OrdersAssumption DEF WireInv
<1> QED BY <1>1, <1>3, <1>4 DEF WireInv

LEMMA RiskSame ==
    ASSUME RiskInv, UNCHANGED <<rows, open, accountVars>>, ~raced' => ~raced
    PROVE  RiskInv'
<1>1. \A d : Room(d)' = Room(d) /\ Slack(d)' = Slack(d)
  BY DEF Room, Slack, accountVars
<1> QED BY <1>1 DEF RiskInv

LEMMA AccountSame ==
    ASSUME AccountInv, UNCHANGED <<rows, open, accountVars>>
    PROVE  AccountInv'
BY DEF AccountInv, accountVars

\* finish, for whatever ends an order.
LEMMA FinishStep ==
    ASSUME TableInv, AccountInv, RiskInv, NEW i \in 1..Len(rows), Finish(i),
           nextId' = nextId, raced' = raced
    PROVE  TableInv' /\ AccountInv' /\ RiskInv' /\ RowSet(rows)' = RowSet(rows) \ {rows[i]}
<1> DEFINE r == rows[i]
<1>1. r \in Row /\ r \in RowSet(rows) /\ rows \in Seq(Row)
  BY RowsUnique DEF TableInv
<1>2. /\ rows' = SwapRemove(rows, i)
      /\ open' = [open EXCEPT ![r.side] = @ + (-r.leaves)]
      /\ reserved' = [reserved EXCEPT ![r.side] = @ - Reservation(r.side, r.px, r.leaves)]
      /\ UNCHANGED <<pos, total, slip>>
  BY DEF Finish, AddOpen
<1>3. TableInv' /\ RowSet(rows)' = RowSet(rows) \ {r}
  BY <1>2, OffRow
<1>4. r.leaves \in Nat /\ Reservation(r.side, r.px, r.leaves) \in Nat
  <2> HIDE DEF r
  <2>1. r.leaves \in Nat /\ r.px \in Nat
    BY ONLY <1>1, RowFields
  <2> QED BY ONLY <2>1 DEF Reservation
<1>5. pos' \in Int /\ total' \in [Side -> Int] /\ slip' \in Nat
  BY <1>2 DEF AccountInv
<1>6. AccountInv'
  <2>1. -r.leaves \in Int /\ Reservation(r.side, r.px, r.leaves) \in Int
    BY <1>4
  <2> QED BY <1>1, <1>2, <1>5, <2>1, AccountDel
<1>7. RiskInv'
  <2>1. \A x \in RowSet(rows) : x \in Row
    BY RowsUnique
  <2>2. RowSet(rows)' \subseteq RowSet(rows)
    BY <1>3
  <2> HIDE DEF r
  <2> QED BY <1>1, <1>2, <2>1, <2>2, RiskDel
<1> QED BY <1>3, <1>6, <1>7

LEMMA FillTypes ==
    ASSUME AccountInv, NEW d \in Side, NEW px \in Nat, NEW n \in Nat, NEW o \in Nat,
           AccountFill(d, px, n, o)
    PROVE  pos' \in Int /\ total' \in [Side -> Int] /\ slip' \in Nat
<1>1. total \in [Side -> Int] /\ pos \in Int /\ slip \in Nat
  BY DEF AccountInv
<1>2. pos' \in Int
  BY <1>1 DEF AccountFill
<1>3. total' \in [Side -> Int]
  <2> DEFINE sign == IF d = "buy" THEN 1 ELSE -1
             u == sign * n
             v == sign * px * n
  <2>1. u \in Int /\ v \in Int
    OBVIOUS
  <2>2. total' = [total EXCEPT !["sell"] = @ + u, !["buy"] = @ - v]
    BY DEF AccountFill
  <2> HIDE DEF u, v
  <2> DEFINE f == [total EXCEPT !["sell"] = @ + u]
  <2>3. f \in [Side -> Int]
    BY <1>1, <2>1 DEF Side
  <2>4. total' = [f EXCEPT !["buy"] = @ - v]
    BY <1>1, <2>2
  <2> HIDE DEF f
  <2> QED BY <2>1, <2>3, <2>4 DEF Side
<1>4. slip' \in Nat
  <2>1. slip' = IF d = "buy" /\ px > o THEN slip + (px - o) * n ELSE slip
    BY DEF AccountFill
  <2>2. CASE d = "buy" /\ px > o
    <3>1. px - o \in Nat
      BY <2>2
    <3>2. (px - o) * n \in Nat
      BY <3>1
    <3> QED BY <1>1, <2>1, <2>2, <3>2
  <2>3. CASE ~(d = "buy" /\ px > o)
    BY <1>1, <2>1, <2>3
  <2> QED BY <2>2, <2>3
<1> QED BY <1>2, <1>3, <1>4

LEMMA FillStep ==
    ASSUME TableInv, AccountInv, RiskInv, NEW i \in 1..Len(rows), NEW rep,
           rep.qty \in 1..rows[i].leaves, rep.px \in Nat, OnFill(i, rep), MeetsAmend,
           nextId' = nextId
    PROVE  /\ TableInv' /\ AccountInv' /\ RiskInv'
           /\ RowSet(rows)' = IF rep.qty = rows[i].leaves THEN RowSet(rows) \ {rows[i]}
                              ELSE (RowSet(rows) \ {rows[i]}) \cup {Traded(rows[i], rep.qty)}
<1> DEFINE r == rows[i]
           n == rep.qty
           d == r.side
<1>1. r \in Row /\ r \in RowSet(rows) /\ rows \in Seq(Row)
  BY RowsUnique DEF TableInv
<1>2. /\ d \in Side /\ r.px \in Nat /\ r.leaves \in Nat \ {0} /\ r.cum \in Nat
      /\ n \in Nat \ {0} /\ n <= r.leaves
  <2>1. n \in 1..r.leaves
    OBVIOUS
  <2> HIDE DEF r, n
  <2>2. d \in Side /\ r.px \in Nat /\ r.leaves \in Nat \ {0} /\ r.cum \in Nat
    BY ONLY <1>1, RowFields
  <2>3. n \in Nat \ {0} /\ n <= r.leaves
    BY ONLY <2>1, <2>2
  <2> QED BY <2>2, <2>3
<1>t. open \in [Side -> Int] /\ reserved \in [Side -> Int]
  BY DEF AccountInv
<1> DEFINE left == IF r.leaves > n THEN r.leaves - n ELSE 0
<1>3. /\ AccountFill(d, rep.px, n, r.px)
      /\ open' = [open EXCEPT ![d] = @ + (left - r.leaves)]
      /\ rows' = IF left = 0 THEN SwapRemove(rows, i)
                 ELSE [rows EXCEPT ![i].cum = @ + n, ![i].leaves = left]
  BY DEF OnFill, AddOpen
<1>4. left = r.leaves - n /\ left - r.leaves = -n /\ (left = 0 <=> n = r.leaves) /\ left \in Nat
  BY <1>2
<1> HIDE DEF left
<1>5. open' = [open EXCEPT ![d] = @ + (-n)] /\ open' = [open EXCEPT ![d] = @ - n]
  <2>1. open' = [open EXCEPT ![d] = @ + (-n)]
    BY <1>3, <1>4
  <2>2. open[d] + (-n) = open[d] - n
    BY <1>2, <1>t
  <2> QED BY <2>1, <2>2
<1>6. pos' \in Int /\ total' \in [Side -> Int] /\ slip' \in Nat
  BY <1>2, <1>3, FillTypes
<1>7. reserved' = [reserved EXCEPT ![d] = @ - Reservation(d, r.px, n)]
  BY <1>3 DEF AccountFill
<1>8. Reservation(d, r.px, n) \in Nat /\ Reservation(d, r.px, r.leaves) \in Nat
  BY <1>2 DEF Reservation
<1>9. CASE n = r.leaves
  <2>1. rows' = SwapRemove(rows, i)
    BY <1>3, <1>4, <1>9
  <2>2. TableInv' /\ RowSet(rows)' = RowSet(rows) \ {r}
    BY <2>1, OffRow
  <2>3. AccountInv'
    <3>1. /\ -n \in Int /\ -n = -r.leaves
          /\ Reservation(d, r.px, n) \in Int /\ Reservation(d, r.px, n) = Reservation(d, r.px, r.leaves)
      BY <1>2, <1>8, <1>9
    <3> HIDE DEF n
    <3> QED BY <1>1, <1>5, <1>6, <1>7, <2>1, <3>1, AccountDel
  <2>4. RiskInv'
    <3>1. \A x \in RowSet(rows)' : x \in RowSet(rows) \/ x.pending = r.pending
      BY <2>2
    <3> QED BY <1>1, <1>2, <1>3, <1>5, <3>1, RiskFill
  <2> QED BY <1>9, <2>2, <2>3, <2>4
<1>10. CASE n # r.leaves
  <2> DEFINE s == Traded(r, n)
  <2>1. rows' = [rows EXCEPT ![i] = s]
    <3>1. rows' = [rows EXCEPT ![i].cum = @ + n, ![i].leaves = left]
      BY <1>3, <1>4, <1>10
    <3>2. [rows EXCEPT ![i].cum = @ + n, ![i].leaves = left] = [rows EXCEPT ![i] = Traded(rows[i], n)]
      <4>1. /\ DOMAIN rows = 1..Len(rows) /\ left = r.leaves - n
            /\ DOMAIN r = {"id", "side", "px", "qty", "leaves", "cum", "pending", "newPx", "newQty"}
        BY <1>1, <1>4, RowsUnique, RowFields
      <4>2. [r EXCEPT !.cum = @ + n, !.leaves = left] = Traded(r, n)
        <5> HIDE DEF n, r
        <5>1. [r EXCEPT !.cum = @ + n, !.leaves = left] =
                 [f \in DOMAIN r |-> IF f = "leaves" THEN left ELSE IF f = "cum" THEN r.cum + n ELSE r[f]]
          BY ONLY <4>1
        <5> QED BY ONLY <4>1, <5>1 DEF Traded
      <4> HIDE DEF n
      <4> QED BY ONLY <4>1, <4>2, i \in 1..Len(rows)
    <3> QED BY <3>1, <3>2
  <2>2. /\ s.id = r.id /\ s.side = r.side /\ s.px = r.px /\ s.qty = r.qty /\ s.leaves = r.leaves - n
        /\ s.cum = r.cum + n /\ s.pending = r.pending /\ s.newPx = r.newPx /\ s.newQty = r.newQty
    BY DEF Traded
  <2>3. s \in Row
    <3>1. r.leaves - n \in Nat \ {0} /\ r.cum + n \in Nat
      BY <1>2, <1>10
    <3>2. /\ r.id \in Id /\ r.side \in Side /\ r.px \in Nat /\ r.qty \in Qty
          /\ r.newPx \in Nat /\ r.newQty \in Nat /\ r.pending \in SUBSET {"cancel", "replace"}
      BY <1>1, RowFields
    <3> QED BY <3>1, <3>2 DEF Traded, Row
  <2> HIDE DEF s
  <2>4. Updated(rows, rows', i, s)
    BY <1>1, <2>1, <2>3, UpdateRow
  <2>5. TableInv' /\ RowSet(rows)' = (RowSet(rows) \ {r}) \cup {s}
    <3>1. "replace" \in s.pending => s.newQty \in Qty
      BY <1>1, <2>2 DEF TableInv
    <3> QED BY <2>2, <2>3, <2>4, <3>1, OnRow
  <2>6. AccountInv'
    <3> DEFINE v == Reservation(d, r.px, n)
    <3>1. -n \in Int /\ -n = s.leaves - r.leaves /\ v \in Nat
      BY <1>2, <1>8, <2>2
    <3>2. -v = Reservation(s.side, s.px, s.leaves) - Reservation(s.side, r.px, r.leaves)
      <4>1. CASE d = "buy"
        <5>1. r.px * (r.leaves - n) = r.px * r.leaves - r.px * n
          BY <1>2
        <5>2. r.px * r.leaves \in Int /\ r.px * n \in Int
          BY <1>2
        <5>3. v = r.px * n /\ Reservation(s.side, s.px, s.leaves) = r.px * (r.leaves - n)
              /\ Reservation(s.side, r.px, r.leaves) = r.px * r.leaves
          BY <2>2, <4>1 DEF Reservation
        <5> HIDE DEF v
        <5> QED BY ONLY <5>1, <5>2, <5>3
      <4>2. CASE d # "buy"
        <5>1. v = n /\ Reservation(s.side, s.px, s.leaves) = r.leaves - n
              /\ Reservation(s.side, r.px, r.leaves) = r.leaves
          BY <2>2, <4>2 DEF Reservation
        <5> HIDE DEF v
        <5> QED BY ONLY <1>2, <5>1
      <4> QED BY <4>1, <4>2
    <3> HIDE DEF v
    <3>3. reserved' = [reserved EXCEPT ![s.side] = @ + (-v)]
      <4>1. reserved[d] - v = reserved[d] + (-v)
        BY <1>2, <1>t, <3>1
      <4> QED BY <1>7, <2>2, <4>1 DEF v
    <3>4. open' = [open EXCEPT ![s.side] = @ + (-n)]
      BY <1>5, <2>2
    <3>5. -v \in Int
      BY <3>1
    <3> HIDE DEF n
    <3> QED BY <1>1, <1>6, <2>2, <2>3, <2>4, <3>1, <3>2, <3>3, <3>4, <3>5, AccountSet
  <2>7. RiskInv'
    <3>1. \A x \in RowSet(rows)' : x \in RowSet(rows) \/ x.pending = r.pending
      BY <2>2, <2>5
    <3> QED BY <1>1, <1>2, <1>3, <1>5, <3>1, RiskFill
  <2> QED BY <1>10, <2>5, <2>6, <2>7 DEF s
<1> QED BY <1>9, <1>10

LEMMA ReplacedStep ==
    ASSUME TableInv, AccountInv, RiskInv, NEW i \in 1..Len(rows), OnReplaced(i),
           Amending(rows[i]), rows[i].newQty - rows[i].cum \in Nat \ {0},
           nextId' = nextId, raced' = raced
    PROVE  /\ TableInv' /\ AccountInv' /\ RiskInv'
           /\ RowSet(rows)' = (RowSet(rows) \ {rows[i]}) \cup {Amended(rows[i])}
<1> DEFINE r == rows[i]
           s == Amended(r)
           l == r.newQty - r.cum
<1>1. r \in Row /\ r \in RowSet(rows) /\ rows \in Seq(Row)
  BY RowsUnique DEF TableInv
<1>2. /\ r.id \in Id /\ r.side \in Side /\ r.px \in Nat /\ r.leaves \in Nat /\ r.cum \in Nat
      /\ r.newPx \in Nat /\ r.newQty \in Nat /\ r.pending \in SUBSET {"cancel", "replace"}
  BY <1>1, RowFields
<1>q. r.newQty \in Qty
  BY <1>1 DEF TableInv, Amending
<1>t. open \in [Side -> Int] /\ reserved \in [Side -> Int]
  BY DEF AccountInv
<1>3. /\ rows' = [rows EXCEPT ![i].px = r.newPx, ![i].qty = r.newQty, ![i].leaves = l,
                              ![i].pending = @ \ {"replace"}]
      /\ open' = [open EXCEPT ![r.side] = @ + (l - r.leaves)]
      /\ reserved' = [reserved EXCEPT ![r.side] = @ - Reservation(r.side, r.px, r.leaves)
                                                    + Reservation(r.side, r.newPx, l)]
      /\ UNCHANGED <<pos, total, slip>>
  BY DEF OnReplaced, AddOpen
<1>4. rows' = [rows EXCEPT ![i] = s]
  BY <1>1, <1>3, WriteAmended
<1>5. /\ s.id = r.id /\ s.side = r.side /\ s.px = r.newPx /\ s.leaves = l
      /\ s.pending = r.pending \ {"replace"}
  BY DEF Amended
<1>6. s \in Row
  <2>1. l \in Nat \ {0} /\ r.pending \ {"replace"} \in SUBSET {"cancel", "replace"}
    BY <1>2
  <2> HIDE DEF l
  <2>2. s = [id |-> r.id, side |-> r.side, px |-> r.newPx, qty |-> r.newQty, leaves |-> l,
             cum |-> r.cum, pending |-> r.pending \ {"replace"}, newPx |-> r.newPx, newQty |-> r.newQty]
    BY DEF Amended, l
  <2> HIDE DEF s
  <2> QED BY <1>2, <1>q, <2>1, <2>2 DEF Row
<1>7. Updated(rows, rows', i, s)
  BY <1>1, <1>4, <1>6, UpdateRow
<1>8. TableInv' /\ RowSet(rows)' = (RowSet(rows) \ {r}) \cup {s}
  <2>1. "replace" \notin s.pending
    BY <1>5
  <2> HIDE DEF s
  <2> QED BY <1>5, <1>6, <1>7, <2>1, OnRow
<1>9. /\ MoreLots(r) = l - r.leaves /\ MoreLots(r) \in Int
      /\ MoreFunds(r) = Reservation(r.side, r.newPx, l) - Reservation(r.side, r.px, r.leaves)
      /\ Reservation(r.side, r.newPx, l) \in Nat /\ Reservation(r.side, r.px, r.leaves) \in Nat
  <2>1. l \in Nat
    OBVIOUS
  <2>2. \A x, y \in Nat : Reservation(r.side, x, y) \in Nat
    BY DEF Reservation
  <2>3. Reservation(r.side, r.newPx, l) \in Nat /\ Reservation(r.side, r.px, r.leaves) \in Nat
    <3> HIDE DEF l
    <3> QED BY ONLY <1>2, <2>1, <2>2
  <2>4. MoreLots(r) = l - r.leaves
    BY DEF MoreLots
  <2>5. MoreLots(r) \in Int
    <3> HIDE DEF l
    <3> QED BY ONLY <1>2, <2>1, <2>4
  <2>6. MoreFunds(r) = Reservation(r.side, r.newPx, l) - Reservation(r.side, r.px, r.leaves)
    BY DEF MoreFunds
  <2> HIDE DEF l
  <2> QED BY ONLY <2>3, <2>4, <2>5, <2>6
<1>10. /\ open' = [open EXCEPT ![r.side] = @ + MoreLots(r)]
       /\ reserved' = [reserved EXCEPT ![r.side] = @ + MoreFunds(r)] /\ MoreFunds(r) \in Int
  <2> DEFINE u == Reservation(r.side, r.newPx, l)
             v == Reservation(r.side, r.px, r.leaves)
  <2>1. u \in Nat /\ v \in Nat /\ MoreFunds(r) = u - v /\ reserved' = [reserved EXCEPT ![r.side] = @ - v + u]
    BY <1>3, <1>9
  <2> HIDE DEF u, v
  <2>2. reserved[r.side] \in Int
    BY <1>2, <1>t
  <2>3. MoreFunds(r) \in Int /\ reserved[r.side] - v + u = reserved[r.side] + MoreFunds(r)
    BY ONLY <2>1, <2>2
  <2>4. reserved' = [reserved EXCEPT ![r.side] = @ + MoreFunds(r)]
    BY <2>1, <2>3
  <2> QED BY <1>3, <1>9, <2>3, <2>4
<1>11. AccountInv'
  <2>1. pos' \in Int /\ total' \in [Side -> Int] /\ slip' \in Nat
    BY <1>3 DEF AccountInv
  <2>2. /\ MoreLots(r) = s.leaves - r.leaves
        /\ MoreFunds(r) = Reservation(s.side, s.px, s.leaves) - Reservation(s.side, r.px, r.leaves)
    BY <1>5, <1>9
  <2>3. /\ open' = [open EXCEPT ![s.side] = @ + MoreLots(r)]
        /\ reserved' = [reserved EXCEPT ![s.side] = @ + MoreFunds(r)]
    BY <1>5, <1>10
  <2> DEFINE a == MoreLots(r)
             b == MoreFunds(r)
  <2>4. a \in Int /\ b \in Int
    BY <1>9, <1>10
  <2>5. /\ open' = [open EXCEPT ![s.side] = @ + a] /\ a = s.leaves - r.leaves
        /\ reserved' = [reserved EXCEPT ![s.side] = @ + b]
        /\ b = Reservation(s.side, s.px, s.leaves) - Reservation(s.side, r.px, r.leaves)
        /\ s.side = rows[i].side
    BY <1>5, <2>2, <2>3
  <2> HIDE DEF s, l, a, b
  <2> QED BY ONLY AccountInv, <1>1, <1>6, <1>7, <2>1, <2>4, <2>5, AccountSet
<1>12. RiskInv'
  <2> HIDE DEF r
  <2>1. UNCHANGED <<pos, total, slip>>
    BY <1>3
  <2> QED BY <1>1, <1>8, <1>10, <2>1, RiskAmended DEF r
<1> QED BY <1>8, <1>11, <1>12

\* A row is marked: by a request of the strategy or by a refusal of the venue.
LEMMA MarkRow ==
    ASSUME TableInv, AccountInv, NEW i \in 1..Len(rows), NEW m \in SUBSET {"cancel", "replace"},
           NEW px \in Nat, NEW n \in Nat, rows' = [rows EXCEPT ![i] = Marked(rows[i], m, px, n)],
           "replace" \in m => n \in Qty, UNCHANGED <<open, nextId, accountVars>>
    PROVE  /\ TableInv' /\ AccountInv'
           /\ RowSet(rows)' = (RowSet(rows) \ {rows[i]}) \cup {Marked(rows[i], m, px, n)}
<1> DEFINE r == rows[i]
           s == Marked(r, m, px, n)
<1>1. r \in Row /\ r \in RowSet(rows) /\ rows \in Seq(Row)
  BY RowsUnique DEF TableInv
<1>2. /\ s.id = r.id /\ s.side = r.side /\ s.px = r.px /\ s.leaves = r.leaves /\ s.cum = r.cum
      /\ s.pending = m /\ s.newPx = px /\ s.newQty = n
  BY DEF Marked
<1>3. s \in Row
  <2>1. /\ r.id \in Id /\ r.side \in Side /\ r.px \in Nat /\ r.qty \in Qty
        /\ r.leaves \in Nat \ {0} /\ r.cum \in Nat
    BY <1>1, RowFields
  <2> QED BY <2>1 DEF Marked, Row
<1>4. Updated(rows, rows', i, s)
  BY <1>1, <1>3, UpdateRow
<1> HIDE DEF s
<1>5. TableInv' /\ RowSet(rows)' = (RowSet(rows) \ {r}) \cup {s}
  BY <1>2, <1>3, <1>4, OnRow
<1>6. AccountInv'
  <2>1. open \in [Side -> Int] /\ reserved \in [Side -> Int] /\ s.side \in Side
    BY <1>3, RowFields DEF AccountInv
  <2>2. /\ open' = [open EXCEPT ![s.side] = @ + 0] /\ reserved' = [reserved EXCEPT ![s.side] = @ + 0]
    <3>1. open[s.side] + 0 = open[s.side] /\ reserved[s.side] + 0 = reserved[s.side]
      BY <2>1
    <3> QED BY <2>1, <3>1 DEF accountVars
  <2>3. r.leaves \in Nat /\ r.px \in Nat /\ Reservation(s.side, r.px, r.leaves) \in Nat
    <3> HIDE DEF r
    <3>1. r.leaves \in Nat /\ r.px \in Nat
      BY ONLY <1>1, RowFields
    <3> QED BY ONLY <3>1 DEF Reservation
  <2> DEFINE z == 0
             v == Reservation(s.side, r.px, r.leaves)
  <2>v. v \in Nat /\ Reservation(s.side, s.px, s.leaves) = v
    BY <1>2, <2>3
  <2> HIDE DEF v
  <2>z. z = r.leaves - r.leaves /\ z \in Int /\ z = v - v
    BY ONLY <2>3, <2>v
  <2>4. /\ z = s.leaves - r.leaves /\ z \in Int /\ s.side = rows[i].side
        /\ z = Reservation(s.side, s.px, s.leaves) - Reservation(s.side, r.px, r.leaves)
        /\ open' = [open EXCEPT ![s.side] = @ + z] /\ reserved' = [reserved EXCEPT ![s.side] = @ + z]
    BY <1>2, <2>2, <2>v, <2>z DEF v
  <2>5. pos' \in Int /\ total' \in [Side -> Int] /\ slip' \in Nat
    BY DEF AccountInv, accountVars
  <2> HIDE DEF z
  <2> QED BY ONLY AccountInv, <1>1, <1>3, <1>4, <2>4, <2>5, AccountSet
<1> QED BY <1>5, <1>6 DEF s

\* apply_report, whatever the report says.
LEMMA PollStep ==
    ASSUME TableInv, WireInv, ChanInv, AccountInv, RiskInv, reports # <<>>,
           ApplyReport(Head(reports)), reports' = Tail(reports),
           IF Head(reports).type = "Fill" THEN MeetsAmend ELSE UNCHANGED raced,
           UNCHANGED <<nextId, requests, book>>
    PROVE  TableInv' /\ WireInv' /\ ChanInv' /\ AccountInv' /\ RiskInv'
<1> DEFINE m == reports[1]
           R == RowSet(rows)
           Kept == /\ TableInv' /\ AccountInv' /\ RiskInv'
           Follows(S) == \A B : Linked(R, requests, reports, B) => Linked(S, requests, Tail(reports), B)
<1>1. /\ WireInv' /\ reports \in Seq(Rep) /\ m \in Rep /\ Head(reports) = m
  BY PollWire
<1>2. m.type \in ReportTypes /\ m.id \in Id /\ m.px \in Nat /\ m.qty \in Nat
  BY <1>1 DEF Rep
<1>3. ApplyReport(m) /\ (IF m.type = "Fill" THEN MeetsAmend ELSE UNCHANGED raced) /\ nextId' = nextId
  BY <1>1
<1>4. ~raced' => ~raced
  BY <1>3 DEF MeetsAmend
<1>5. DOMAIN rows = 1..Len(rows)
  BY RowsUnique
<1>6. SUFFICES Kept /\ Follows(RowSet(rows)')
  <2>1. PICK B : (Live => B = book) /\ Linked(R, requests, reports, B)
    BY DEF ChanInv
  <2>2. Linked(RowSet(rows)', requests', reports', B) /\ (Live => B = book')
    BY <1>6, <2>1
  <2>3. ChanInv'
    BY <2>2 DEF ChanInv
  <2> QED BY <1>1, <1>6, <2>3
<1>7. CASE m.id \notin LiveIds
  <2>1. UNCHANGED <<rows, open, accountVars>>
    BY <1>3, <1>7 DEF ApplyReport
  <2>2. \A x \in R : x.id # m.id
    BY <1>5, <1>7 DEF LiveIds, RowSet
  <2>3. Follows(R)
    BY <1>1, <2>2, TakeUnknown
  <2>4. AccountInv' /\ RiskInv'
    BY <1>4, <2>1, AccountSame, RiskSame
  <2>5. TableInv' /\ RowSet(rows)' = R
    BY <1>3, <2>1 DEF TableInv
  <2> QED BY <2>3, <2>4, <2>5
<1>8. CASE m.id \in LiveIds
  <2> DEFINE i == PosOf(m.id)
             r == rows[i]
  <2>1. i \in 1..Len(rows) /\ r.id = m.id
    <3>1. \E k \in DOMAIN rows : rows[k].id = m.id
      BY <1>8 DEF LiveIds
    <3> QED BY <1>5, <3>1 DEF PosOf
  <2>2. /\ m.type = "Ack" => UNCHANGED <<rows, open, accountVars>>
        /\ m.type = "Fill" => OnFill(i, m)
        /\ m.type = "Replaced" => OnReplaced(i)
        /\ m.type = "CancelReject" => OnCancelReject(i)
        /\ m.type \in {"Reject", "Canceled", "Expired"} => Finish(i)
    BY <1>3, <1>8 DEF ApplyReport
  <2> HIDE DEF i
  <2>3. /\ r \in R /\ r \in Row /\ \A x \in R : x.id = r.id => x = r
    BY <2>1, RowsUnique
  <2>4. CASE m.type = "Ack"
    <3>1. UNCHANGED <<rows, open, accountVars>>
      BY <2>2, <2>4
    <3>2. Follows(R)
      BY <1>1, <2>1, <2>3, <2>4, TakeAck
    <3>3. AccountInv' /\ RiskInv'
      BY <1>4, <3>1, AccountSame, RiskSame
    <3>4. TableInv' /\ RowSet(rows)' = R
      BY <1>3, <3>1 DEF TableInv
    <3> QED BY <3>2, <3>3, <3>4
  <2>5. CASE m.type = "Fill"
    <3>1. \A B : Linked(R, requests, reports, B) =>
             /\ m.qty \in 1..r.leaves
             /\ m.qty # r.leaves => Linked((R \ {r}) \cup {Traded(r, m.qty)}, requests, Tail(reports), B)
      <4> HIDE DEF R, r, m
      <4> QED BY <1>1, <2>1, <2>3, <2>5, TakeFill DEF m
    <3>2. m.qty \in 1..r.leaves
      BY <3>1 DEF ChanInv
    <3>3. /\ Kept
          /\ RowSet(rows)' = IF m.qty = r.leaves THEN R \ {r} ELSE (R \ {r}) \cup {Traded(r, m.qty)}
      <4>1. OnFill(i, m) /\ MeetsAmend
        BY <1>3, <2>2, <2>5
      <4> HIDE DEF m
      <4> QED BY <1>2, <1>3, <2>1, <3>2, <4>1, FillStep
    <3>4. CASE m.qty = r.leaves
      <4>1. Follows(R \ {r})
        BY <1>1, <2>1, <2>3, <2>5, <3>4, TakeLast
      <4> QED BY <3>3, <3>4, <4>1
    <3>5. CASE m.qty # r.leaves
      BY <3>1, <3>3, <3>5
    <3> QED BY <3>4, <3>5
  <2>6. CASE m.type = "Replaced"
    <3>1. \A B : Linked(R, requests, reports, B) =>
             /\ "replace" \in r.pending /\ r.newQty - r.cum \in Nat \ {0}
             /\ Linked((R \ {r}) \cup {Amended(r)}, requests, Tail(reports), B)
      <4> HIDE DEF R, r, m
      <4> QED BY <1>1, <2>1, <2>3, <2>6, TakeReplaced DEF m
    <3>2. Amending(r) /\ r.newQty - r.cum \in Nat \ {0}
      BY <3>1 DEF ChanInv, Amending
    <3>3. Kept /\ RowSet(rows)' = (R \ {r}) \cup {Amended(r)}
      <4>1. OnReplaced(i) /\ raced' = raced
        BY <1>3, <2>2, <2>6
      <4> QED BY <1>3, <2>1, <3>2, <4>1, ReplacedStep
    <3> QED BY <3>1, <3>3
  <2>7. CASE m.type = "CancelReject"
    <3> DEFINE s == Marked(r, {}, r.newPx, r.newQty)
    <3>1. rows' = [rows EXCEPT ![i].pending = {}] /\ UNCHANGED <<open, accountVars>>
      BY <2>2, <2>7 DEF OnCancelReject
    <3>2. rows' = [rows EXCEPT ![i] = s]
      <4>1. rows \in Seq(Row) /\ i \in 1..Len(rows)
        BY <2>1 DEF TableInv
      <4>2. [rows EXCEPT ![i].pending = {}]
               = [rows EXCEPT ![i] = Marked(rows[i], {}, rows[i].newPx, rows[i].newQty)]
        BY ONLY <4>1, WriteMarked
      <4> QED BY <3>1, <4>2
    <3>3. r.newPx \in Nat /\ r.newQty \in Nat
      BY <2>3, RowFields
    <3>4. TableInv' /\ AccountInv' /\ RowSet(rows)' = (R \ {r}) \cup {s}
      <4>1. "replace" \notin {} /\ {} \in SUBSET {"cancel", "replace"}
        OBVIOUS
      <4> QED BY <1>3, <2>1, <3>1, <3>2, <3>3, <4>1, MarkRow
    <3>5. RiskInv'
      <4>1. ~Amending(s)
        BY DEF Amending, Marked
      <4>2. UNCHANGED <<pos, total, reserved, slip, open, raced>>
        BY <1>3, <2>7, <3>1 DEF accountVars
      <4> HIDE DEF s
      <4> QED BY <2>3, <3>4, <4>1, <4>2, RiskKeep
    <3>6. Follows((R \ {r}) \cup {s})
      <4> HIDE DEF R, r, m
      <4> QED BY <1>1, <2>1, <2>3, <2>7, TakeCancelReject DEF m
    <3> QED BY <3>4, <3>5, <3>6
  <2>8. CASE m.type \in {"Reject", "Canceled", "Expired"}
    <3>1. Kept /\ RowSet(rows)' = R \ {r}
      <4>1. Finish(i) /\ raced' = raced
        BY <1>3, <2>2, <2>8
      <4> QED BY <1>3, <2>1, <4>1, FinishStep
    <3>2. Follows(R \ {r})
      BY <1>1, <2>1, <2>3, <2>8, TakeLast
    <3> QED BY <3>1, <3>2
  <2> QED BY <1>2, <2>4, <2>5, <2>6, <2>7, <2>8 DEF ReportTypes
<1> QED BY <1>7, <1>8

-----------------------------------------------------------------------------
(* What the strategy asks for keeps the invariant.                         *)

LEMMA Concat ==
    ASSUME NEW S, NEW p \in Seq(S), NEW a \in S, NEW b \in S
    PROVE  /\ p \o <<a>> = Append(p, a) /\ Append(p, a) \in Seq(S)
           /\ p \o <<a, b>> = Append(Append(p, a), b) /\ Append(Append(p, a), b) \in Seq(S)
<1>1. p \o <<a>> = Append(p, a) /\ Append(p, a) \in Seq(S) /\ Append(Append(p, a), b) \in Seq(S)
  BY AppendIsConcat, AppendProperties
<1>2. <<a>> \in Seq(S) /\ <<b>> \in Seq(S) /\ <<a>> \o <<b>> = <<a, b>>
  <2>1. <<a>> \in Seq(S) /\ <<b>> \in Seq(S)
    OBVIOUS
  <2>2. Append(<<a>>, b) = <<a, b>>
    <3> DEFINE t == Append(<<a>>, b)
    <3>1. t \in Seq(S) /\ Len(t) = 2 /\ t[1] = a /\ t[2] = b
      BY <2>1
    <3>2. <<a, b>> \in Seq(S) /\ Len(<<a, b>>) = 2 /\ <<a, b>>[1] = a /\ <<a, b>>[2] = b
      OBVIOUS
    <3> HIDE DEF t
    <3>3. \A i \in 1..Len(t) : t[i] = <<a, b>>[i]
      <4>1. \A i \in 1..2 : i = 1 \/ i = 2
        OBVIOUS
      <4> QED BY <3>1, <3>2, <4>1
    <3> QED BY <3>1, <3>2, <3>3, SeqEqual DEF t
  <2>3. Append(<<a>>, b) = <<a>> \o <<b>>
    BY <2>1, AppendIsConcat
  <2> QED BY <2>1, <2>2, <2>3
<1>3. Append(Append(p, a), b) = (p \o <<a>>) \o <<b>>
  BY <1>1, AppendIsConcat
<1>4. (p \o <<a>>) \o <<b>> = p \o (<<a>> \o <<b>>)
  BY <1>2, ConcatAssociative
<1> QED BY <1>1, <1>2, <1>3, <1>4

LEMMA ReportType ==
    ASSUME NEW t \in ReportTypes, NEW id \in Id
    PROVE  Report(t, id) \in Rep /\ Report(t, id).type = t /\ Report(t, id).id = id
BY DEF Report, Rep

\* The NullRouter's answers.
LEMMA AnswersAre ==
    ASSUME NEW req \in Req, NEW p \in Seq(Rep)
    PROVE  /\ req.type = "New" /\ req.tif = "GTC" =>
                p \o Answers(req) = Append(p, Report("Ack", req.id))
           /\ req.type = "New" /\ req.tif = "IOC" =>
                p \o Answers(req) = Append(Append(p, Report("Ack", req.id)), Report("Expired", req.id))
           /\ req.type = "Cancel" => p \o Answers(req) = Append(p, Report("Canceled", req.id))
           /\ req.type = "Replace" => p \o Answers(req) = Append(p, Report("Replaced", req.id))
           /\ Answers(req) \in Seq(Rep) /\ \A k \in 1..Len(Answers(req)) : Answers(req)[k].id = req.id
<1>1. req.type \in {"New", "Cancel", "Replace"} /\ req.tif \in {"GTC", "IOC"} /\ req.id \in Id
  BY DEF Req
<1>2. /\ req.type = "New" /\ req.tif = "GTC" => Answers(req) = <<Report("Ack", req.id)>>
      /\ req.type = "New" /\ req.tif = "IOC" =>
            Answers(req) = <<Report("Ack", req.id), Report("Expired", req.id)>>
      /\ req.type = "Cancel" => Answers(req) = <<Report("Canceled", req.id)>>
      /\ req.type = "Replace" => Answers(req) = <<Report("Replaced", req.id)>>
  BY DEF Answers
<1> DEFINE A == Report("Ack", req.id)
           E == Report("Expired", req.id)
           C == Report("Canceled", req.id)
           D == Report("Replaced", req.id)
<1>3. /\ A \in Rep /\ E \in Rep /\ C \in Rep /\ D \in Rep
      /\ A.id = req.id /\ E.id = req.id /\ C.id = req.id /\ D.id = req.id
  BY <1>1, ReportType DEF ReportTypes
<1> HIDE DEF A, E, C, D
<1>4. /\ p \o <<A>> = Append(p, A) /\ p \o <<A, E>> = Append(Append(p, A), E)
      /\ p \o <<C>> = Append(p, C) /\ p \o <<D>> = Append(p, D)
  BY <1>3, Concat
<1>5. Answers(req) \in {<<A>>, <<A, E>>, <<C>>, <<D>>}
  BY <1>1, <1>2 DEF A, E, C, D
<1>6. \A s \in {<<A>>, <<A, E>>, <<C>>, <<D>>} : s \in Seq(Rep) /\ \A k \in 1..Len(s) : s[k].id = req.id
  <2>1. \A a, b \in Rep : /\ <<a>> \in Seq(Rep) /\ Len(<<a>>) = 1 /\ <<a>>[1] = a
                          /\ <<a, b>> \in Seq(Rep) /\ Len(<<a, b>>) = 2
                          /\ <<a, b>>[1] = a /\ <<a, b>>[2] = b
    OBVIOUS
  <2>2. \A k \in 1..1 : k = 1
    OBVIOUS
  <2>3. \A k \in 1..2 : k = 1 \/ k = 2
    OBVIOUS
  <2>4. ASSUME NEW a \in Rep, a.id = req.id
        PROVE  <<a>> \in Seq(Rep) /\ \A k \in 1..Len(<<a>>) : <<a>>[k].id = req.id
    BY <2>1, <2>2, <2>4
  <2>5. <<A, E>> \in Seq(Rep) /\ \A k \in 1..Len(<<A, E>>) : <<A, E>>[k].id = req.id
    BY <1>3, <2>1, <2>3
  <2> TAKE s \in {<<A>>, <<A, E>>, <<C>>, <<D>>}
  <2>6. CASE s = <<A>>
    BY <1>3, <2>4, <2>6
  <2>7. CASE s = <<A, E>>
    BY <2>5, <2>7
  <2>8. CASE s = <<C>>
    BY <1>3, <2>4, <2>8
  <2>9. CASE s = <<D>>
    BY <1>3, <2>4, <2>9
  <2> QED BY <2>6, <2>7, <2>8, <2>9
<1> QED BY <1>2, <1>4, <1>5, <1>6 DEF A, E, C, D

LEMMA RouteWire ==
    ASSUME WireInv, NEW req \in Req, HasRoom(req), Route(req), nextId \in Nat, nextId' \in Nat,
           nextId <= nextId', req.id < nextId'
    PROVE  WireInv' /\ book' = book
<1>1. /\ requests \in Seq(Req) /\ Len(requests) <= QUEUE /\ reports \in Seq(Rep)
      /\ \A j \in 1..Len(requests) : requests[j].id < nextId
      /\ \A k \in 1..Len(reports) : reports[k].id < nextId
      /\ ~Live => requests = <<>> /\ Len(reports) <= QUEUE
      /\ QUEUE \in Nat /\ Len(requests) \in Nat /\ Len(reports) \in Nat
  BY OrdersAssumption, LenProperties DEF WireInv
<1>2. /\ \A j \in 1..Len(requests) : requests[j].id < nextId'
      /\ \A k \in 1..Len(reports) : reports[k].id < nextId'
  <2>1. \A j \in 1..Len(requests) : requests[j].id \in Nat
    <3>1. \A j \in 1..Len(requests) : requests[j] \in Req
      BY <1>1, ElementOfSeq
    <3>2. \A x \in Req : x.id \in Nat
      BY OrdersAssumption DEF Req, Id
    <3> QED BY <3>1, <3>2
  <2>2. \A k \in 1..Len(reports) : reports[k].id \in Nat
    <3>1. \A k \in 1..Len(reports) : reports[k] \in Rep
      BY <1>1, ElementOfSeq
    <3>2. \A x \in Rep : x.id \in Nat
      BY OrdersAssumption DEF Rep, Id
    <3> QED BY <3>1, <3>2
  <2> QED BY <1>1, <2>1, <2>2
<1>3. CASE Live
  <2>1. requests' = Append(requests, req) /\ reports' = reports /\ Len(requests) < QUEUE
    BY <1>3 DEF Route, HasRoom
  <2>2. requests' \in Seq(Req) /\ Pushed(requests, requests', req)
    BY <1>1, <2>1, SeqPushed
  <2>3. Len(requests') = Len(requests) + 1
    BY <2>2 DEF Pushed
  <2>4. \A j \in 1..Len(requests') : requests'[j].id < nextId'
    <3>1. /\ \A j \in 1..Len(requests) : requests'[j] = requests[j]
          /\ requests'[Len(requests) + 1] = req
      BY ONLY <2>2 DEF Pushed
    <3>2. \A j \in 1..Len(requests') : j \in 1..Len(requests) \/ j = Len(requests) + 1
      BY ONLY <1>1, <2>3
    <3> QED BY <1>2, <3>1, <3>2
  <2>5. Len(requests') <= QUEUE
    BY <1>1, <2>1, <2>3
  <2> QED BY <1>1, <1>2, <1>3, <2>1, <2>2, <2>4, <2>5 DEF WireInv, Route
<1>4. CASE ~Live
  <2>1. requests' = requests /\ reports' = reports \o Answers(req)
        /\ QUEUE - Len(reports) >= Len(Answers(req))
    BY <1>4 DEF Route, HasRoom
  <2>2. Answers(req) \in Seq(Rep) /\ \A k \in 1..Len(Answers(req)) : Answers(req)[k].id = req.id
    BY <1>1, AnswersAre
  <2> DEFINE A == Answers(req)
  <2> HIDE DEF A
  <2>3. /\ reports' \in Seq(Rep) /\ Len(reports') = Len(reports) + Len(A) /\ Len(A) \in Nat
        /\ \A k \in 1..Len(reports) + Len(A) :
              reports'[k] = IF k <= Len(reports) THEN reports[k] ELSE A[k - Len(reports)]
    BY <1>1, <2>1, <2>2, ConcatProperties, LenProperties DEF A
  <2>4. \A k \in 1..Len(reports') : reports'[k].id < nextId'
    <3> TAKE k \in 1..Len(reports')
    <3>1. CASE k <= Len(reports)
      BY <1>1, <1>2, <2>3, <3>1
    <3>2. CASE ~(k <= Len(reports))
      <4>1. k - Len(reports) \in 1..Len(A) /\ reports'[k] = A[k - Len(reports)]
        BY <1>1, <2>3, <3>2
      <4> QED BY <2>2, <4>1 DEF A
    <3> QED BY <3>1, <3>2
  <2>5. Len(reports') <= QUEUE
    <3>1. QUEUE - Len(reports) >= Len(A)
      BY <2>1 DEF A
    <3> QED BY ONLY <1>1, <2>3, <3>1
  <2> QED BY <1>1, <1>2, <1>4, <2>1, <2>3, <2>4, <2>5 DEF WireInv, Route
<1> QED BY <1>3, <1>4

\* The request joins the ring, or is answered at once.
LEMMA RouteLink ==
    ASSUME WireInv, NEW req \in Req, Route(req), NEW T, NEW B, Live => B = book,
           Linked(T, Append(requests, req), reports, B), RowSet(rows)' = T,
           \A x, y \in T : x.id = y.id => x = y
    PROVE  ChanInv'
<1>1. CASE Live
  <2>1. requests' = Append(requests, req) /\ reports' = reports /\ book' = book
    BY <1>1 DEF Route
  <2> QED BY <1>1, <2>1 DEF ChanInv
<1>2. CASE ~Live
  <2>1. requests = <<>> /\ requests' = <<>> /\ reports' = reports \o Answers(req) /\ reports \in Seq(Rep)
    BY <1>2 DEF Route, WireInv
  <2> SUFFICES \E C : Linked(T, <<>>, reports', C)
    BY <1>2, <2>1 DEF ChanInv
  <2> DEFINE q == Append(<<>>, req)
  <2>2. q \in Seq(Req) /\ q # <<>> /\ q[1] = req /\ Tail(q) = <<>> /\ Len(q) = 1
    BY <2>1
  <2>3. Linked(T, q, reports, B)
    BY <2>1
  <2> HIDE DEF q
  <2>4. /\ B \in Books /\ NoFills(B)
        /\ req.type = "New" => req.id \notin DOMAIN B
    BY <1>2, <2>2, <2>3, LinkLast
  <2>5. /\ req.type \in {"New", "Cancel", "Replace"} /\ req.id \in Id /\ req.side \in Side
        /\ req.px \in Nat /\ req.qty \in Nat \ {0} /\ req.tif \in {"GTC", "IOC"}
    BY DEF Req
  <2>6. /\ Report("Ack", req.id) \in Rep /\ Report("Expired", req.id) \in Rep
        /\ Report("Canceled", req.id) \in Rep /\ Report("Replaced", req.id) \in Rep
        /\ Report("Ack", req.id).type = "Ack" /\ Report("Expired", req.id).type = "Expired"
        /\ Report("Canceled", req.id).type = "Canceled" /\ Report("Replaced", req.id).type = "Replaced"
        /\ Report("Ack", req.id).id = req.id /\ Report("Expired", req.id).id = req.id
        /\ Report("Canceled", req.id).id = req.id /\ Report("Replaced", req.id).id = req.id
    BY <2>5, ReportType DEF ReportTypes
  <2>7. CASE req.type = "New"
    <3> DEFINE o == [side |-> req.side, px |-> req.px, cum |-> 0, leaves |-> req.qty]
               C == Rest(B, req.id, o)
               m == Report("Ack", req.id)
    <3>1. o \in VOrder
      BY <2>5 DEF VOrder
    <3>2. C \in Books /\ Step(B, m, C) /\ C[req.id] = o
      <4> HIDE DEF o, m
      <4> QED BY <2>4, <2>5, <2>6, <2>7, <3>1, RestStep DEF m
    <3>3. NoFills(C) /\ req.id \in DOMAIN C
      BY <2>4 DEF NoFills, Rest
    <3>4. Linked(T, <<>>, Append(reports, m), C)
      <4> HIDE DEF C, m
      <4>1. m \in Rep /\ m.type = "Ack" /\ m.id = req.id
        BY <2>6 DEF m
      <4>2. C[m.id] = [side |-> q[1].side, px |-> q[1].px, cum |-> 0, leaves |-> q[1].qty]
        BY <2>2, <3>2, <4>1
      <4>3. q[1].type = "New" /\ m.id = q[1].id /\ m.type \in {"Ack", "Reject"}
        BY <2>2, <2>7, <4>1
      <4>4. Linked(T, Tail(q), Append(reports, m), C)
        <5> HIDE DEF o
        <5> QED BY <2>1, <2>2, <2>3, <3>2, <3>3, <4>1, <4>2, <4>3, LinkBirth
      <4> QED BY <2>2, <4>4
    <3>5. CASE req.tif = "GTC"
      BY <2>1, <2>7, <3>4, <3>5, AnswersAre
    <3>6. CASE req.tif = "IOC"
      <4> DEFINE x == Report("Expired", req.id)
                 D == Drop(C, req.id)
                 p == Append(reports, m)
      <4>1. x \in Rep /\ x.type = "Expired" /\ x.id = req.id
        BY <2>6
      <4>2. p \in Seq(Rep)
        BY <2>1, <2>6, AppendProperties
      <4> HIDE DEF x, C, p
      <4>3. D \in Books /\ Step(C, x, D)
        BY <3>2, <4>1, DropStep
      <4>4. NoFills(D)
        BY <3>3 DEF NoFills, Drop
      <4>5. Linked(T, <<>>, Append(p, x), D)
        <5> HIDE DEF D
        <5> QED BY <3>3, <3>4, <4>1, <4>2, <4>3, <4>4, LinkUnasked DEF p
      <4>6. reports' = Append(p, x)
        BY <2>1, <2>7, <3>6, AnswersAre DEF p, x
      <4> QED BY <4>5, <4>6
    <3> QED BY <2>5, <3>5, <3>6
  <2>8. CASE req.type = "Cancel"
    <3> DEFINE m == Report("Canceled", req.id)
               C == Drop(B, req.id)
    <3>1. m \in Rep /\ m.type = "Canceled" /\ m.id = req.id
      BY <2>6
    <3>2. reports' = Append(reports, m)
      BY <2>1, <2>8, AnswersAre
    <3> HIDE DEF m
    <3>3. C \in Books /\ Step(B, m, C)
      BY <2>4, <3>1, DropStep
    <3>4. NoFills(C)
      BY <2>4 DEF NoFills, Drop
    <3> HIDE DEF C
    <3>5. q[1].type # "New" /\ m.id = q[1].id
      BY <2>2, <2>8, <3>1
    <3>6. Linked(T, Tail(q), Append(reports, m), C)
      BY <2>1, <2>2, <2>3, <3>1, <3>3, <3>4, <3>5, LinkAnswer
    <3> QED BY <2>2, <3>2, <3>6
  <2>9. CASE req.type = "Replace"
    <3> DEFINE m == Report("Replaced", req.id)
               C == Reprice(B, req.id, req.px, req.qty)
    <3>1. m \in Rep /\ m.type = "Replaced" /\ m.id = req.id
      BY <2>6
    <3>2. reports' = Append(reports, m)
      BY <2>1, <2>9, AnswersAre
    <3> HIDE DEF m
    <3>3. req.id \in DOMAIN B => req.qty > B[req.id].cum
      BY <2>4, <2>5 DEF NoFills
    <3>4. /\ C \in Books /\ Step(B, m, C) /\ DOMAIN C = DOMAIN B
          /\ \A k \in DOMAIN B : C[k].cum = B[k].cum
          /\ req.id \in DOMAIN B => C[req.id].px = req.px /\ C[req.id].cum + C[req.id].leaves = req.qty
      <4>1. req.px \in Nat /\ req.qty \in Nat
        BY <2>5
      <4> DEFINE id == req.id
                 px == req.px
                 n == req.qty
      <4>2. px \in Nat /\ n \in Nat /\ m.id = id /\ (id \in DOMAIN B => n > B[id].cum)
        BY <3>1, <3>3, <4>1
      <4> HIDE DEF id, px, n
      <4>3. /\ Reprice(B, id, px, n) \in Books /\ Step(B, m, Reprice(B, id, px, n))
            /\ DOMAIN Reprice(B, id, px, n) = DOMAIN B
            /\ \A k \in DOMAIN B : Reprice(B, id, px, n)[k].cum = B[k].cum
            /\ id \in DOMAIN B =>
                  /\ Reprice(B, id, px, n)[id].px = px
                  /\ Reprice(B, id, px, n)[id].cum + Reprice(B, id, px, n)[id].leaves = n
        BY ONLY <2>4, <3>1, <4>2, RepriceStep
      <4> QED BY ONLY <4>3 DEF id, px, n, C
    <3> HIDE DEF C
    <3>5. NoFills(C)
      BY <2>4, <3>4 DEF NoFills
    <3>6. q[1].type # "New" /\ q[1].type = "Replace" /\ m.id = q[1].id
      BY <2>2, <2>9, <3>1
    <3>7. m.id \in DOMAIN B => C[m.id].px = q[1].px /\ C[m.id].cum + C[m.id].leaves = q[1].qty
      BY <2>2, <3>1, <3>4
    <3>8. Linked(T, Tail(q), Append(reports, m), C)
      BY <2>1, <2>2, <2>3, <3>1, <3>4, <3>5, <3>6, <3>7, LinkAnswer
    <3> QED BY <2>2, <3>2, <3>8
  <2> QED BY <2>5, <2>7, <2>8, <2>9
<1> QED BY <1>1, <1>2

\* What an order is reserved at is its limit, or any price if it has none.
LEMMA RefPxIs ==
    ASSUME NEW px \in Px, NEW ref \in RefPx(px)
    PROVE  px \in Nat /\ ref \in Nat /\ px \in {0, ref}
<1>1. px \in Nat
  BY OrdersAssumption
<1>2. CASE px > 0
  BY <1>1, <1>2 DEF RefPx
<1>3. CASE ~(px > 0)
  BY <1>1, <1>3, OrdersAssumption DEF RefPx
<1> QED BY <1>2, <1>3

LEMMA SubmitStep ==
    ASSUME TableInv, WireInv, ChanInv, AccountInv, RiskInv, NEW d \in Side, NEW px \in Px,
           NEW ref \in RefPx(px), NEW n \in Qty, NEW tif \in Tif, Submit(d, px, ref, n, tif)
    PROVE  TableInv' /\ WireInv' /\ ChanInv' /\ AccountInv' /\ RiskInv'
<1> DEFINE s == NewRow(d, ref, n)
           req == Request("New", nextId, d, px, n, tif)
           R == RowSet(rows)
<1>1. /\ nextId \in Id /\ CheckNew(d, ref, n) /\ Len(rows) < MaxRows /\ HasRoom(req) /\ Route(req)
      /\ rows' = Append(rows, s) /\ open' = [open EXCEPT ![d] = @ + n]
      /\ reserved' = [reserved EXCEPT ![d] = @ + Reservation(d, ref, n)]
      /\ nextId' = nextId + 1 /\ MeetsAmend /\ UNCHANGED <<pos, total, slip>>
  BY DEF Submit, AddOpen
<1>2. /\ px \in Nat /\ ref \in Nat /\ px \in {0, ref} /\ n \in Nat \ {0} /\ tif \in {"GTC", "IOC"}
      /\ MaxSubmits \in Nat /\ MaxRows \in Nat
  BY RefPxIs, OrdersAssumption
<1>3. nextId \in Nat /\ nextId + 1 \in 1..(MaxSubmits + 1) /\ nextId' \in Nat /\ nextId <= nextId' /\ nextId < nextId'
  BY <1>1, <1>2 DEF Id
<1>4. /\ s.id = nextId /\ s.side = d /\ s.px = ref /\ s.leaves = n /\ s.cum = 0 /\ s.pending = {}
  BY DEF NewRow
<1>5. s \in Row
  BY <1>1, <1>2 DEF NewRow, Row
<1>6. /\ req.type = "New" /\ req.id = nextId /\ req.side = d /\ req.px = px /\ req.qty = n
  BY DEF Request
<1>7. req \in Req
  BY <1>1, <1>2 DEF Request, Req
<1> HIDE DEF s, req
<1>8. /\ rows \in Seq(Row) /\ Distinct(rows) /\ Len(rows) \in Nat
      /\ \A x \in R : x.id < nextId /\ ("replace" \in x.pending => x.newQty \in Qty)
      /\ \A x \in R : x \in Row
      /\ \A i \in 1..Len(rows) : rows[i] \in R
  BY RowsUnique DEF TableInv
<1>9. \A x \in R : x.id # nextId /\ x.id < nextId'
  <2>1. \A x \in R : x.id \in Nat
    BY <1>2, <1>8, RowFields DEF Id
  <2> QED BY <1>3, <1>8, <2>1
<1>10. /\ rows' \in Seq(Row) /\ Len(rows') = Len(rows) + 1 /\ Distinct(rows')
       /\ RowSet(rows)' = R \cup {s}
  <2>1. \A i \in 1..Len(rows) : rows[i].id # s.id
    BY <1>4, <1>8, <1>9
  <2> HIDE DEF R
  <2> QED BY <1>1, <1>5, <1>8, <2>1, AppendedRows DEF R
<1>11. TableInv'
  <2>1. Len(rows') <= MaxRows
    BY <1>1, <1>2, <1>8, <1>10
  <2>2. \A x \in RowSet(rows)' : x.id < nextId' /\ ("replace" \in x.pending => x.newQty \in Qty)
    BY <1>3, <1>4, <1>8, <1>9, <1>10
  <2>3. nextId' \in 1..(MaxSubmits + 1)
    BY <1>1, <1>3
  <2> QED BY <1>10, <2>1, <2>2, <2>3 DEF TableInv
<1>12. WireInv'
  BY <1>1, <1>3, <1>6, <1>7, RouteWire
<1>13. ChanInv'
  <2>1. PICK B : (Live => B = book) /\ Linked(R, requests, reports, B)
    BY DEF ChanInv
  <2>2. requests \in Seq(Req)
    BY DEF WireInv
  <2>3. /\ \A j \in 1..Len(requests) : requests[j].id # req.id
        /\ \A k \in 1..Len(reports) : reports[k].id # req.id
    BY <1>3, <1>6 DEF WireInv
  <2>4. s.id = req.id /\ Asks(s, req) /\ \A x \in R : x.id # req.id
    BY <1>2, <1>4, <1>6, <1>9 DEF Asks
  <2>5. Linked(R \cup {s}, Append(requests, req), reports, B)
    <3> HIDE DEF R
    <3> QED BY <1>6, <1>7, <2>1, <2>2, <2>3, <2>4, LinkNew
  <2>6. \A x, y \in R \cup {s} : x.id = y.id => x = y
    BY <2>4, RowsUnique
  <2> HIDE DEF R
  <2> QED BY <1>1, <1>7, <1>10, <2>1, <2>5, <2>6, RouteLink
<1>14. AccountInv'
  <2>1. /\ open' = [open EXCEPT ![s.side] = @ + s.leaves]
        /\ reserved' = [reserved EXCEPT ![s.side] = @ + Reservation(s.side, s.px, s.leaves)]
    BY <1>1, <1>4
  <2> QED BY <1>1, <1>5, <1>8, <2>1, AccountAdd
<1>15. RiskInv'
  <2>1. /\ open' = [open EXCEPT ![s.side] = @ + s.leaves]
        /\ reserved' = [reserved EXCEPT ![s.side] = @ + Reservation(s.side, s.px, s.leaves)]
        /\ PositionOk(s.side, s.leaves, s.px)
        /\ Reservation(s.side, s.px, s.leaves) <= Available(s.side)
    BY <1>1, <1>4 DEF CheckNew
  <2> HIDE DEF R
  <2> QED BY <1>1, <1>4, <1>5, <1>8, <1>10, <2>1, RiskAdd DEF R
<1> QED BY <1>11, <1>12, <1>13, <1>14, <1>15

LEMMA SubmitRingFullStep ==
    ASSUME TableInv, WireInv, ChanInv, AccountInv, RiskInv, NEW d, NEW px, NEW ref, NEW n, NEW tif,
           SubmitRingFull(d, px, ref, n, tif)
    PROVE  TableInv' /\ WireInv' /\ ChanInv' /\ AccountInv' /\ RiskInv'
<1>1. /\ nextId \in Id /\ nextId' = nextId + 1 /\ UNCHANGED <<rows, open, accountVars, routerVars, raced>>
  BY DEF SubmitRingFull
<1>2. nextId \in Nat /\ nextId + 1 \in 1..(MaxSubmits + 1)
  BY <1>1, OrdersAssumption DEF Id
<1>3. \A x \in Id : x < nextId => x < nextId'
  BY <1>1, <1>2, OrdersAssumption DEF Id
<1>4. TableInv'
  <2>1. \A x \in RowSet(rows) : x.id \in Id
    BY RowsUnique, RowFields
  <2>2. \A x \in RowSet(rows) : x.id < nextId'
    BY <1>3, <2>1 DEF TableInv
  <2> QED BY <1>1, <1>2, <2>2 DEF TableInv
<1>5. WireInv'
  <2>1. \A j \in 1..Len(requests) : requests[j].id \in Id
    <3>1. \A j \in 1..Len(requests) : requests[j] \in Req
      BY ElementOfSeq DEF WireInv
    <3> QED BY <3>1 DEF Req
  <2>2. \A k \in 1..Len(reports) : reports[k].id \in Id
    <3>1. \A k \in 1..Len(reports) : reports[k] \in Rep
      BY ElementOfSeq DEF WireInv
    <3> QED BY <3>1 DEF Rep
  <2>3. /\ \A j \in 1..Len(requests) : requests[j].id < nextId'
        /\ \A k \in 1..Len(reports) : reports[k].id < nextId'
    BY <1>3, <2>1, <2>2 DEF WireInv
  <2> QED BY <1>1, <2>3 DEF WireInv, routerVars
<1>6. ChanInv'
  BY <1>1 DEF ChanInv, routerVars
<1>7. AccountInv' /\ RiskInv'
  BY <1>1, AccountSame, RiskSame
<1> QED BY <1>4, <1>5, <1>6, <1>7

\* A request about a row: the row is marked and the request routed.
LEMMA AskStep ==
    ASSUME TableInv, WireInv, ChanInv, AccountInv, NEW i \in 1..Len(rows),
           NEW m \in SUBSET {"cancel", "replace"}, NEW px \in Nat, NEW n \in Nat,
           "replace" \in m => n \in Qty,
           rows' = [rows EXCEPT ![i] = Marked(rows[i], m, px, n)],
           NEW req \in Req, req.id = rows[i].id, HasRoom(req), Route(req),
           \/ /\ req.type = "Cancel" /\ px = rows[i].newPx /\ n = rows[i].newQty
              /\ "replace" \in rows[i].pending => "replace" \in m
           \/ /\ req.type = "Replace" /\ rows[i].pending = {} /\ "replace" \in m
              /\ px = req.px /\ n = req.qty,
           UNCHANGED <<open, nextId, accountVars>>
    PROVE  /\ TableInv' /\ WireInv' /\ ChanInv' /\ AccountInv'
           /\ RowSet(rows)' = (RowSet(rows) \ {rows[i]}) \cup {Marked(rows[i], m, px, n)}
<1> DEFINE r == rows[i]
           s == Marked(r, m, px, n)
           R == RowSet(rows)
           T == (R \ {r}) \cup {s}
<1>1. TableInv' /\ AccountInv' /\ RowSet(rows)' = T
  BY MarkRow
<1>2. /\ r \in R /\ r \in Row /\ \A x, y \in R : x.id = y.id => x = y
  BY RowsUnique
<1>3. /\ s.id = r.id /\ s.side = r.side /\ s.px = r.px /\ s.leaves = r.leaves /\ s.cum = r.cum
      /\ s.pending = m /\ s.newPx = px /\ s.newQty = n
  BY DEF Marked
<1>4. WireInv'
  <2>1. nextId \in Nat /\ nextId' = nextId
    BY OrdersAssumption DEF TableInv
  <2>2. r.id < nextId
    BY <1>2 DEF TableInv
  <2>3. nextId' \in Nat /\ nextId <= nextId' /\ req.id < nextId'
    BY <2>1, <2>2
  <2> QED BY ONLY WireInv, <2>1, <2>3, req \in Req, HasRoom(req), Route(req), RouteWire
<1>5. ChanInv'
  <2>1. PICK B : (Live => B = book) /\ Linked(R, requests, reports, B)
    BY DEF ChanInv
  <2>2. requests \in Seq(Req)
    BY DEF WireInv
  <2> HIDE DEF s
  <2>3. Linked(T, Append(requests, req), reports, B)
    <3>1. r.id = req.id /\ \A x \in R : x.id = r.id => x = r
      BY <1>2
    <3>2. \/ /\ req.type = "Cancel" /\ s.newPx = r.newPx /\ s.newQty = r.newQty
             /\ "replace" \in r.pending => "replace" \in s.pending
          \/ /\ req.type = "Replace" /\ r.pending = {} /\ "replace" \in s.pending
             /\ s.newPx = req.px /\ s.newQty = req.qty
      BY <1>3
    <3> HIDE DEF R, r
    <3> QED BY ONLY <1>2, <1>3, <2>1, <2>2, <3>1, <3>2, req \in Req, LinkAsk
  <2>4. \A x, y \in T : x.id = y.id => x = y
    BY <1>2, <1>3
  <2> HIDE DEF R, T
  <2> QED BY ONLY WireInv, <1>1, <2>1, <2>3, <2>4, req \in Req, Route(req), RouteLink
<1> QED BY <1>1, <1>4, <1>5

LEMMA CancelStep ==
    ASSUME TableInv, WireInv, ChanInv, AccountInv, RiskInv, NEW i \in 1..Len(rows), CancelRow(i),
           UNCHANGED <<open, nextId, accountVars, raced>>
    PROVE  TableInv' /\ WireInv' /\ ChanInv' /\ AccountInv' /\ RiskInv' /\ Len(rows') = Len(rows)
<1> DEFINE r == rows[i]
           m == r.pending \cup {"cancel"}
           req == Request("Cancel", r.id, r.side, r.px, r.leaves, "GTC")
<1>1. CASE "cancel" \notin r.pending /\ HasRoom(req)
  <2>1. Route(req) /\ HasRoom(req) /\ rows' = [rows EXCEPT ![i].pending = @ \cup {"cancel"}]
    BY <1>1 DEF CancelRow
  <2>2. r \in Row /\ rows \in Seq(Row) /\ r \in RowSet(rows)
    BY RowsUnique DEF TableInv
  <2>3. /\ r.id \in Id /\ r.side \in Side /\ r.px \in Nat /\ r.leaves \in Nat \ {0}
        /\ r.newPx \in Nat /\ r.newQty \in Nat /\ m \in SUBSET {"cancel", "replace"}
    BY <2>2, RowFields
  <2>4. "replace" \in m => r.newQty \in Qty
    BY <2>2 DEF TableInv
  <2>5. req \in Req /\ req.type = "Cancel" /\ req.id = r.id
    BY <2>3 DEF Request, Req
  <2>6. rows' = [rows EXCEPT ![i] = Marked(r, m, r.newPx, r.newQty)]
    <3>1. rows' = [rows EXCEPT ![i].pending = m]
      BY <2>1
    <3> HIDE DEF m
    <3>2. [rows EXCEPT ![i].pending = m] = [rows EXCEPT ![i] = Marked(rows[i], m, rows[i].newPx, rows[i].newQty)]
      BY ONLY <2>2, i \in 1..Len(rows), WriteMarked
    <3> QED BY <3>1, <3>2
  <2> DEFINE s == Marked(r, m, r.newPx, r.newQty)
  <2>7. "replace" \in r.pending => "replace" \in m
    OBVIOUS
  <2>8. /\ TableInv' /\ WireInv' /\ ChanInv' /\ AccountInv'
        /\ RowSet(rows)' = (RowSet(rows) \ {r}) \cup {s}
    <3> HIDE DEF m, req
    <3> QED BY <2>1, <2>3, <2>4, <2>5, <2>6, <2>7, AskStep
  <2>9. RiskInv'
    <3>1. Amending(s) => /\ Amending(r) /\ s.side = r.side
                         /\ MoreFunds(s) = MoreFunds(r) /\ MoreLots(s) = MoreLots(r)
      <4>1. /\ s.side = r.side /\ s.px = r.px /\ s.leaves = r.leaves /\ s.cum = r.cum
            /\ s.pending = m /\ s.newPx = r.newPx /\ s.newQty = r.newQty
        BY DEF Marked
      <4> HIDE DEF s
      <4>2. MoreFunds(s) = MoreFunds(r) /\ MoreLots(s) = MoreLots(r)
        BY ONLY <4>1 DEF MoreFunds, MoreLots
      <4> QED BY <4>1, <4>2 DEF Amending
    <3>2. UNCHANGED <<pos, total, reserved, slip, open, raced>>
      BY DEF accountVars
    <3> HIDE DEF s
    <3> QED BY <2>2, <2>8, <3>1, <3>2, RiskKeep
  <2>10. Len(rows') = Len(rows)
    <3>1. s \in Row
      BY <2>2, <2>3, RowFields DEF Marked, Row
    <3> HIDE DEF s
    <3> QED BY <2>2, <2>6, <3>1, UpdateRow DEF Updated, s
  <2> QED BY <2>8, <2>9, <2>10
<1>2. CASE ~("cancel" \notin r.pending /\ HasRoom(req))
  <2>1. UNCHANGED <<rows, routerVars>>
    BY <1>2 DEF CancelRow
  <2>2. TableInv' /\ WireInv' /\ ChanInv'
    BY <2>1 DEF TableInv, WireInv, ChanInv, routerVars
  <2>3. AccountInv' /\ RiskInv'
    BY <2>1, AccountSame, RiskSame
  <2> QED BY <2>1, <2>2, <2>3
<1> QED BY <1>1, <1>2

LEMMA ReplaceStep ==
    ASSUME TableInv, WireInv, ChanInv, AccountInv, RiskInv, NEW i \in 1..Len(rows),
           NEW px \in Px, NEW n \in Qty, Replace(i, px, n)
    PROVE  TableInv' /\ WireInv' /\ ChanInv' /\ AccountInv' /\ RiskInv'
<1> DEFINE r == rows[i]
           m == {"replace"}
           req == Request("Replace", r.id, r.side, px, n, "GTC")
           s == Marked(r, m, px, n)
<1>1. /\ r.pending = {} /\ CheckReplace(r, px, n) /\ HasRoom(req) /\ Route(req)
      /\ rows' = [rows EXCEPT ![i].pending = {"replace"}, ![i].newPx = px, ![i].newQty = n]
      /\ MeetsAmend /\ UNCHANGED <<open, nextId, accountVars>>
  BY DEF Replace
<1>2. r \in Row /\ rows \in Seq(Row) /\ r \in RowSet(rows)
  BY RowsUnique DEF TableInv
<1>3. px \in Nat /\ n \in Nat /\ n \in Nat \ {0}
  BY OrdersAssumption
<1>4. r.id \in Id /\ r.side \in Side
  BY <1>2, RowFields
<1>5. req \in Req /\ req.type = "Replace" /\ req.id = r.id /\ req.px = px /\ req.qty = n
  BY <1>3, <1>4 DEF Request, Req
<1>6. rows' = [rows EXCEPT ![i] = s]
  <2>1. /\ DOMAIN rows = 1..Len(rows)
        /\ DOMAIN r = {"id", "side", "px", "qty", "leaves", "cum", "pending", "newPx", "newQty"}
    BY <1>2, RowsUnique, RowFields
  <2>2. rows' = [rows EXCEPT ![i].pending = m, ![i].newPx = px, ![i].newQty = n]
    BY <1>1
  <2> HIDE DEF m
  <2>3. [r EXCEPT !.pending = m, !.newPx = px, !.newQty = n] = s
    <3> HIDE DEF r
    <3>1. [r EXCEPT !.pending = m, !.newPx = px, !.newQty = n] =
             [f \in DOMAIN r |-> IF f = "newQty" THEN n ELSE IF f = "newPx" THEN px
                                 ELSE IF f = "pending" THEN m ELSE r[f]]
      BY ONLY <2>1
    <3> QED BY ONLY <2>1, <3>1 DEF Marked
  <2>4. [rows EXCEPT ![i].pending = m, ![i].newPx = px, ![i].newQty = n] = [rows EXCEPT ![i] = s]
    <3> HIDE DEF s
    <3> QED BY ONLY <2>1, <2>3, i \in 1..Len(rows)
  <2> QED BY <2>2, <2>4
<1>7. m \in SUBSET {"cancel", "replace"} /\ "replace" \in m
  OBVIOUS
<1>8. /\ TableInv' /\ WireInv' /\ ChanInv' /\ AccountInv'
      /\ RowSet(rows)' = (RowSet(rows) \ {r}) \cup {s}
  <2>1. /\ Route(req) /\ HasRoom(req) /\ UNCHANGED <<open, nextId, accountVars>>
        /\ req.type = "Replace" /\ rows[i].pending = {} /\ px = req.px /\ n = req.qty
        /\ "replace" \in m /\ n \in Qty
    BY <1>1, <1>5, <1>7
  <2> HIDE DEF m, req
  <2> QED BY ONLY TableInv, WireInv, ChanInv, AccountInv, i \in 1..Len(rows),
                  <1>3, <1>5, <1>6, <1>7, <2>1, AskStep
<1>9. RiskInv'
  <2>1. UNCHANGED <<pos, total, reserved, slip, open>>
    BY <1>1 DEF accountVars
  <2> QED BY <1>1, <1>2, <1>3, <1>8, <2>1, RiskAsk
<1> QED BY <1>8, <1>9

-----------------------------------------------------------------------------
(* What the venue does keeps the invariant.                                *)

LEMMA ReportWire ==
    ASSUME WireInv, Live, NEW m \in Rep, m.id < nextId, reports' = Append(reports, m),
           nextId' = nextId,
           requests' = requests \/ (requests # <<>> /\ requests' = Tail(requests))
    PROVE  WireInv'
<1>1. /\ reports \in Seq(Rep) /\ requests \in Seq(Req) /\ Len(requests) <= QUEUE /\ QUEUE \in Nat
      /\ \A j \in 1..Len(requests) : requests[j].id < nextId
      /\ \A k \in 1..Len(reports) : reports[k].id < nextId
  BY OrdersAssumption DEF WireInv
<1>2. reports' \in Seq(Rep) /\ Pushed(reports, reports', m) /\ Len(reports) \in Nat
  BY <1>1, SeqPushed
<1>3. \A k \in 1..Len(reports') : reports'[k].id < nextId'
  BY <1>1, <1>2 DEF Pushed
<1>4. /\ requests' \in Seq(Req) /\ Len(requests') <= QUEUE
      /\ \A j \in 1..Len(requests') : requests'[j].id < nextId'
  <2>1. CASE requests' = requests
    BY <1>1, <2>1
  <2>2. CASE requests # <<>> /\ requests' = Tail(requests)
    <3>1. /\ requests' \in Seq(Req) /\ Popped(requests, requests') /\ Len(requests) \in Nat
          /\ Len(requests') = Len(requests) - 1
      BY <1>1, <2>2, SeqPopped
    <3>2. \A j \in 1..Len(requests') : requests'[j] = requests[j + 1] /\ j + 1 \in 1..Len(requests)
      BY <3>1 DEF Popped
    <3>3. \A j \in 1..Len(requests') : requests'[j].id < nextId'
      BY <1>1, <3>2
    <3>4. Len(requests') <= QUEUE
      BY <1>1, <3>1
    <3> QED BY <3>1, <3>3, <3>4
  <2> QED BY <2>1, <2>2
<1> QED BY <1>2, <1>3, <1>4 DEF WireInv

\* Only the wire and the book have changed.
LEMMA VenueKeeps ==
    ASSUME TableInv, AccountInv, RiskInv, UNCHANGED <<tableVars, accountVars, raced>>
    PROVE  TableInv' /\ AccountInv' /\ RiskInv' /\ RowSet(rows)' = RowSet(rows)
<1>1. UNCHANGED <<rows, open, nextId, accountVars, raced>>
  BY DEF tableVars
<1>2. AccountInv' /\ RiskInv'
  BY <1>1, AccountSame, RiskSame
<1> QED BY <1>1, <1>2 DEF TableInv

LEMMA VenueRequestStep ==
    ASSUME TableInv, WireInv, ChanInv, AccountInv, RiskInv, VenueRequest
    PROVE  TableInv' /\ WireInv' /\ ChanInv' /\ AccountInv' /\ RiskInv'
<1> DEFINE r == requests[1]
           R == RowSet(rows)
           able == r.id \in DOMAIN book /\ (r.type = "Replace" => r.qty > book[r.id].cum)
           Says(t) == reports' = Append(reports, Report(t, r.id))
           o == [side |-> r.side, px |-> r.px, cum |-> 0, leaves |-> r.qty]
<1>1. /\ Live /\ requests # <<>> /\ requests' = Tail(requests)
      /\ UNCHANGED <<tableVars, accountVars, raced>>
  BY DEF VenueRequest
<1>2. requests \in Seq(Req) /\ reports \in Seq(Rep) /\ Head(requests) = r /\ r \in Req /\ 1 \in 1..Len(requests)
  BY <1>1, SeqPopped DEF WireInv
<1>3. \/ r.type = "New" /\ book' = Rest(book, r.id, o) /\ Says("Ack")
      \/ r.type = "New" /\ Says("Reject") /\ book' = book
      \/ r.type = "Cancel" /\ able /\ book' = Drop(book, r.id) /\ Says("Canceled")
      \/ /\ r.type = "Replace" /\ able /\ Says("Replaced")
         /\ book' = [book EXCEPT ![r.id].px = r.px, ![r.id].leaves = r.qty - book[r.id].cum]
      \/ r.type # "New" /\ ~able /\ Says("CancelReject") /\ book' = book
  BY <1>2 DEF VenueRequest, Rest, Drop, Without
<1>4. /\ r.type \in {"New", "Cancel", "Replace"} /\ r.id \in Id /\ r.side \in Side
      /\ r.px \in Nat /\ r.qty \in Nat \ {0}
  BY <1>2 DEF Req
<1>5. TableInv' /\ AccountInv' /\ RiskInv' /\ RowSet(rows)' = R /\ nextId' = nextId
  BY <1>1, VenueKeeps DEF tableVars
<1>6. r.id < nextId
  BY <1>2 DEF WireInv
<1>7. Linked(R, requests, reports, book)
  BY <1>1 DEF ChanInv
<1>8. /\ book \in Books
      /\ r.type = "New" => r.id \notin DOMAIN book
  BY <1>2, <1>7, LinkLast
<1>9. \A x, y \in R : x.id = y.id => x = y
  BY RowsUnique
<1>10. ASSUME NEW t \in ReportTypes, Says(t),
              Linked(R, Tail(requests), Append(reports, Report(t, r.id)), book')
       PROVE  WireInv' /\ ChanInv'
  <2>1. Report(t, r.id) \in Rep /\ Report(t, r.id).id = r.id
    BY <1>4, ReportType
  <2>2. WireInv'
    BY <1>1, <1>5, <1>6, <1>10, <2>1, ReportWire
  <2>3. ChanInv'
    BY <1>1, <1>5, <1>10 DEF ChanInv
  <2> QED BY <2>2, <2>3
<1> HIDE DEF r, R, Says, o
<1>11. CASE r.type = "New" /\ book' = Rest(book, r.id, o) /\ Says("Ack")
  <2> DEFINE m == Report("Ack", r.id)
  <2>1. m \in Rep /\ m.type = "Ack" /\ m.id = r.id
    BY <1>4, ReportType DEF ReportTypes
  <2> HIDE DEF m
  <2>2. o \in VOrder
    BY <1>4 DEF VOrder, o
  <2>3. book' \in Books /\ Step(book, m, book') /\ book'[r.id] = o
    BY <1>4, <1>8, <1>11, <2>1, <2>2, RestStep
  <2>4. book'[m.id] = [side |-> requests[1].side, px |-> requests[1].px, cum |-> 0, leaves |-> requests[1].qty]
    BY <2>1, <2>3 DEF o, r
  <2>5. requests[1].type = "New" /\ m.id = requests[1].id /\ m.type \in {"Ack", "Reject"}
    BY <1>11, <2>1 DEF r
  <2>6. Linked(R, Tail(requests), Append(reports, m), book')
    BY <1>1, <1>2, <1>7, <1>9, <2>1, <2>3, <2>4, <2>5, LinkBirth
  <2> QED BY <1>5, <1>10, <1>11, <2>6 DEF m, ReportTypes
<1>12. CASE r.type = "New" /\ Says("Reject") /\ book' = book
  <2> DEFINE m == Report("Reject", r.id)
  <2>1. m \in Rep /\ m.type = "Reject" /\ m.id = r.id
    BY <1>4, ReportType DEF ReportTypes
  <2> HIDE DEF m
  <2>2. Step(book, m, book)
    BY <1>8, <1>12, <2>1, SameStep
  <2>3. requests[1].type = "New" /\ m.id = requests[1].id /\ m.type \in {"Ack", "Reject"}
    BY <1>12, <2>1 DEF r
  <2>4. Linked(R, Tail(requests), Append(reports, m), book)
    BY <1>1, <1>2, <1>7, <1>8, <1>9, <2>1, <2>2, <2>3, LinkBirth
  <2> QED BY <1>5, <1>10, <1>12, <2>4 DEF m, ReportTypes
<1>13. CASE r.type = "Cancel" /\ book' = Drop(book, r.id) /\ Says("Canceled")
  <2> DEFINE m == Report("Canceled", r.id)
  <2>1. m \in Rep /\ m.type = "Canceled" /\ m.id = r.id
    BY <1>4, ReportType DEF ReportTypes
  <2> HIDE DEF m
  <2>2. book' \in Books /\ Step(book, m, book')
    BY <1>8, <1>13, <2>1, DropStep
  <2>3. requests[1].type # "New" /\ m.id = requests[1].id
    BY <1>13, <2>1 DEF r
  <2>4. Linked(R, Tail(requests), Append(reports, m), book')
    BY <1>1, <1>2, <1>7, <2>1, <2>2, <2>3, LinkAnswer
  <2> QED BY <1>5, <1>10, <1>13, <2>4 DEF m, ReportTypes
<1>14. CASE /\ r.type = "Replace" /\ able /\ Says("Replaced")
            /\ book' = [book EXCEPT ![r.id].px = r.px, ![r.id].leaves = r.qty - book[r.id].cum]
  <2> DEFINE m == Report("Replaced", r.id)
             id == r.id
             px == r.px
             n == r.qty
  <2>1. m \in Rep /\ m.type = "Replaced" /\ m.id = id
    BY <1>4, ReportType DEF ReportTypes
  <2>2. /\ id \in DOMAIN book /\ n > book[id].cum /\ px \in Nat /\ n \in Nat
    BY <1>4, <1>14
  <2>3. book' = Reprice(book, id, px, n)
    <3> DEFINE l == n - book[id].cum
    <3>1. book' = [book EXCEPT ![id].px = px, ![id].leaves = l]
      BY <1>14
    <3>2. book = [k \in DOMAIN book |-> book[k]] /\ book[id] \in VOrder
      BY <1>8, <2>2, BookIs
    <3>3. DOMAIN book[id] = {"side", "px", "cum", "leaves"}
      BY <3>2 DEF VOrder
    <3> HIDE DEF id, px, n, l
    <3>4. [book[id] EXCEPT !.px = px, !.leaves = l] = [side |-> book[id].side, px |-> px, cum |-> book[id].cum, leaves |-> l]
      <4>1. [book[id] EXCEPT !.px = px, !.leaves = l] =
               [f \in DOMAIN book[id] |-> IF f = "leaves" THEN l ELSE IF f = "px" THEN px ELSE book[id][f]]
        BY ONLY <3>3
      <4> QED BY ONLY <3>3, <4>1
    <3>5. book' = [k \in DOMAIN book |->
                     IF k = id THEN [side |-> book[id].side, px |-> px, cum |-> book[id].cum, leaves |-> l]
                     ELSE book[k]]
      BY ONLY <2>2, <3>1, <3>2, <3>4
    <3> QED BY <3>5 DEF Reprice, l
  <2> HIDE DEF m, id, px, n
  <2>4. /\ book' \in Books /\ Step(book, m, book')
        /\ book'[id].px = px /\ book'[id].cum + book'[id].leaves = n
    BY <1>8, <2>1, <2>2, <2>3, RepriceStep
  <2>5. /\ requests[1].type # "New" /\ requests[1].type = "Replace" /\ m.id = requests[1].id
        /\ book'[m.id].px = requests[1].px /\ book'[m.id].cum + book'[m.id].leaves = requests[1].qty
    BY <1>14, <2>1, <2>4 DEF r, id, px, n
  <2>6. Linked(R, Tail(requests), Append(reports, m), book')
    BY <1>1, <1>2, <1>7, <2>1, <2>4, <2>5, LinkAnswer
  <2> QED BY <1>5, <1>10, <1>14, <2>6 DEF m, id, ReportTypes
<1>15. CASE r.type # "New" /\ ~able /\ Says("CancelReject") /\ book' = book
  <2> DEFINE m == Report("CancelReject", r.id)
  <2>1. m \in Rep /\ m.type = "CancelReject" /\ m.id = r.id
    BY <1>4, ReportType DEF ReportTypes
  <2> HIDE DEF m
  <2>2. Step(book, m, book)
    BY <2>1, SameStep
  <2>3. /\ requests[1].type # "New" /\ m.id = requests[1].id
        /\ m.id \in DOMAIN book => requests[1].type = "Replace"
    BY <1>4, <1>15, <2>1 DEF r
  <2>4. Linked(R, Tail(requests), Append(reports, m), book)
    BY <1>1, <1>2, <1>7, <1>8, <2>1, <2>2, <2>3, LinkAnswer
  <2> QED BY <1>5, <1>10, <1>15, <2>4 DEF m, ReportTypes
<1> QED BY <1>3, <1>11, <1>12, <1>13, <1>14, <1>15

\* A resting order trades, or is dropped.
LEMMA VenueTellsStep ==
    ASSUME TableInv, WireInv, ChanInv, AccountInv, RiskInv, Live, NEW m \in Rep,
           m.id \in DOMAIN book, m.type \in {"Fill", "Expired"}, book' \in Books, Step(book, m, book'),
           reports' = Append(reports, m), UNCHANGED <<requests, tableVars, accountVars, raced>>
    PROVE  TableInv' /\ WireInv' /\ ChanInv' /\ AccountInv' /\ RiskInv'
<1> DEFINE R == RowSet(rows)
<1>1. TableInv' /\ AccountInv' /\ RiskInv' /\ RowSet(rows)' = R /\ nextId' = nextId
  BY VenueKeeps DEF tableVars
<1>2. Linked(R, requests, reports, book) /\ reports \in Seq(Rep)
  BY DEF ChanInv, WireInv
<1>3. m.id < nextId
  <2>1. \E x \in R : x.id = m.id
    BY <1>2, LinkLast
  <2> QED BY <2>1 DEF TableInv
<1>4. WireInv'
  BY <1>1, <1>3, ReportWire
<1>5. Linked(R, requests, Append(reports, m), book')
  <2> HIDE DEF R
  <2> QED BY <1>2, LinkUnasked
<1>6. ChanInv'
  BY <1>1, <1>5 DEF ChanInv
<1> QED BY <1>1, <1>4, <1>6

LEMMA VenueFillStep ==
    ASSUME TableInv, WireInv, ChanInv, AccountInv, RiskInv, NEW id, NEW n \in Qty, NEW px \in FillPx,
           VenueFill(id, n, px)
    PROVE  TableInv' /\ WireInv' /\ ChanInv' /\ AccountInv' /\ RiskInv'
<1> DEFINE m == [type |-> "Fill", id |-> id, px |-> px, qty |-> n]
<1>1. /\ Live /\ id \in DOMAIN book /\ n <= book[id].leaves
      /\ book' = IF n = book[id].leaves THEN Drop(book, id)
                 ELSE [book EXCEPT ![id].cum = @ + n, ![id].leaves = @ - n]
      /\ reports' = Append(reports, m)
      /\ UNCHANGED <<requests, tableVars, accountVars, raced>>
  BY DEF VenueFill, Drop, Without
<1>2. n \in Nat \ {0} /\ px \in Nat
  BY OrdersAssumption
<1>3. book \in Books
  BY <1>1, LinkLast DEF ChanInv
<1>4. /\ book = [k \in DOMAIN book |-> book[k]] /\ book[id] \in VOrder /\ id \in Id
  BY <1>1, <1>3, BookIs
<1>5. m \in Rep /\ m.type = "Fill" /\ m.id = id /\ m.qty = n
  BY <1>2, <1>4 DEF Rep, ReportTypes
<1> HIDE DEF m
<1>6. book' \in Books /\ Step(book, m, book')
  <2>1. CASE n = book[id].leaves
    <3>1. book' = Drop(book, id)
      BY <1>1, <2>1
    <3> QED BY <1>1, <1>3, <1>5, <2>1, <3>1, FillOutStep
  <2>2. CASE n # book[id].leaves
    <3> DEFINE b == book[id]
               l == b.leaves - n
               c == b.cum + n
    <3>1. n < b.leaves
      BY <1>1, <1>2, <1>4, <2>2 DEF VOrder
    <3>2. book' = [book EXCEPT ![id].cum = c, ![id].leaves = l]
      BY <1>1, <1>4, <2>2
    <3>3. DOMAIN b = {"side", "px", "cum", "leaves"}
      BY <1>4 DEF VOrder
    <3> HIDE DEF l, c
    <3>4. [b EXCEPT !.cum = c, !.leaves = l] = [side |-> b.side, px |-> b.px, cum |-> c, leaves |-> l]
      <4> HIDE DEF b
      <4>1. [b EXCEPT !.cum = c, !.leaves = l] =
               [f \in DOMAIN b |-> IF f = "leaves" THEN l ELSE IF f = "cum" THEN c ELSE b[f]]
        BY ONLY <3>3
      <4> QED BY ONLY <3>3, <4>1
    <3>5. book' = [k \in DOMAIN book |->
                     IF k = id THEN [side |-> b.side, px |-> b.px, cum |-> c, leaves |-> l] ELSE book[k]]
      BY ONLY <1>1, <1>4, <3>2, <3>4
    <3>6. book' = Trade(book, id, n)
      BY <3>5 DEF Trade, l, c
    <3> HIDE DEF b
    <3> QED BY <1>1, <1>2, <1>3, <1>5, <3>1, <3>6, TradeStep DEF b
  <2> QED BY <2>1, <2>2
<1> QED BY <1>1, <1>5, <1>6, VenueTellsStep

LEMMA VenueExpireStep ==
    ASSUME TableInv, WireInv, ChanInv, AccountInv, RiskInv, NEW id, VenueExpire(id)
    PROVE  TableInv' /\ WireInv' /\ ChanInv' /\ AccountInv' /\ RiskInv'
<1> DEFINE m == Report("Expired", id)
<1>1. /\ Live /\ id \in DOMAIN book /\ book' = Drop(book, id) /\ reports' = Append(reports, m)
      /\ UNCHANGED <<requests, tableVars, accountVars, raced>>
  BY DEF VenueExpire, Drop, Without
<1>2. book \in Books
  BY <1>1, LinkLast DEF ChanInv
<1>3. id \in Id
  BY <1>1, <1>2, BookIs
<1>4. m \in Rep /\ m.type = "Expired" /\ m.id = id
  BY <1>3, ReportType DEF ReportTypes
<1> HIDE DEF m
<1>5. book' \in Books /\ Step(book, m, book')
  BY <1>1, <1>2, <1>4, DropStep
<1> QED BY <1>1, <1>4, <1>5, VenueTellsStep

-----------------------------------------------------------------------------
(* The loop, the operator, and the invariant as a whole.                   *)

OrdersInv == TableInv /\ WireInv /\ ChanInv /\ AccountInv /\ RiskInv

LEMMA OrdersSame ==
    ASSUME OrdersInv, UNCHANGED <<tableVars, accountVars, routerVars, raced>>
    PROVE  OrdersInv'
<1>1. UNCHANGED <<rows, open, nextId, accountVars, requests, reports, book, raced>>
  BY DEF tableVars, routerVars
<1>2. TableInv' /\ WireInv' /\ ChanInv'
  BY <1>1 DEF OrdersInv, TableInv, WireInv, ChanInv
<1>3. AccountInv' /\ RiskInv'
  BY <1>1, AccountSame, RiskSame DEF OrdersInv
<1> QED BY <1>2, <1>3 DEF OrdersInv

LEMMA LoopSame ==
    ASSUME LoopInv, UNCHANGED <<loopVars, controlVars>>, raced' \in BOOLEAN
    PROVE  LoopInv'
<1>1. UNCHANGED <<pc, swapping, cached, ci, lag, flags, term, ops>>
  BY DEF loopVars, controlVars
<1> QED BY <1>1 DEF LoopInv

LEMMA RacedType ==
    ASSUME LoopInv, MeetsAmend \/ raced' = raced
    PROVE  raced' \in BOOLEAN
BY DEF LoopInv, MeetsAmend

LEMMA StrategyStep ==
    ASSUME IInv, Strategy
    PROVE  IInv'
<1>1. OrdersInv /\ LoopInv
  BY DEF IInv, OrdersInv
<1>2. SUFFICES OrdersInv' /\ LoopInv'
  BY DEF IInv, OrdersInv
<1>3. DOMAIN rows = 1..Len(rows)
  BY <1>1, RowsUnique DEF OrdersInv
<1>4. ASSUME NEW d \in Side, NEW px \in Px, NEW n \in Qty, NEW tif \in Tif, NEW ref \in RefPx(px),
             Submit(d, px, ref, n, tif)
      PROVE  OrdersInv' /\ LoopInv'
  <2>1. OrdersInv'
    BY <1>1, <1>4, SubmitStep DEF OrdersInv
  <2>2. UNCHANGED <<loopVars, controlVars>> /\ MeetsAmend
    BY <1>4 DEF Submit
  <2> QED BY <1>1, <2>1, <2>2, RacedType, LoopSame
<1>5. ASSUME NEW d \in Side, NEW px \in Px, NEW n \in Qty, NEW tif \in Tif, NEW ref \in RefPx(px),
             SubmitRingFull(d, px, ref, n, tif)
      PROVE  OrdersInv' /\ LoopInv'
  <2>1. OrdersInv'
    BY <1>1, <1>5, SubmitRingFullStep DEF OrdersInv
  <2>2. UNCHANGED <<loopVars, controlVars>> /\ raced' = raced
    BY <1>5 DEF SubmitRingFull
  <2> QED BY <1>1, <2>1, <2>2, RacedType, LoopSame
<1>6. ASSUME NEW i \in DOMAIN rows, Cancel(i)
      PROVE  OrdersInv' /\ LoopInv'
  <2>1. CancelRow(i) /\ UNCHANGED <<open, nextId, accountVars, raced>> /\ UNCHANGED <<loopVars, controlVars>>
    BY <1>6 DEF Cancel
  <2>2. OrdersInv'
    BY <1>1, <1>3, <2>1, CancelStep DEF OrdersInv
  <2>3. raced' = raced
    BY <2>1
  <2> QED BY <1>1, <2>1, <2>2, <2>3, RacedType, LoopSame
<1>7. ASSUME NEW i \in DOMAIN rows, NEW px \in Px, NEW n \in Qty, Replace(i, px, n)
      PROVE  OrdersInv' /\ LoopInv'
  <2>1. OrdersInv'
    BY <1>1, <1>3, <1>7, ReplaceStep DEF OrdersInv
  <2>2. UNCHANGED <<loopVars, controlVars>> /\ MeetsAmend
    BY <1>7 DEF Replace
  <2> QED BY <1>1, <2>1, <2>2, RacedType, LoopSame
<1> QED BY <1>4, <1>5, <1>6, <1>7 DEF Strategy

LEMMA VenueStep ==
    ASSUME IInv, Venue
    PROVE  IInv'
<1>1. OrdersInv /\ LoopInv
  BY DEF IInv, OrdersInv
<1>2. SUFFICES OrdersInv' /\ LoopInv'
  BY DEF IInv, OrdersInv
<1>3. OrdersInv'
  BY <1>1, VenueRequestStep, VenueExpireStep, VenueFillStep DEF Venue, OrdersInv
<1>4. UNCHANGED <<loopVars, controlVars>> /\ raced' = raced
  BY DEF Venue, VenueRequest, VenueExpire, VenueFill
<1> QED BY <1>1, <1>3, <1>4, RacedType, LoopSame

LEMMA OperatorStep ==
    ASSUME IInv, Operator
    PROVE  IInv'
<1>1. OrdersInv /\ LoopInv
  BY DEF IInv, OrdersInv
<1>2. SUFFICES OrdersInv' /\ LoopInv'
  BY DEF IInv, OrdersInv
<1>3. UNCHANGED <<tableVars, accountVars, routerVars, raced>>
  BY DEF Operator, SetFlag, ClearFlag, Terminate, OrdersUnchanged
<1>4. OrdersInv'
  BY <1>1, <1>3, OrdersSame
<1>5. raced' \in BOOLEAN
  BY <1>1, <1>3 DEF LoopInv
<1>6. ops \in 0..MaxOps /\ MaxOps \in Nat
  BY <1>1, OrdersAssumption DEF LoopInv
<1>7. ASSUME NEW f \in {"kill", "pause", "swap"}, SetFlag(f) PROVE LoopInv'
  <2>1. ops' \in 0..MaxOps
    BY <1>6, <1>7 DEF SetFlag
  <2>2. /\ flags' = flags \cup {f} /\ lag' = (IF f = "kill" THEN 0 ELSE lag)
        /\ UNCHANGED <<pc, swapping, cached, ci, term>>
    BY <1>7 DEF SetFlag
  <2> QED BY <1>1, <1>5, <2>1, <2>2 DEF LoopInv
<1>8. ASSUME NEW f \in {"kill", "pause"}, ClearFlag(f) PROVE LoopInv'
  <2>1. ops' \in 0..MaxOps
    BY <1>6, <1>8 DEF ClearFlag
  <2>2. flags' = flags \ {f} /\ UNCHANGED <<pc, swapping, cached, ci, lag, term>>
    BY <1>8 DEF ClearFlag, loopVars
  <2> QED BY <1>1, <1>5, <2>1, <2>2 DEF LoopInv
<1>9. ASSUME Terminate PROVE LoopInv'
  <2>1. ops' \in 0..MaxOps
    BY <1>6, <1>9 DEF Terminate
  <2>2. term' = TRUE /\ UNCHANGED <<pc, swapping, cached, ci, lag, flags>>
    BY <1>9 DEF Terminate, loopVars
  <2> QED BY <1>1, <1>5, <2>1, <2>2 DEF LoopInv
<1> QED BY <1>4, <1>7, <1>8, <1>9 DEF Operator

LEMMA HotLoopStep ==
    ASSUME IInv, HotLoop
    PROVE  IInv'
<1>1. OrdersInv /\ LoopInv
  BY DEF IInv, OrdersInv
<1>2. SUFFICES OrdersInv' /\ LoopInv'
  BY DEF IInv, OrdersInv
<1>3. ASSUME UNCHANGED <<tableVars, accountVars, routerVars, raced>>
      PROVE  OrdersInv' /\ raced' \in BOOLEAN
  BY <1>1, <1>3, OrdersSame DEF LoopInv
<1>4. CASE LoadControl
  <2>1. OrdersInv' /\ raced' \in BOOLEAN
    BY <1>3, <1>4 DEF LoadControl, OrdersUnchanged
  <2>2. swapping' \in BOOLEAN
    BY <1>1, <1>4 DEF LoadControl, LoopInv
  <2>3. /\ pc = "top" /\ cached' = flags /\ pc' \in {"drain", "stop", "cancelAll", "poll"}
        /\ UNCHANGED <<ci, lag, flags, term, ops>>
    BY <1>4 DEF LoadControl, controlVars, Over
  <2> QED BY <1>1, <2>1, <2>2, <2>3 DEF LoopInv
<1>5. CASE PollReport
  <2>1. OrdersInv'
    BY <1>1, <1>5, PollStep DEF PollReport, OrdersInv
  <2>2. raced' \in BOOLEAN
    BY <1>1, <1>5, RacedType DEF PollReport
  <2>3. /\ pc' \in {"onExec", "drainExec", pc} /\ (pc' = "onExec" => pc = "poll")
        /\ (pc' = "drainExec" => pc = "drain") /\ pc \in {"poll", "drain", "await"}
        /\ UNCHANGED <<swapping, cached, ci, lag, flags, term, ops>>
    BY <1>5 DEF PollReport, controlVars
  <2> QED BY <1>1, <2>1, <2>2, <2>3 DEF LoopInv
<1>6. CASE PopFrame
  <2>1. OrdersInv' /\ raced' \in BOOLEAN
    BY <1>3, <1>6 DEF PopFrame, OrdersUnchanged
  <2>2. /\ pc \in {"poll", "drain"} /\ pc' = (IF pc = "poll" THEN "tick" ELSE "drainTick")
        /\ lag' = (IF "kill" \in flags \ cached /\ lag < 2 THEN lag + 1 ELSE lag)
        /\ UNCHANGED <<swapping, cached, ci, flags, term, ops>>
    BY <1>6 DEF PopFrame, controlVars
  <2>3. lag' \in 0..2 /\ (pc = "poll" => lag' <= 1)
    BY <1>1, <2>2 DEF LoopInv
  <2> QED BY <1>1, <2>1, <2>2, <2>3 DEF LoopInv
<1>7. CASE NoFrame \/ StrategyDone
  <2>1. OrdersInv' /\ raced' \in BOOLEAN
    BY <1>3, <1>7 DEF NoFrame, StrategyDone, OrdersUnchanged
  <2>2. UNCHANGED <<swapping, cached, ci, lag, flags, term, ops>>
    BY <1>7 DEF NoFrame, StrategyDone, controlVars
  <2>3. \/ pc' \in {"top", "timer"} /\ pc \in {"poll", "tick", "timer", "start"}
        \/ pc' = "poll" /\ pc = "onExec"
        \/ pc' \in {"stop", "cancelAll", "drain"}
    <3>1. CASE NoFrame
      BY <3>1 DEF NoFrame, IterationEnd, Over
    <3>2. CASE StrategyDone
      <4>1. IterationEnd \subseteq {"top", "timer"}
        BY DEF IterationEnd
      <4> QED BY <3>2, <4>1 DEF StrategyDone, InStrategy
    <3> QED BY <1>7, <3>1, <3>2
  <2> QED BY <1>1, <2>1, <2>2, <2>3 DEF LoopInv
<1>8. CASE CancelAll
  <2>1. /\ pc = "cancelAll" /\ UNCHANGED <<swapping, cached, lag, flags, term, ops>> /\ raced' = raced
        /\ UNCHANGED <<open, nextId, accountVars, raced>>
    BY <1>8 DEF CancelAll, controlVars
  <2>2. raced' \in BOOLEAN
    BY <1>1, <2>1, RacedType
  <2>3. CASE ci < Len(rows)
    <3>1. CancelRow(ci + 1) /\ ci' = ci + 1 /\ pc' = pc
      BY <1>8, <2>3 DEF CancelAll
    <3>2. Len(rows) \in Nat /\ Len(rows) <= MaxRows /\ MaxRows \in Nat /\ ci \in 0..MaxRows
      BY <1>1, RowsUnique, OrdersAssumption DEF OrdersInv, TableInv, LoopInv
    <3>3. ci + 1 \in 1..Len(rows) /\ ci' \in 0..MaxRows
      BY <2>3, <3>1, <3>2
    <3>4. OrdersInv'
      BY <1>1, <2>1, <3>1, <3>3, CancelStep DEF OrdersInv
    <3> QED BY <1>1, <2>1, <2>2, <3>1, <3>3, <3>4 DEF LoopInv
  <2>4. CASE ~(ci < Len(rows))
    <3>1. pc' = "await" /\ ci' = ci /\ UNCHANGED <<rows, routerVars>>
      BY <1>8, <2>4 DEF CancelAll
    <3>2. OrdersInv'
      BY <1>1, <2>1, <3>1, OrdersSame DEF tableVars
    <3> QED BY <1>1, <2>1, <2>2, <3>1, <3>2 DEF LoopInv
  <2> QED BY <2>3, <2>4
<1>9. CASE AwaitOver
  <2>1. OrdersInv' /\ raced' \in BOOLEAN
    BY <1>3, <1>9 DEF AwaitOver, OrdersUnchanged
  <2>2. /\ pc' = "done" /\ flags' \in {flags, flags \ {"swap"}}
        /\ UNCHANGED <<swapping, cached, ci, lag, term, ops>>
    BY <1>9 DEF AwaitOver
  <2> QED BY <1>1, <2>1, <2>2 DEF LoopInv
<1> QED BY <1>4, <1>5, <1>6, <1>7, <1>8, <1>9 DEF HotLoop

LEMMA InitInv == Init => IInv
<1> SUFFICES ASSUME Init PROVE IInv
  OBVIOUS
<1>1. /\ rows = <<>> /\ open = [d \in Side |-> 0] /\ nextId = 1 /\ pos = 0
      /\ total = [d \in Side |-> IF d = "buy" THEN Quote0 ELSE Base0]
      /\ reserved = [d \in Side |-> 0] /\ slip = 0
      /\ requests = <<>> /\ reports = <<>> /\ book = <<>>
  BY DEF Init
<1>2. /\ Quote0 \in Nat /\ Base0 \in Nat /\ MaxPosition \in Nat /\ MaxRows \in Nat /\ QUEUE \in Nat
      /\ MaxSubmits \in Nat /\ MaxOps \in Nat
  BY OrdersAssumption
<1>3. \A S : /\ <<>> \in Seq(S) /\ Len(<<>>) = 0
  BY EmptySeq
<1>4. DOMAIN <<>> = {} /\ <<>> = [k \in {} |-> <<>>[k]]
  <2>1. <<>> \in [1..Len(<<>>) -> Id] /\ DOMAIN <<>> = 1..Len(<<>>)
    BY <1>3, LenProperties
  <2>2. 1..Len(<<>>) = {}
    BY <1>3
  <2> QED BY <2>1, <2>2
<1>5. RowSet(rows) = {}
  BY <1>1, <1>4 DEF RowSet
<1>6. TableInv
  BY <1>1, <1>2, <1>3, <1>4, <1>5 DEF TableInv, Distinct
<1>7. WireInv
  <2>1. 1..0 = {}
    OBVIOUS
  <2> QED BY <1>1, <1>2, <1>3, <2>1 DEF WireInv
<1>8. ChanInv
  <2> DEFINE h == <<book>>
  <2>1. book \in Books /\ DOMAIN book = {}
    BY <1>1, <1>4, BookIs
  <2>2. h \in Seq(Books) /\ Len(h) = 1 /\ h[1] = book
    BY <2>1
  <2> HIDE DEF h
  <2>3. \A k \in 1..Len(h) : k = 1 /\ h[k] = book
    BY <2>2
  <2>4. Len(requests) = 0 /\ Len(reports) = 0 /\ \A k \in 1..0 : FALSE
    BY <1>1, <1>3
  <2>5. Fresh(requests, reports, h)
    BY <2>4 DEF Fresh
  <2>6. Entered(reports, h)
    BY <2>1, <2>3 DEF Entered
  <2>7. Chan(RowSet(rows), requests, reports, h)
    BY <1>5, <2>1, <2>2, <2>3, <2>4, <2>5, <2>6 DEF Chan
  <2>8. \A k \in 1..Len(h) : NoFills(h[k])
    BY <2>1, <2>3 DEF NoFills
  <2>9. Linked(RowSet(rows), requests, reports, book)
    BY <2>2, <2>7, <2>8 DEF Linked
  <2> QED BY <2>9 DEF ChanInv
<1>9. AccountInv
  <2>1. \A g : SumRows(g, rows) = 0
    BY <1>1, <1>4, SumEmpty DEF SumRows
  <2>2. total \in [Side -> Int]
    BY <1>1, <1>2
  <2> QED BY <1>1, <2>1, <2>2 DEF AccountInv
<1>10. RiskInv
  <2>1. \A d \in Side : Room(d) >= 0 /\ Slack(d) >= 0
    BY <1>1, <1>2 DEF Room, Slack, Side
  <2> QED BY <1>5, <2>1 DEF RiskInv
<1>11. LoopInv
  <2>1. /\ pc \in {"start", "top"} /\ flags = {} /\ cached = {} /\ ci = 0 /\ lag = 0 /\ ops = 0
    BY DEF Init
  <2>2. term \in BOOLEAN /\ swapping \in BOOLEAN /\ raced \in BOOLEAN
    BY DEF Init
  <2> QED BY <1>2, <2>1, <2>2 DEF LoopInv
<1> QED BY <1>6, <1>7, <1>8, <1>9, <1>10, <1>11 DEF IInv

-----------------------------------------------------------------------------
(* The theorems.                                                           *)

\* Every step of exec, of the operator and of the venue keeps the invariant.
THEOREM Invariance == Spec => []IInv
<1>1. IInv /\ [Next]_vars => IInv'
  <2> SUFFICES ASSUME IInv, [Next]_vars PROVE IInv'
    OBVIOUS
  <2>1. CASE Next
    BY <2>1, StrategyStep, HotLoopStep, OperatorStep, VenueStep DEF Next
  <2>2. CASE UNCHANGED vars
    <3>1. OrdersInv /\ LoopInv
      BY DEF IInv, OrdersInv
    <3>2. UNCHANGED <<tableVars, accountVars, routerVars, raced>> /\ UNCHANGED <<loopVars, controlVars>>
          /\ raced' = raced
      BY <2>2 DEF vars
    <3>3. OrdersInv' /\ LoopInv'
      BY <3>1, <3>2, OrdersSame, RacedType, LoopSame
    <3> QED BY <3>3 DEF IInv, OrdersInv
  <2> QED BY <2>1, <2>2
<1> QED BY <1>1, InitInv, PTL DEF Spec

\* As many identifiers as rows.
LEMMA IdsCounted ==
    ASSUME TableInv
    PROVE  Cardinality(LiveIds) = Len(rows)
<1> DEFINE f == [i \in 1..Len(rows) |-> rows[i].id]
<1>1. DOMAIN rows = 1..Len(rows) /\ Len(rows) \in Nat
  BY RowsUnique
<1>2. f \in Bijection(1..Len(rows), LiveIds)
  <2>1. \A i, j \in 1..Len(rows) : rows[i].id = rows[j].id => i = j
    BY <1>1 DEF TableInv, Distinct
  <2>2. f \in [1..Len(rows) -> LiveIds] /\ \A t \in LiveIds : \E i \in 1..Len(rows) : f[i] = t
    BY <1>1 DEF LiveIds
  <2> QED BY <2>1, <2>2 DEF Bijection, Injection, Surjection, IsInjective
<1>3. ExistsBijection(1..Len(rows), LiveIds)
  BY <1>2 DEF ExistsBijection
<1>4. IsFiniteSet(1..Len(rows)) /\ Cardinality(1..Len(rows)) = Len(rows)
  <2> DEFINE n == Len(rows)
  <2>1. n \in Int /\ 1 \in Int /\ n \in Nat
    BY <1>1
  <2> HIDE DEF n
  <2>2. IsFiniteSet(1..n) /\ Cardinality(1..n) = IF 1 > n THEN 0 ELSE n - 1 + 1
    BY ONLY <2>1, FS_Interval
  <2>3. (IF 1 > n THEN 0 ELSE n - 1 + 1) = n
    BY ONLY <2>1
  <2> QED BY <2>2, <2>3 DEF n
<1> QED BY <1>3, <1>4, FS_Bijection

\* Every variable of exec's order path keeps its type: the table, the ring and
\* NullRouter's queue stay within MAX_ROWS and QUEUE, no two live rows share an
\* identifier, no row is left with nothing, and neither the open lots nor the
\* reserved funds ever go below zero (OrderTable::insert, Account::release).
THEOREM TypeCorrect == Spec => []TypeOK
<1>1. IInv => TypeOK
  <2> SUFFICES ASSUME IInv PROVE TypeOK
    OBVIOUS
  <2>0. TableInv /\ WireInv /\ AccountInv /\ LoopInv
    BY DEF IInv
  <2>1. Len(rows) <= MaxRows /\ nextId \in 1..(MaxSubmits + 1) /\ rows \in Seq(Row)
    BY <2>0 DEF TableInv
  <2>2. \A i \in DOMAIN rows : rows[i] \in Row
    BY <2>0, RowsUnique
  <2>3. Cardinality(LiveIds) = Len(rows)
    BY <2>0, IdsCounted
  <2>4. open \in [Side -> Nat] /\ reserved \in [Side -> Nat] /\ total \in [Side -> Int] /\ pos \in Int
    <3>1. \A d \in Side : open[d] \in Nat /\ reserved[d] \in Nat
      <4> TAKE d \in Side
      <4>1. SumRows(Lots(d), rows) \in Nat /\ SumRows(Locks(d), rows) \in Nat
        BY <2>1, WeightTypes, SumRowsType
      <4> QED BY <2>0, <4>1 DEF AccountInv
    <3> QED BY <2>0, <3>1 DEF AccountInv
  <2>5. Len(requests) <= QUEUE /\ (~Live => Len(reports) <= QUEUE)
    BY <2>0 DEF WireInv
  <2>6. /\ pc \in {"start", "top", "poll", "onExec", "tick", "timer", "drain", "drainExec",
                   "drainTick", "stop", "cancelAll", "await", "done"}
        /\ flags \subseteq {"kill", "pause", "swap"} /\ cached \subseteq {"kill", "pause", "swap"}
        /\ ci \in 0..MaxRows /\ lag \in 0..2 /\ ops \in 0..MaxOps
    BY <2>0 DEF LoopInv
  <2>7. term \in BOOLEAN /\ swapping \in BOOLEAN /\ raced \in BOOLEAN
    BY <2>0 DEF LoopInv
  <2> QED BY <2>1, <2>2, <2>3, <2>4, <2>5, <2>6, <2>7 DEF TypeOK
<1> QED BY <1>1, Invariance, PTL

\* Open lots and reserved funds, which insert, erase, set_leaves, reserve,
\* release and on_fill keep incrementally, are at every moment the sums over the
\* rows of the table, for any number of orders, amends, fills and races.
THEOREM Balanced == Spec => []BooksBalance
<1>1. IInv => BooksBalance
  <2> SUFFICES ASSUME IInv, NEW d \in Side
               PROVE  /\ open[d] = SumFunctionOnSet(LeavesOf(d), DOMAIN rows)
                      /\ reserved[d] = SumFunctionOnSet(LockedBy(d), DOMAIN rows)
    BY DEF BooksBalance
  <2>0. TableInv /\ AccountInv
    BY DEF IInv
  <2>1. \A i \in DOMAIN rows : rows[i] \in Row
    BY <2>0, RowsUnique
  <2>2. [i \in DOMAIN rows |-> Lots(d)[rows[i]]] = LeavesOf(d)
    BY <2>1, WeightTypes DEF LeavesOf
  <2>3. [i \in DOMAIN rows |-> Locks(d)[rows[i]]] = LockedBy(d)
    BY <2>1, WeightTypes DEF LockedBy
  <2>4. open[d] = SumRows(Lots(d), rows) /\ reserved[d] = SumRows(Locks(d), rows)
    BY <2>0 DEF AccountInv
  <2> QED BY <2>2, <2>3, <2>4 DEF SumRows
<1> QED BY <1>1, Invariance, PTL

\* Once no request and no report is in flight, exec's table and the venue's book
\* hold the same orders at the same terms: apply_report never loses, duplicates
\* or misapplies what a fill, a cancel, an amend and a reject did while crossing.
THEOREM Agreement == Spec => []AgreesWithVenue
<1>1. IInv => AgreesWithVenue
  <2> SUFFICES ASSUME IInv, Live, requests = <<>>, reports = <<>>
               PROVE  /\ LiveIds = DOMAIN book
                      /\ \A i \in DOMAIN rows :
                            /\ rows[i].leaves = book[rows[i].id].leaves
                            /\ rows[i].cum = book[rows[i].id].cum
                            /\ book[rows[i].id].px \in {0, rows[i].px}
    BY DEF AgreesWithVenue
  <2>0. TableInv /\ ChanInv
    BY DEF IInv
  <2> DEFINE R == RowSet(rows)
  <2>1. PICK h \in Seq(Books) : Chan(R, requests, reports, h) /\ h[Len(h)] = book
    BY <2>0 DEF ChanInv, Linked
  <2>2. Len(requests) = 0 /\ Len(reports) = 0
    BY EmptySeq
  <2>3. Len(h) = 1 /\ 1 \in 1..Len(h) /\ h[1] = book
    BY <2>1, <2>2 DEF Chan
  <2>4. \A x \in DOMAIN book : \E r \in R : r.id = x
    BY <2>1, <2>3 DEF Chan
  <2>5. ASSUME NEW r \in R PROVE r.id \in DOMAIN book /\ Agrees(r, book[r.id])
    <3>1. Known(r, requests, reports, h)
      BY <2>1 DEF Chan
    <3>2. \A k \in 1..0 : FALSE
      OBVIOUS
    <3> QED BY <2>2, <2>3, <3>1, <3>2 DEF Known
  <2>6. \A i \in DOMAIN rows : rows[i] \in R
    BY DEF RowSet
  <2>7. LiveIds = DOMAIN book
    BY <2>4, <2>5, <2>6 DEF LiveIds, RowSet
  <2> QED BY <2>5, <2>6, <2>7 DEF Agrees
<1> QED BY <1>1, Invariance, PTL

\* The position limit holds even if every open order of a side fills, as long as
\* no order, amend or fill has met an amend in flight (position_check).
THEOREM PositionLimited == Spec => []WithinPositionLimit
<1>1. IInv => WithinPositionLimit
  <2> SUFFICES ASSUME IInv, ~raced, MaxPosition # 0
               PROVE  pos + open["buy"] <= MaxPosition /\ pos - open["sell"] >= -MaxPosition
    BY DEF WithinPositionLimit
  <2>1. AccountInv /\ Slack("buy") >= 0 /\ Slack("sell") >= 0
    BY DEF IInv, RiskInv, Side
  <2>2. pos \in Int /\ open["buy"] \in Int /\ open["sell"] \in Int /\ MaxPosition \in Nat
    BY <2>1, Headroom, OrdersAssumption DEF Side
  <2>3. MaxPosition - (pos + open["buy"]) >= 0 /\ MaxPosition + (pos - open["sell"]) >= 0
    BY <2>1 DEF Slack
  <2> QED BY ONLY <2>2, <2>3
<1> QED BY <1>1, Invariance, PTL

\* Spot only: exec never has more reserved than it owns, under the same condition,
\* but for what market buys cost beyond the mid they were reserved at (check_new,
\* check_replace, on_fill).
THEOREM Funded == Spec => []NeverOverReserved
<1>1. IInv => NeverOverReserved
  <2> SUFFICES ASSUME IInv, ~raced
               PROVE  Available("buy") >= -slip /\ Available("sell") >= 0
    BY DEF NeverOverReserved
  <2>1. AccountInv /\ Room("buy") >= 0 /\ Room("sell") >= 0
    BY DEF IInv, RiskInv, Side
  <2>2. /\ Available("buy") \in Int /\ Available("sell") \in Int /\ slip \in Nat
        /\ Room("buy") = Available("buy") + slip /\ Room("sell") = Available("sell")
    BY <2>1, Headroom
  <2> QED BY ONLY <2>1, <2>2
<1> QED BY <1>1, Invariance, PTL

\* A KILL the operator sets is seen after at most one more frame: the hot loop
\* reloads the control flags at its top, and only the shutdown drain goes on
\* without another look (run_strategy).
THEOREM KillSeen == Spec => []KillHonoured
<1>1. IInv => KillHonoured
  <2> SUFFICES ASSUME IInv, lag > 1
               PROVE  pc \in {"drain", "drainExec", "drainTick", "stop", "cancelAll", "await", "done"}
    BY DEF KillHonoured
  <2>1. /\ pc \in {"start", "top", "poll", "onExec", "tick", "timer", "drain", "drainExec",
                   "drainTick", "stop", "cancelAll", "await", "done"}
        /\ pc \in {"start", "top", "poll", "onExec", "tick", "timer"} => lag <= 1
        /\ lag \in 0..2
    BY DEF IInv, LoopInv
  <2>2. ~(lag <= 1)
    BY <2>1
  <2> QED BY <2>1, <2>2
<1> QED BY <1>1, Invariance, PTL

-----------------------------------------------------------------------------
(* What a row has pending is answered.                                     *)

\* The request that a mark on a row stands for, and the reports that settle it.
AskOf(x) == IF x = "cancel" THEN "Cancel" ELSE "Replace"
DoneBy(x) == {IF x = "cancel" THEN "Canceled" ELSE "Replaced", "CancelReject"}

\* What is under way, of which order: requests q and reports p.
InFlight(q, p) == {<<q[j].type, q[j].id>> : j \in 1..Len(q)}
                     \cup {<<p[k].type, p[k].id>> : k \in 1..Len(p)}
Coming(r, F) == \A x \in r.pending : \E t \in {AskOf(x)} \cup DoneBy(x) : <<t, r.id>> \in F

\* A cancel or an amend that a row waits for is under way, or its answer is.
PendingInv == \A i \in 1..Len(rows) : Coming(rows[i], InFlight(requests, reports))

\* Row i of the table is marked with x; no other row changes its marks.
Touched(i, x) ==
    /\ Len(rows') = Len(rows) /\ i \in 1..Len(rows)
    /\ \A k \in 1..Len(rows) : rows'[k].id = rows[k].id
    /\ \A k \in 1..Len(rows) : k # i => rows'[k].pending = rows[k].pending
    /\ rows'[i].pending = rows[i].pending \cup {x}

LEMMA PairsPushed ==
    ASSUME NEW s, NEW t, NEW m, Len(s) \in Nat, Pushed(s, t, m)
    PROVE  {<<t[j].type, t[j].id>> : j \in 1..Len(t)}
              = {<<s[j].type, s[j].id>> : j \in 1..Len(s)} \cup {<<m.type, m.id>>}
<1>1. /\ Len(t) = Len(s) + 1 /\ t[Len(s) + 1] = m
      /\ \A k \in 1..Len(s) : t[k] = s[k]
  BY DEF Pushed
<1>2. /\ \A j \in 1..Len(t) : j \in 1..Len(s) \/ j = Len(s) + 1
      /\ \A j \in 1..Len(s) : j \in 1..Len(t)
      /\ Len(s) + 1 \in 1..Len(t)
  BY ONLY Len(s) \in Nat, <1>1
<1> QED BY <1>1, <1>2

LEMMA PairsPopped ==
    ASSUME NEW s, NEW t, Len(s) \in Nat, Popped(s, t)
    PROVE  {<<s[j].type, s[j].id>> : j \in 1..Len(s)}
              \subseteq {<<t[j].type, t[j].id>> : j \in 1..Len(t)} \cup {<<s[1].type, s[1].id>>}
<1>1. Len(s) > 0 /\ Len(t) = Len(s) - 1 /\ \A k \in 1..Len(t) : t[k] = s[k + 1]
  BY DEF Popped
<1>2. \A j \in 1..Len(s) : j = 1 \/ (j - 1 \in 1..Len(t) /\ t[j - 1] = s[j])
  <2> TAKE j \in 1..Len(s)
  <2>1. j # 1 => j - 1 \in 1..Len(t) /\ (j - 1) + 1 = j
    BY ONLY Len(s) \in Nat, <1>1
  <2> QED BY <1>1, <2>1
<1> QED BY <1>2

LEMMA RequestPushed ==
    ASSUME NEW q, NEW p, NEW t, NEW m, Len(q) \in Nat, Pushed(q, t, m)
    PROVE  InFlight(t, p) = InFlight(q, p) \cup {<<m.type, m.id>>}
BY PairsPushed DEF InFlight

LEMMA ReportPushed ==
    ASSUME NEW q, NEW p, NEW t, NEW m, Len(p) \in Nat, Pushed(p, t, m)
    PROVE  InFlight(q, t) = InFlight(q, p) \cup {<<m.type, m.id>>}
BY PairsPushed DEF InFlight

LEMMA RequestPopped ==
    ASSUME NEW q, NEW p, NEW t, Len(q) \in Nat, Popped(q, t)
    PROVE  InFlight(q, p) \subseteq InFlight(t, p) \cup {<<q[1].type, q[1].id>>}
BY PairsPopped DEF InFlight

LEMMA ReportPopped ==
    ASSUME NEW q, NEW p, NEW t, Len(p) \in Nat, Popped(p, t)
    PROVE  InFlight(q, p) \subseteq InFlight(q, t) \cup {<<p[1].type, p[1].id>>}
BY PairsPopped DEF InFlight

\* A routed request is under way, or answered.
LEMMA RouteFlight ==
    ASSUME WireInv, NEW req \in Req, Route(req)
    PROVE  /\ InFlight(requests, reports) \subseteq InFlight(requests', reports')
           /\ \A x \in {"cancel", "replace"} : req.type = AskOf(x) =>
                 \E t \in {AskOf(x)} \cup DoneBy(x) : <<t, req.id>> \in InFlight(requests', reports')
<1>1. /\ requests \in Seq(Req) /\ reports \in Seq(Rep)
      /\ Len(requests) \in Nat /\ Len(reports) \in Nat
  BY LenProperties DEF WireInv
<1>2. /\ req.type \in {"New", "Cancel", "Replace"} /\ req.tif \in {"GTC", "IOC"} /\ req.id \in Id
  BY DEF Req
<1>3. CASE Live
  <2>1. requests' = Append(requests, req) /\ reports' = reports
    BY <1>3 DEF Route
  <2>2. Pushed(requests, requests', req)
    BY <1>1, <2>1, SeqPushed
  <2>3. InFlight(requests', reports) = InFlight(requests, reports) \cup {<<req.type, req.id>>}
    BY <1>1, <2>2, RequestPushed
  <2> QED BY <2>1, <2>3
<1>4. CASE ~Live
  <2>1. requests' = requests /\ reports' = reports \o Answers(req)
    BY <1>4 DEF Route
  <2>2. ASSUME NEW s \in Seq(Rep), NEW t \in ReportTypes
        PROVE  /\ Append(s, Report(t, req.id)) \in Seq(Rep) /\ Len(s) \in Nat
               /\ InFlight(requests, Append(s, Report(t, req.id)))
                     = InFlight(requests, s) \cup {<<t, req.id>>}
    <3> DEFINE m == Report(t, req.id)
    <3>1. m \in Rep /\ m.type = t /\ m.id = req.id
      BY <1>2, ReportType
    <3> HIDE DEF m
    <3>2. Append(s, m) \in Seq(Rep) /\ Pushed(s, Append(s, m), m) /\ Len(s) \in Nat
      BY <3>1, SeqPushed
    <3>3. InFlight(requests, Append(s, m)) = InFlight(requests, s) \cup {<<m.type, m.id>>}
      BY ONLY <3>2, ReportPushed
    <3> QED BY <3>1, <3>2, <3>3 DEF m
  <2>3. CASE req.type = "New" /\ req.tif = "GTC"
    <3>1. reports' = Append(reports, Report("Ack", req.id))
      BY <1>1, <2>1, <2>3, AnswersAre
    <3>2. InFlight(requests, reports') = InFlight(requests, reports) \cup {<<"Ack", req.id>>}
      BY <1>1, <2>2, <3>1 DEF ReportTypes
    <3> QED BY <2>1, <2>3, <3>2 DEF AskOf
  <2>4. CASE req.type = "New" /\ req.tif = "IOC"
    <3> DEFINE s == Append(reports, Report("Ack", req.id))
    <3>1. reports' = Append(s, Report("Expired", req.id))
      BY <1>1, <2>1, <2>4, AnswersAre
    <3>2. s \in Seq(Rep) /\ InFlight(requests, s) = InFlight(requests, reports) \cup {<<"Ack", req.id>>}
      BY <1>1, <2>2 DEF ReportTypes
    <3> HIDE DEF s
    <3>3. InFlight(requests, reports') = InFlight(requests, s) \cup {<<"Expired", req.id>>}
      BY <2>2, <3>1, <3>2 DEF ReportTypes
    <3> QED BY <2>1, <2>4, <3>2, <3>3 DEF AskOf
  <2>5. CASE req.type = "Cancel"
    <3>1. reports' = Append(reports, Report("Canceled", req.id))
      BY <1>1, <2>1, <2>5, AnswersAre
    <3>2. InFlight(requests, reports') = InFlight(requests, reports) \cup {<<"Canceled", req.id>>}
      BY <1>1, <2>2, <3>1 DEF ReportTypes
    <3> QED BY <2>1, <2>5, <3>2 DEF AskOf, DoneBy
  <2>6. CASE req.type = "Replace"
    <3>1. reports' = Append(reports, Report("Replaced", req.id))
      BY <1>1, <2>1, <2>6, AnswersAre
    <3>2. InFlight(requests, reports') = InFlight(requests, reports) \cup {<<"Replaced", req.id>>}
      BY <1>1, <2>2, <3>1 DEF ReportTypes
    <3> QED BY <2>1, <2>6, <3>2 DEF AskOf, DoneBy
  <2> QED BY <1>2, <2>3, <2>4, <2>5, <2>6
<1> QED BY <1>3, <1>4

\* What report m settles of a row that it speaks of and that stays.
Settles(m) == IF m.type = "Replaced" THEN {"replace"}
              ELSE IF m.type = "CancelReject" THEN {"cancel", "replace"} ELSE {}

\* Row t is what report m leaves of row r.
Outlives(r, m, t) ==
    /\ t.id = r.id
    /\ t.pending = r.pending \ (IF r.id = m.id THEN Settles(m) ELSE {})
    /\ r.id = m.id => m.type \notin {"Reject", "Canceled", "Expired"}

\* apply_report: every row left comes from one that was there.
LEMMA PollRows ==
    ASSUME TableInv, NEW m \in Rep, ApplyReport(m)
    PROVE  /\ Len(rows') \in Nat /\ Len(rows') <= Len(rows)
           /\ \A k \in 1..Len(rows') : \E j \in 1..Len(rows) : Outlives(rows[j], m, rows'[k])
<1>1. /\ DOMAIN rows = 1..Len(rows) /\ Len(rows) \in Nat /\ rows \in Seq(Row)
      /\ \A k \in 1..Len(rows) : rows[k] \in Row
      /\ \A k, j \in 1..Len(rows) : rows[k].id = rows[j].id => k = j
  <2>1. \A k \in 1..Len(rows) : rows[k] \in Row
    BY RowsUnique
  <2> QED BY <2>1, RowsUnique DEF TableInv, Distinct
<1>2. m.type \in ReportTypes
  BY DEF Rep
<1>3. CASE m.id \notin LiveIds
  <2>1. rows' = rows /\ \A k \in 1..Len(rows) : rows[k].id # m.id
    BY <1>1, <1>3 DEF ApplyReport, LiveIds
  <2>2. \A k \in 1..Len(rows) : Outlives(rows[k], m, rows[k])
    BY <2>1 DEF Outlives
  <2> QED BY <1>1, <2>1, <2>2
<1>4. CASE m.id \in LiveIds
  <2> DEFINE i == PosOf(m.id)
  <2>1. i \in 1..Len(rows) /\ rows[i].id = m.id
    <3>1. \E k \in DOMAIN rows : rows[k].id = m.id
      BY <1>4 DEF LiveIds
    <3> QED BY <1>1, <3>1 DEF PosOf
  <2>2. /\ m.type = "Ack" => rows' = rows
        /\ m.type = "Fill" => OnFill(i, m)
        /\ m.type = "Replaced" => OnReplaced(i)
        /\ m.type = "CancelReject" => OnCancelReject(i)
        /\ m.type \in {"Reject", "Canceled", "Expired"} => Finish(i)
    BY <1>4 DEF ApplyReport
  <2> HIDE DEF i
  <2>3. \A k \in 1..Len(rows) : k # i => rows[k].id # m.id
    BY <1>1, <2>1
  <2>4. \A k \in 1..Len(rows) : k # i => Outlives(rows[k], m, rows[k])
    BY <2>3 DEF Outlives
  <2>5. ASSUME rows' = SwapRemove(rows, i)
        PROVE  /\ Len(rows') \in Nat /\ Len(rows') <= Len(rows)
               /\ \A k \in 1..Len(rows') : \E j \in 1..Len(rows) : Outlives(rows[j], m, rows'[k])
    <3>1. /\ rows' \in Seq(Row) /\ Len(rows') = Len(rows) - 1
          /\ RowSet(rows') = RowSet(rows) \ {rows[i]}
      <4>1. Distinct(rows)
        BY DEF TableInv
      <4> QED BY <1>1, <2>1, <2>5, <4>1, RemovedRows
    <3>2. Len(rows') \in Nat /\ DOMAIN rows' = 1..Len(rows')
      BY <3>1, LenProperties
    <3>3. ASSUME NEW k \in 1..Len(rows')
          PROVE  \E j \in 1..Len(rows) : Outlives(rows[j], m, rows'[k])
      <4>1. rows'[k] \in RowSet(rows')
        BY <3>2 DEF RowSet
      <4>2. rows'[k] \in RowSet(rows) /\ rows'[k] # rows[i]
        BY <3>1, <4>1
      <4>3. PICK j \in 1..Len(rows) : rows'[k] = rows[j]
        BY <1>1, <4>2 DEF RowSet
      <4> QED BY <2>4, <4>2, <4>3
    <3> QED BY <1>1, <3>1, <3>2, <3>3
  <2>6. ASSUME NEW s, rows' = [rows EXCEPT ![i] = s], s.id = m.id,
               s.pending = rows[i].pending \ Settles(m),
               m.type \notin {"Reject", "Canceled", "Expired"}
        PROVE  /\ Len(rows') \in Nat /\ Len(rows') <= Len(rows)
               /\ \A k \in 1..Len(rows') : \E j \in 1..Len(rows) : Outlives(rows[j], m, rows'[k])
    <3>1. /\ Len(rows') = Len(rows) /\ rows'[i] = s
          /\ \A k \in 1..Len(rows) : k # i => rows'[k] = rows[k]
      BY <1>1, <2>1, <2>6
    <3>2. Outlives(rows[i], m, s)
      BY <2>1, <2>6 DEF Outlives
    <3> QED BY <1>1, <2>4, <3>1, <3>2
  <2> DEFINE r == rows[i]
  <2>7. /\ r \in Row /\ DOMAIN r = {"id", "side", "px", "qty", "leaves", "cum", "pending", "newPx", "newQty"}
    BY <1>1, <2>1, RowFields
  <2>8. CASE m.type = "Ack"
    <3>1. Outlives(rows[i], m, rows[i])
      BY <2>8 DEF Outlives, Settles
    <3> QED BY <1>1, <2>2, <2>4, <2>8, <3>1
  <2>9. CASE m.type = "Fill"
    <3> DEFINE left == IF r.leaves > m.qty THEN r.leaves - m.qty ELSE 0
               s == [r EXCEPT !.cum = @ + m.qty, !.leaves = left]
    <3>1. rows' = IF left = 0 THEN SwapRemove(rows, i)
                  ELSE [rows EXCEPT ![i].cum = @ + m.qty, ![i].leaves = left]
      BY <2>2, <2>9 DEF OnFill
    <3>2. s.id = m.id /\ s.pending = r.pending \ Settles(m)
      BY <2>1, <2>7, <2>9 DEF Settles
    <3>3. [rows EXCEPT ![i].cum = @ + m.qty, ![i].leaves = left] = [rows EXCEPT ![i] = s]
      <4> HIDE DEF left
      <4> QED BY <1>1, <2>1
    <3> HIDE DEF left, s
    <3> QED BY <2>5, <2>6, <2>9, <3>1, <3>2, <3>3
  <2>10. CASE m.type = "Replaced"
    <3> DEFINE s == Amended(r)
    <3>1. rows' = [rows EXCEPT ![i] = s]
      <4>1. [rows EXCEPT ![i].px = rows[i].newPx, ![i].qty = rows[i].newQty,
                         ![i].leaves = rows[i].newQty - rows[i].cum, ![i].pending = @ \ {"replace"}]
               = [rows EXCEPT ![i] = Amended(rows[i])]
        BY <1>1, <2>1, WriteAmended
      <4> QED BY <2>2, <2>10, <4>1 DEF OnReplaced
    <3>2. s.id = m.id /\ s.pending = r.pending \ Settles(m)
      BY <2>1, <2>10 DEF Settles, Amended
    <3> HIDE DEF s
    <3> QED BY <2>6, <2>10, <3>1, <3>2
  <2>11. CASE m.type = "CancelReject"
    <3> DEFINE s == Marked(r, {}, r.newPx, r.newQty)
    <3>1. rows' = [rows EXCEPT ![i] = s]
      <4>1. [rows EXCEPT ![i].pending = {}] = [rows EXCEPT ![i] = Marked(rows[i], {}, rows[i].newPx, rows[i].newQty)]
        BY <1>1, <2>1, WriteMarked
      <4> QED BY <2>2, <2>11, <4>1 DEF OnCancelReject
    <3>2. s.id = m.id /\ s.pending = {}
      BY <2>1 DEF Marked
    <3>3. r.pending \ Settles(m) = {}
      BY <2>7, <2>11, RowFields DEF Settles
    <3> HIDE DEF s
    <3> QED BY <2>6, <2>11, <3>1, <3>2, <3>3
  <2>12. CASE m.type \in {"Reject", "Canceled", "Expired"}
    BY <2>2, <2>5, <2>12 DEF Finish
  <2> QED BY <1>2, <2>8, <2>9, <2>10, <2>11, <2>12 DEF ReportTypes
<1> QED BY <1>3, <1>4

\* cancel marks the row and routes the request, or does nothing.
LEMMA CancelRowDoes ==
    ASSUME TableInv, NEW i \in 1..Len(rows), CancelRow(i)
    PROVE  LET req == Request("Cancel", rows[i].id, rows[i].side, rows[i].px, rows[i].leaves, "GTC")
           IN  /\ req \in Req /\ req.id = rows[i].id /\ req.type = "Cancel"
               /\ \/ /\ UNCHANGED <<rows, routerVars>>
                     /\ "cancel" \in rows[i].pending \/ ~HasRoom(req)
                  \/ /\ "cancel" \notin rows[i].pending
                     /\ Route(req) /\ HasRoom(req) /\ Touched(i, "cancel")
<1> DEFINE r == rows[i]
           req == Request("Cancel", r.id, r.side, r.px, r.leaves, "GTC")
<1>1. /\ r \in Row /\ DOMAIN rows = 1..Len(rows)
      /\ \A k \in 1..Len(rows) : "id" \in DOMAIN rows[k] /\ "pending" \in DOMAIN rows[k]
  <2>1. \A k \in 1..Len(rows) : rows[k] \in Row
    BY RowsUnique
  <2> QED BY <2>1, RowsUnique, RowFields
<1>2. req \in Req /\ req.id = r.id /\ req.type = "Cancel"
  <2>1. r.id \in Id /\ r.side \in Side /\ r.px \in Nat /\ r.leaves \in Nat \ {0}
    BY <1>1, RowFields
  <2> QED BY <2>1 DEF Request, Req
<1>3. CASE "cancel" \notin r.pending /\ HasRoom(req)
  <2>1. Route(req) /\ rows' = [rows EXCEPT ![i].pending = @ \cup {"cancel"}]
    BY <1>3 DEF CancelRow
  <2>2. Touched(i, "cancel")
    BY <1>1, <2>1 DEF Touched
  <2> QED BY <1>2, <1>3, <2>1, <2>2
<1>4. CASE ~("cancel" \notin r.pending /\ HasRoom(req))
  BY <1>2, <1>4 DEF CancelRow
<1> QED BY <1>3, <1>4

\* replace marks the row and routes the request.
LEMMA ReplaceDoes ==
    ASSUME TableInv, NEW i \in 1..Len(rows), NEW px \in Px, NEW n \in Qty, Replace(i, px, n)
    PROVE  LET req == Request("Replace", rows[i].id, rows[i].side, px, n, "GTC")
           IN  /\ req \in Req /\ req.id = rows[i].id /\ req.type = "Replace"
               /\ Route(req) /\ HasRoom(req) /\ Touched(i, "replace") /\ rows[i].pending = {}
<1> DEFINE r == rows[i]
           req == Request("Replace", r.id, r.side, px, n, "GTC")
<1>1. /\ r \in Row /\ DOMAIN rows = 1..Len(rows)
      /\ \A k \in 1..Len(rows) : "id" \in DOMAIN rows[k] /\ "pending" \in DOMAIN rows[k]
  <2>1. \A k \in 1..Len(rows) : rows[k] \in Row
    BY RowsUnique
  <2> QED BY <2>1, RowsUnique, RowFields
<1>2. req \in Req /\ req.id = r.id /\ req.type = "Replace"
  <2>1. r.id \in Id /\ r.side \in Side /\ px \in Nat /\ n \in Nat \ {0}
    BY <1>1, RowFields, OrdersAssumption
  <2> QED BY <2>1 DEF Request, Req
<1>3. /\ Route(req) /\ HasRoom(req) /\ r.pending = {}
      /\ rows' = [rows EXCEPT ![i].pending = {"replace"}, ![i].newPx = px, ![i].newQty = n]
  BY DEF Replace
<1>4. Touched(i, "replace")
  <2>1. /\ Len(rows') = Len(rows)
        /\ \A k \in 1..Len(rows) : k # i => rows'[k] = rows[k]
        /\ rows'[i] = [r EXCEPT !.pending = {"replace"}, !.newPx = px, !.newQty = n]
    BY <1>1, <1>3
  <2>2. rows'[i].id = r.id /\ rows'[i].pending = {"replace"}
    BY <1>1, <2>1
  <2> QED BY <1>3, <2>1, <2>2 DEF Touched
<1> QED BY <1>2, <1>3, <1>4

LEMMA PendingAsked ==
    ASSUME PendingInv, TableInv, WireInv, NEW i, NEW x \in {"cancel", "replace"}, Touched(i, x),
           NEW req \in Req, req.id = rows[i].id, req.type = AskOf(x), Route(req)
    PROVE  PendingInv'
<1> DEFINE F == InFlight(requests, reports)
           G == InFlight(requests', reports')
<1>1. /\ F \subseteq G
      /\ \E t \in {AskOf(x)} \cup DoneBy(x) : <<t, req.id>> \in G
  BY RouteFlight
<1>2. \A k \in 1..Len(rows) : Coming(rows[k], F)
  BY DEF PendingInv
<1> HIDE DEF F, G
<1>3. ASSUME NEW k \in 1..Len(rows') PROVE Coming(rows'[k], G)
  <2>1. /\ k \in 1..Len(rows) /\ rows'[k].id = rows[k].id /\ Coming(rows[k], F)
        /\ k # i => rows'[k].pending = rows[k].pending
        /\ rows'[i].pending = rows[i].pending \cup {x}
    BY <1>2 DEF Touched
  <2>2. Coming(rows[k], G)
    BY <1>1, <2>1 DEF Coming
  <2>3. CASE k = i
    BY <1>1, <2>1, <2>2, <2>3 DEF Coming
  <2>4. CASE k # i
    BY <2>1, <2>2, <2>4 DEF Coming
  <2> QED BY <2>3, <2>4
<1> QED BY <1>3 DEF PendingInv, G

LEMMA PendingSubmit ==
    ASSUME PendingInv, TableInv, WireInv, NEW d \in Side, NEW px \in Px, NEW ref \in RefPx(px),
           NEW n \in Qty, NEW tif \in Tif, Submit(d, px, ref, n, tif)
    PROVE  PendingInv'
<1> DEFINE s == NewRow(d, ref, n)
           req == Request("New", nextId, d, px, n, tif)
           F == InFlight(requests, reports)
           G == InFlight(requests', reports')
<1>1. nextId \in Id /\ Route(req) /\ rows' = Append(rows, s)
  BY DEF Submit
<1>2. /\ px \in Nat /\ ref \in Nat /\ n \in Nat \ {0} /\ tif \in {"GTC", "IOC"}
  BY RefPxIs, OrdersAssumption
<1>3. req \in Req
  BY <1>1, <1>2 DEF Request, Req
<1>4. s \in Row /\ s.pending = {}
  BY <1>1, <1>2 DEF NewRow, Row
<1> HIDE DEF s, req
<1>5. F \subseteq G
  BY <1>1, <1>3, RouteFlight
<1>6. /\ Len(rows) \in Nat /\ Len(rows') = Len(rows) + 1 /\ rows'[Len(rows) + 1] = s
      /\ \A k \in 1..Len(rows) : rows'[k] = rows[k]
  <2>1. rows \in Seq(Row)
    BY DEF TableInv
  <2> QED BY <1>1, <1>4, <2>1, SeqPushed DEF Pushed
<1>7. \A k \in 1..Len(rows) : Coming(rows[k], F)
  BY DEF PendingInv
<1> HIDE DEF F, G
<1>8. ASSUME NEW k \in 1..Len(rows') PROVE Coming(rows'[k], G)
  <2>1. CASE k = Len(rows) + 1
    BY <1>4, <1>6, <2>1 DEF Coming
  <2>2. CASE k # Len(rows) + 1
    <3>1. k \in 1..Len(rows)
      BY <1>6, <2>2
    <3> QED BY <1>5, <1>6, <1>7, <3>1 DEF Coming
  <2> QED BY <2>1, <2>2
<1> QED BY <1>8 DEF PendingInv, G

LEMMA PendingPoll ==
    ASSUME PendingInv, TableInv, WireInv, PollReport
    PROVE  PendingInv'
<1> DEFINE m == reports[1]
           F == InFlight(requests, reports)
           G == InFlight(requests', reports')
<1>1. /\ reports # <<>> /\ ApplyReport(Head(reports)) /\ reports' = Tail(reports)
      /\ UNCHANGED <<nextId, requests>>
  BY DEF PollReport
<1>2. reports \in Seq(Rep) /\ m \in Rep /\ Head(reports) = m
  BY <1>1, PollWire
<1>3. Len(reports) \in Nat /\ Popped(reports, reports')
  BY <1>1, <1>2, SeqPopped
<1>4. F \subseteq G \cup {<<m.type, m.id>>}
  BY <1>1, <1>3, ReportPopped
<1>5. \A k \in 1..Len(rows') : \E j \in 1..Len(rows) : Outlives(rows[j], m, rows'[k])
  BY <1>1, <1>2, PollRows
<1>6. m.type \in ReportTypes
  BY <1>2 DEF Rep
<1>7. \A j \in 1..Len(rows) : Coming(rows[j], F) /\ rows[j].pending \subseteq {"cancel", "replace"}
  <2>1. \A j \in 1..Len(rows) : rows[j] \in Row
    BY RowsUnique
  <2> QED BY <2>1, RowFields DEF PendingInv
<1> HIDE DEF F, G, m
<1>8. ASSUME NEW k \in 1..Len(rows'), NEW x \in rows'[k].pending
      PROVE  \E t \in {AskOf(x)} \cup DoneBy(x) : <<t, rows'[k].id>> \in G
  <2>1. PICK j \in 1..Len(rows) : Outlives(rows[j], m, rows'[k])
    BY <1>5
  <2> DEFINE r == rows[j]
  <2>2. /\ rows'[k].id = r.id /\ x \in r.pending
        /\ r.id = m.id => x \notin Settles(m) /\ m.type \notin {"Reject", "Canceled", "Expired"}
    BY <2>1 DEF Outlives
  <2>3. x \in {"cancel", "replace"} /\ \E t \in {AskOf(x)} \cup DoneBy(x) : <<t, r.id>> \in F
    BY <1>7, <2>2 DEF Coming
  <2> HIDE DEF r
  <2>4. PICK t \in {AskOf(x)} \cup DoneBy(x) : <<t, r.id>> \in F
    BY <2>3
  <2>5. <<t, r.id>> # <<m.type, m.id>>
    <3> SUFFICES ASSUME t = m.type, r.id = m.id PROVE FALSE
      OBVIOUS
    <3>1. t \in DoneBy(x)
      BY <1>6, <2>3 DEF AskOf, ReportTypes
    <3>2. CASE x = "cancel"
      BY <2>2, <3>1, <3>2 DEF DoneBy, Settles
    <3>3. CASE x = "replace"
      BY <2>2, <3>1, <3>3 DEF DoneBy, Settles
    <3> QED BY <2>3, <3>2, <3>3
  <2> QED BY <1>4, <2>2, <2>4, <2>5
<1> QED BY <1>8 DEF PendingInv, Coming, G

\* The venue answers what it takes from the ring, and takes nothing else.
LEMMA PendingVenue ==
    ASSUME PendingInv, TableInv, WireInv, Venue
    PROVE  PendingInv'
<1> DEFINE F == InFlight(requests, reports)
           G == InFlight(requests', reports')
<1>1. rows' = rows
  BY DEF Venue, VenueRequest, VenueExpire, VenueFill, tableVars
<1>2. /\ requests \in Seq(Req) /\ reports \in Seq(Rep) /\ Len(requests) \in Nat /\ Len(reports) \in Nat
  BY LenProperties DEF WireInv
<1>3. \A j \in 1..Len(rows) : Coming(rows[j], F) /\ rows[j].pending \subseteq {"cancel", "replace"}
  <2>1. \A j \in 1..Len(rows) : rows[j] \in Row
    BY RowsUnique
  <2> QED BY <2>1, RowFields DEF PendingInv
<1>4. ASSUME NEW m, Pushed(reports, reports', m), requests' = requests
      PROVE  F \subseteq G
  BY <1>2, <1>4, ReportPushed
<1>5. ASSUME NEW s, reports' = Append(reports, s)
      PROVE  Pushed(reports, reports', s)
  BY <1>2, <1>5, AppendProperties DEF Pushed
<1>6. SUFFICES \A j \in 1..Len(rows) : Coming(rows[j], F) => Coming(rows[j], G)
  BY <1>1, <1>3 DEF PendingInv
<1>7. CASE VenueRequest
  <2> DEFINE r == Head(requests)
  <2>1. requests # <<>> /\ requests' = Tail(requests)
    BY <1>7 DEF VenueRequest
  <2>2. /\ Popped(requests, requests') /\ r = requests[1] /\ requests[1] \in Req
    BY <1>2, <2>1, SeqPopped
  <2>3. r.type \in {"New", "Cancel", "Replace"}
    BY <2>2 DEF Req
  <2> HIDE DEF r
  <2>4. \E t : /\ reports' = Append(reports, Report(t, r.id))
               /\ r.type = "Cancel" => t \in {"Canceled", "CancelReject"}
               /\ r.type = "Replace" => t \in {"Replaced", "CancelReject"}
    BY <1>7, <2>3 DEF VenueRequest, r
  <2>5. PICK t : /\ reports' = Append(reports, Report(t, r.id))
                 /\ r.type = "Cancel" => t \in {"Canceled", "CancelReject"}
                 /\ r.type = "Replace" => t \in {"Replaced", "CancelReject"}
    BY <2>4
  <2>6. Report(t, r.id).type = t /\ Report(t, r.id).id = r.id
    BY DEF Report
  <2>7. InFlight(requests', reports') = InFlight(requests', reports) \cup {<<t, r.id>>}
    <3> DEFINE s == Report(t, r.id)
    <3>1. Pushed(reports, reports', s) /\ s.type = t /\ s.id = r.id
      BY <1>5, <2>5, <2>6
    <3> HIDE DEF s
    <3> QED BY ONLY <1>2, <3>1, ReportPushed
  <2>8. InFlight(requests, reports) \subseteq InFlight(requests', reports) \cup {<<r.type, r.id>>}
    BY <1>2, <2>2, RequestPopped
  <2>9. F \subseteq G \cup {<<r.type, r.id>>} /\ <<t, r.id>> \in G
    BY <2>7, <2>8
  <2> HIDE DEF F, G
  <2>10. ASSUME NEW j \in 1..Len(rows), Coming(rows[j], F), NEW x \in rows[j].pending
         PROVE  \E u \in {AskOf(x)} \cup DoneBy(x) : <<u, rows[j].id>> \in G
    <3>1. x \in {"cancel", "replace"}
      BY <1>3
    <3>2. PICK u \in {AskOf(x)} \cup DoneBy(x) : <<u, rows[j].id>> \in F
      BY <2>10 DEF Coming
    <3>3. CASE <<u, rows[j].id>> # <<r.type, r.id>>
      BY <2>9, <3>2, <3>3
    <3>4. CASE u = r.type /\ rows[j].id = r.id
      <4>1. u \notin DoneBy(x)
        BY <2>3, <3>1, <3>4 DEF DoneBy
      <4>2. r.type = AskOf(x)
        BY <3>2, <3>4, <4>1
      <4>3. t \in DoneBy(x)
        BY <2>5, <3>1, <4>2 DEF AskOf, DoneBy
      <4> QED BY <2>9, <3>4, <4>3
    <3> QED BY <3>3, <3>4
  <2> QED BY <2>10 DEF Coming
<1>8. CASE \E id \in Id : VenueExpire(id) \/ \E n \in Qty, px \in FillPx : VenueFill(id, n, px)
  <2>1. \E s : reports' = Append(reports, s) /\ requests' = requests
    BY <1>8 DEF VenueExpire, VenueFill
  <2>2. F \subseteq G
    BY <1>4, <1>5, <2>1
  <2> HIDE DEF F, G
  <2> QED BY <2>2 DEF Coming
<1> QED BY <1>7, <1>8 DEF Venue

LEMMA PendingSame ==
    ASSUME PendingInv, UNCHANGED <<rows, requests, reports>>
    PROVE  PendingInv'
BY DEF PendingInv

LEMMA PendingCancel ==
    ASSUME PendingInv, TableInv, WireInv, NEW i \in 1..Len(rows), CancelRow(i)
    PROVE  PendingInv'
<1> DEFINE req == Request("Cancel", rows[i].id, rows[i].side, rows[i].px, rows[i].leaves, "GTC")
<1>1. /\ req \in Req /\ req.id = rows[i].id /\ req.type = "Cancel"
      /\ \/ UNCHANGED <<rows, routerVars>>
         \/ Route(req) /\ Touched(i, "cancel")
  BY CancelRowDoes
<1> HIDE DEF req
<1>2. CASE UNCHANGED <<rows, routerVars>>
  BY <1>2, PendingSame DEF routerVars
<1>3. CASE Route(req) /\ Touched(i, "cancel")
  <2>1. "cancel" \in {"cancel", "replace"} /\ AskOf("cancel") = "Cancel"
    BY DEF AskOf
  <2> QED BY <1>1, <1>3, <2>1, PendingAsked
<1> QED BY <1>1, <1>2, <1>3

LEMMA PendingNext ==
    ASSUME IInv, PendingInv, [Next]_vars
    PROVE  PendingInv'
<1>1. TableInv /\ WireInv /\ DOMAIN rows = 1..Len(rows)
  BY RowsUnique DEF IInv
<1>2. CASE Strategy
  <2>1. ASSUME NEW d \in Side, NEW px \in Px, NEW n \in Qty, NEW tif \in Tif, NEW ref \in RefPx(px),
               Submit(d, px, ref, n, tif) \/ SubmitRingFull(d, px, ref, n, tif)
        PROVE  PendingInv'
    <3>1. CASE Submit(d, px, ref, n, tif)
      BY <1>1, <3>1, PendingSubmit
    <3>2. CASE SubmitRingFull(d, px, ref, n, tif)
      BY <3>2, PendingSame DEF SubmitRingFull, routerVars
    <3> QED BY <2>1, <3>1, <3>2
  <2>2. ASSUME NEW i \in DOMAIN rows, Cancel(i) PROVE PendingInv'
    BY <1>1, <2>2, PendingCancel DEF Cancel
  <2>3. ASSUME NEW i \in DOMAIN rows, NEW px \in Px, NEW n \in Qty, Replace(i, px, n) PROVE PendingInv'
    <3> DEFINE req == Request("Replace", rows[i].id, rows[i].side, px, n, "GTC")
    <3>1. /\ req \in Req /\ req.id = rows[i].id /\ req.type = "Replace"
          /\ Route(req) /\ Touched(i, "replace")
      BY <1>1, <2>3, ReplaceDoes
    <3>2. "replace" \in {"cancel", "replace"} /\ AskOf("replace") = "Replace"
      BY DEF AskOf
    <3> HIDE DEF req
    <3> QED BY <1>1, <3>1, <3>2, PendingAsked
  <2> QED BY <1>2, <2>1, <2>2, <2>3 DEF Strategy
<1>3. CASE HotLoop
  <2>1. CASE PollReport
    BY <1>1, <2>1, PendingPoll
  <2>2. CASE CancelAll
    <3>1. CASE ci < Len(rows)
      <4>1. CancelRow(ci + 1)
        BY <2>2, <3>1 DEF CancelAll
      <4>2. ci + 1 \in 1..Len(rows)
        <5>1. ci \in 0..MaxRows /\ Len(rows) \in Nat /\ MaxRows \in Nat
          BY <1>1, RowsUnique, OrdersAssumption DEF IInv, LoopInv
        <5> QED BY <3>1, <5>1
      <4> QED BY <1>1, <4>1, <4>2, PendingCancel
    <3>2. CASE ~(ci < Len(rows))
      BY <2>2, <3>2, PendingSame DEF CancelAll, routerVars
    <3> QED BY <3>1, <3>2
  <2>3. CASE LoadControl \/ PopFrame \/ NoFrame \/ StrategyDone \/ AwaitOver
    BY <2>3, PendingSame
       DEF LoadControl, PopFrame, NoFrame, StrategyDone, AwaitOver, OrdersUnchanged, tableVars, routerVars
  <2> QED BY <1>3, <2>1, <2>2, <2>3 DEF HotLoop
<1>4. CASE Operator
  BY <1>4, PendingSame
     DEF Operator, SetFlag, ClearFlag, Terminate, OrdersUnchanged, tableVars, routerVars
<1>5. CASE Venue
  BY <1>1, <1>5, PendingVenue
<1>6. CASE UNCHANGED vars
  BY <1>6, PendingSame DEF vars, tableVars, routerVars
<1> QED BY <1>2, <1>3, <1>4, <1>5, <1>6 DEF Next

\* No request about an order is forgotten: as long as a row is marked with a
\* cancel or an amend, the request is in the order ring, or a report that settles
\* it is on its way back (ExecContext::cancel, replace, apply_report), however
\* fills, rejects and the rows that apply_report moves cross it.
THEOREM EveryRequestAnswered == Spec => []PendingInv
<1>1. Init => PendingInv
  <2>1. Len(<<>>) = 0 /\ \A k \in 1..0 : FALSE
    BY EmptySeq
  <2> QED BY <2>1 DEF Init, PendingInv
<1>2. IInv /\ PendingInv /\ [Next]_vars => PendingInv'
  BY PendingNext
<1> QED BY <1>1, <1>2, Invariance, PTL DEF Spec

-----------------------------------------------------------------------------
(* Nothing is left resting, behind the NullRouter.                         *)

\* A live order has four answers under way at most (Ack, Expired, Replaced,
\* Canceled), and the router has room for those of every order.
RoomForAll == 4 * MaxOpen <= QUEUE \/ 4 * MaxRows <= QUEUE

\* Rows marked with x.
Waiting(rs, x) == {i \in 1..Len(rs) : x \in rs[i].pending}

\* Where exec has polled nothing since the queue was last empty.
Quiet == {"start", "top", "tick", "timer", "drainTick", "stop", "cancelAll"}

\* The reports queued are those of the rows: two for the order, one per mark.
FewReports ==
    pc \in Quiet =>
        Len(reports) <= 2 * Len(rows) + Cardinality(Waiting(rows, "replace"))
                                      + Cardinality(Waiting(rows, "cancel"))

\* cancel_all has marked every row that it has visited.
Swept ==
    /\ pc \notin {"cancelAll", "await", "done"} => ci = 0
    /\ pc = "cancelAll" => \A i \in 1..Len(rows) : i <= ci => "cancel" \in rows[i].pending
    /\ pc = "await" => \A i \in 1..Len(rows) : "cancel" \in rows[i].pending
    /\ pc = "done" => rows = <<>>

RestInv ==
    /\ Len(rows) <= MaxOpen
    /\ \A k \in 1..Len(reports) : reports[k].type # "CancelReject"
    /\ FewReports /\ Swept

LEMMA WaitingFinite ==
    ASSUME NEW rs, Len(rs) \in Nat, NEW x
    PROVE  /\ IsFiniteSet(Waiting(rs, x)) /\ Cardinality(Waiting(rs, x)) \in Nat
           /\ Cardinality(Waiting(rs, x)) <= Len(rs)
           /\ \A i \in 1..Len(rs) : i \notin Waiting(rs, x) => Cardinality(Waiting(rs, x)) < Len(rs)
<1> DEFINE W == Waiting(rs, x)
<1>1. W \subseteq 1..Len(rs)
  BY DEF Waiting
<1>2. IsFiniteSet(1..Len(rs)) /\ Cardinality(1..Len(rs)) = Len(rs)
  <2>1. PICK n \in Nat : n = Len(rs)
    OBVIOUS
  <2>i. 1 \in Int /\ n \in Int /\ n \in Nat
    OBVIOUS
  <2>2. IsFiniteSet(1..n) /\ Cardinality(1..n) = IF 1 > n THEN 0 ELSE n - 1 + 1
    BY ONLY <2>i, FS_Interval
  <2>3. (IF 1 > n THEN 0 ELSE n - 1 + 1) = n
    BY ONLY <2>i
  <2> QED BY <2>1, <2>2, <2>3
<1>3. /\ IsFiniteSet(W) /\ Cardinality(W) \in Nat /\ Cardinality(W) <= Len(rs)
      /\ Cardinality(1..Len(rs)) = Cardinality(W) => W = 1..Len(rs)
  BY <1>1, <1>2, FS_Subset, FS_CardinalityType
<1>4. ASSUME NEW i \in 1..Len(rs), i \notin W PROVE Cardinality(W) < Len(rs)
  <2>1. Cardinality(W) # Len(rs)
    BY <1>2, <1>3, <1>4
  <2> HIDE DEF W
  <2> QED BY <1>3, <2>1
<1> QED BY <1>3, <1>4

\* A mark more.
LEMMA WaitingMore ==
    ASSUME Len(rows) \in Nat, NEW i, NEW x, Touched(i, x), x \notin rows[i].pending
    PROVE  /\ Cardinality(Waiting(rows', x)) = Cardinality(Waiting(rows, x)) + 1
           /\ \A y : y # x => Waiting(rows', y) = Waiting(rows, y)
<1>1. /\ Len(rows') = Len(rows) /\ i \in 1..Len(rows)
      /\ \A k \in 1..Len(rows) : k # i => rows'[k].pending = rows[k].pending
      /\ rows'[i].pending = rows[i].pending \cup {x}
  BY DEF Touched
<1>2. Waiting(rows', x) = Waiting(rows, x) \cup {i} /\ i \notin Waiting(rows, x)
  BY <1>1 DEF Waiting
<1>3. Cardinality(Waiting(rows', x)) = Cardinality(Waiting(rows, x)) + 1
  BY <1>2, WaitingFinite, FS_AddElement
<1>4. \A y : y # x => Waiting(rows', y) = Waiting(rows, y)
  BY <1>1 DEF Waiting
<1> QED BY <1>3, <1>4

\* As long as a row is not marked for a cancel, the queue has room for one.
LEMMA RoomForCancel ==
    ASSUME ~Live, RoomForAll, RestInv, TableInv, WireInv, pc = "cancelAll",
           NEW i \in 1..Len(rows), "cancel" \notin rows[i].pending, NEW req \in Req, req.type = "Cancel"
    PROVE  HasRoom(req)
<1>1. Len(rows) \in Nat /\ Len(rows) <= MaxRows /\ Len(rows) <= MaxOpen /\ Len(reports) \in Nat
  BY RowsUnique, LenProperties DEF RestInv, TableInv, WireInv
<1>2. PICK a \in Nat : a = Cardinality(Waiting(rows, "replace")) /\ a <= Len(rows)
  BY <1>1, WaitingFinite
<1>3. PICK c \in Nat : c = Cardinality(Waiting(rows, "cancel")) /\ c < Len(rows)
  <2>1. i \notin Waiting(rows, "cancel")
    BY DEF Waiting
  <2> QED BY <1>1, <2>1, WaitingFinite
<1>4. Len(reports) <= 2 * Len(rows) + a + c
  BY <1>2, <1>3 DEF RestInv, FewReports, Quiet
<1>5. MaxOpen \in Nat /\ MaxRows \in Nat /\ QUEUE \in Nat
  BY OrdersAssumption
<1>6. Len(reports) < QUEUE
  <2>1. Len(reports) < 4 * Len(rows)
    BY ONLY <1>1, <1>2, <1>3, <1>4
  <2>2. 4 * Len(rows) <= QUEUE
    BY ONLY RoomForAll, <1>1, <1>5 DEF RoomForAll
  <2> QED BY ONLY <1>1, <1>5, <2>1, <2>2
<1>7. Len(Answers(req)) = 1
  BY DEF Answers
<1> QED BY <1>1, <1>5, <1>6, <1>7 DEF HasRoom

\* What the NullRouter adds to its queue for a request.
LEMMA RouteNull ==
    ASSUME ~Live, WireInv, NEW req \in Req, Route(req),
           \A k \in 1..Len(reports) : reports[k].type # "CancelReject"
    PROVE  /\ \A k \in 1..Len(reports') : reports'[k].type # "CancelReject"
           /\ Len(reports) \in Nat /\ Len(reports') \in Nat
           /\ Len(reports') <= Len(reports) + (IF req.type = "New" THEN 2 ELSE 1)
<1>1. reports \in Seq(Rep) /\ Len(reports) \in Nat /\ reports' = reports \o Answers(req)
  BY LenProperties DEF WireInv, Route
<1>2. /\ req.type \in {"New", "Cancel", "Replace"} /\ req.tif \in {"GTC", "IOC"} /\ req.id \in Id
  BY DEF Req
<1>3. ASSUME NEW s \in Seq(Rep), NEW t \in ReportTypes, t # "CancelReject",
             \A k \in 1..Len(s) : s[k].type # "CancelReject"
      PROVE  LET u == Append(s, Report(t, req.id))
             IN  /\ u \in Seq(Rep) /\ Len(u) = Len(s) + 1 /\ Len(s) \in Nat
                 /\ \A k \in 1..Len(u) : u[k].type # "CancelReject"
  <2> DEFINE m == Report(t, req.id)
             u == Append(s, m)
  <2>1. m \in Rep /\ m.type = t
    BY <1>2, ReportType
  <2> HIDE DEF m
  <2>2. u \in Seq(Rep) /\ Pushed(s, u, m) /\ Len(s) \in Nat /\ Len(u) = Len(s) + 1
    BY <2>1, SeqPushed
  <2> HIDE DEF u
  <2>3. \A k \in 1..Len(u) : u[k].type # "CancelReject"
    <3> TAKE k \in 1..Len(u)
    <3>1. CASE k = Len(s) + 1
      BY <1>3, <2>1, <2>2, <3>1 DEF Pushed
    <3>2. CASE k # Len(s) + 1
      <4>1. k \in 1..Len(s)
        BY <2>2, <3>2
      <4> QED BY <1>3, <2>2, <4>1 DEF Pushed
    <3> QED BY <3>1, <3>2
  <2> QED BY <2>2, <2>3 DEF m, u
<1>4. CASE req.type = "New" /\ req.tif = "IOC"
  <2> DEFINE s == Append(reports, Report("Ack", req.id))
  <2>1. reports' = Append(s, Report("Expired", req.id))
    BY <1>1, <1>4, AnswersAre
  <2>2. s \in Seq(Rep) /\ Len(s) = Len(reports) + 1 /\ \A k \in 1..Len(s) : s[k].type # "CancelReject"
    BY <1>1, <1>3 DEF ReportTypes
  <2> HIDE DEF s
  <2>3. Len(reports') = Len(s) + 1 /\ \A k \in 1..Len(reports') : reports'[k].type # "CancelReject"
    BY <1>3, <2>1, <2>2 DEF ReportTypes
  <2>4. Len(reports') = Len(reports) + 2
    BY <1>1, <2>2, <2>3
  <2> QED BY <1>1, <1>4, <2>3, <2>4
<1>5. CASE ~(req.type = "New" /\ req.tif = "IOC")
  <2>1. \E t \in ReportTypes : t # "CancelReject" /\ reports' = Append(reports, Report(t, req.id))
    BY <1>1, <1>2, <1>5, AnswersAre DEF ReportTypes
  <2>2. Len(reports') = Len(reports) + 1 /\ \A k \in 1..Len(reports') : reports'[k].type # "CancelReject"
    BY <1>1, <1>3, <2>1
  <2> QED BY <1>1, <2>2
<1> QED BY <1>4, <1>5

\* A request about a row adds a mark and one report.
LEMMA RestAsked ==
    ASSUME ~Live, RestInv, TableInv, WireInv, NEW i, NEW x \in {"cancel", "replace"}, Touched(i, x),
           x \notin rows[i].pending, NEW req \in Req, req.type \in {"Cancel", "Replace"}, Route(req)
    PROVE  /\ (pc' \in Quiet => pc \in Quiet) => FewReports'
           /\ \A k \in 1..Len(reports') : reports'[k].type # "CancelReject"
           /\ Len(rows') <= MaxOpen /\ Len(rows') = Len(rows)
<1>1. Len(rows) \in Nat /\ Len(rows) <= MaxOpen
  BY RowsUnique DEF RestInv
<1>2. /\ Len(rows') = Len(rows)
      /\ Cardinality(Waiting(rows', x)) = Cardinality(Waiting(rows, x)) + 1
      /\ \A y : y # x => Waiting(rows', y) = Waiting(rows, y)
  BY <1>1, WaitingMore DEF Touched
<1>3. /\ \A k \in 1..Len(reports') : reports'[k].type # "CancelReject"
      /\ Len(reports) \in Nat /\ Len(reports') \in Nat /\ Len(reports') <= Len(reports) + 1
  BY RouteNull DEF RestInv
<1>4. ASSUME pc \in Quiet
      PROVE  Len(reports') <= 2 * Len(rows') + Cardinality(Waiting(rows', "replace"))
                                             + Cardinality(Waiting(rows', "cancel"))
  <2>1. PICK a \in Nat, c \in Nat : /\ a = Cardinality(Waiting(rows, "replace"))
                                    /\ c = Cardinality(Waiting(rows, "cancel"))
    BY <1>1, WaitingFinite
  <2>2. Len(reports) <= 2 * Len(rows) + a + c
    BY <1>4, <2>1 DEF RestInv, FewReports
  <2>3. CASE x = "replace"
    <3>1. Cardinality(Waiting(rows', "replace")) = a + 1 /\ Cardinality(Waiting(rows', "cancel")) = c
      BY <1>2, <2>1, <2>3
    <3> QED BY <1>1, <1>2, <1>3, <2>1, <2>2, <3>1
  <2>4. CASE x = "cancel"
    <3>1. Cardinality(Waiting(rows', "replace")) = a /\ Cardinality(Waiting(rows', "cancel")) = c + 1
      BY <1>2, <2>1, <2>4
    <3> QED BY <1>1, <1>2, <1>3, <2>1, <2>2, <3>1
  <2> QED BY <2>3, <2>4
<1> QED BY <1>1, <1>2, <1>3, <1>4 DEF FewReports

LEMMA RestSubmit ==
    ASSUME ~Live, RestInv, TableInv, WireInv, LoopInv, NEW d \in Side, NEW px \in Px,
           NEW ref \in RefPx(px), NEW n \in Qty, NEW tif \in Tif, Submit(d, px, ref, n, tif)
    PROVE  RestInv'
<1> DEFINE s == NewRow(d, ref, n)
           req == Request("New", nextId, d, px, n, tif)
<1>1. /\ nextId \in Id /\ Route(req) /\ rows' = Append(rows, s) /\ Len(rows) < MaxOpen
      /\ InStrategy /\ UNCHANGED loopVars
  BY DEF Submit, CheckNew
<1>2. /\ px \in Nat /\ ref \in Nat /\ n \in Nat \ {0} /\ tif \in {"GTC", "IOC"} /\ MaxOpen \in Nat
  BY RefPxIs, OrdersAssumption
<1>3. req \in Req /\ req.type = "New"
  BY <1>1, <1>2 DEF Request, Req
<1>4. s \in Row /\ s.pending = {}
  BY <1>1, <1>2 DEF NewRow, Row
<1> HIDE DEF s, req
<1>5. /\ Len(rows) \in Nat /\ Len(rows') = Len(rows) + 1 /\ rows'[Len(rows) + 1] = s
      /\ \A k \in 1..Len(rows) : rows'[k] = rows[k]
  <2>1. rows \in Seq(Row)
    BY DEF TableInv
  <2> QED BY <1>1, <1>4, <2>1, SeqPushed DEF Pushed
<1>6. \A x : Waiting(rows', x) = Waiting(rows, x)
  <2>1. \A k \in 1..Len(rows') : k \in 1..Len(rows) \/ k = Len(rows) + 1
    BY <1>5
  <2>2. \A k \in 1..Len(rows) : k \in 1..Len(rows')
    BY <1>5
  <2> QED BY <1>4, <1>5, <2>1, <2>2 DEF Waiting
<1>7. /\ \A k \in 1..Len(reports') : reports'[k].type # "CancelReject"
      /\ Len(reports) \in Nat /\ Len(reports') \in Nat /\ Len(reports') <= Len(reports) + 2
  BY <1>1, <1>3, RouteNull DEF RestInv
<1>8. pc' = pc /\ ci' = ci /\ pc \notin {"cancelAll", "await", "done"}
  BY <1>1 DEF loopVars, InStrategy
<1>9. FewReports'
  <2>1. SUFFICES ASSUME pc \in Quiet
                 PROVE  Len(reports') <= 2 * Len(rows') + Cardinality(Waiting(rows', "replace"))
                                                        + Cardinality(Waiting(rows', "cancel"))
    BY <1>8 DEF FewReports
  <2>2. PICK a \in Nat, c \in Nat : /\ a = Cardinality(Waiting(rows, "replace"))
                                    /\ c = Cardinality(Waiting(rows, "cancel"))
    BY <1>5, WaitingFinite
  <2>3. Len(reports) <= 2 * Len(rows) + a + c
    BY <2>1, <2>2 DEF RestInv, FewReports
  <2>4. Len(reports') <= 2 * Len(rows') + a + c
    BY ONLY <1>5, <1>7, <2>2, <2>3
  <2> QED BY <1>6, <2>2, <2>4
<1>10. Swept'
  BY <1>8 DEF RestInv, Swept
<1>11. Len(rows') <= MaxOpen
  BY <1>1, <1>2, <1>5
<1> QED BY <1>7, <1>9, <1>10, <1>11 DEF RestInv

\* A step that leaves table and queue alone.
LEMMA RestSame ==
    ASSUME RestInv, UNCHANGED <<rows, reports>>, Swept',
           pc' \in Quiet => pc \in Quiet \/ reports = <<>>, Len(rows) \in Nat
    PROVE  RestInv'
<1>1. CASE reports = <<>>
  <2>1. Len(reports') = 0
    BY <1>1, EmptySeq
  <2>2. PICK a \in Nat, c \in Nat : /\ a = Cardinality(Waiting(rows, "replace"))
                                    /\ c = Cardinality(Waiting(rows, "cancel"))
    BY WaitingFinite
  <2>3. Len(reports') <= 2 * Len(rows) + a + c
    BY <2>1, <2>2
  <2> QED BY <2>2, <2>3 DEF RestInv, FewReports
<1>2. CASE reports # <<>>
  BY <1>2 DEF RestInv, FewReports
<1> QED BY <1>1, <1>2

LEMMA RestStrategy ==
    ASSUME ~Live, IInv, RestInv, Strategy
    PROVE  RestInv'
<1>1. TableInv /\ WireInv /\ LoopInv /\ DOMAIN rows = 1..Len(rows) /\ Len(rows) \in Nat
  BY RowsUnique DEF IInv
<1>2. ASSUME NEW d \in Side, NEW px \in Px, NEW n \in Qty, NEW tif \in Tif, NEW ref \in RefPx(px),
             Submit(d, px, ref, n, tif) \/ SubmitRingFull(d, px, ref, n, tif)
      PROVE  RestInv'
  <2>1. CASE Submit(d, px, ref, n, tif)
    BY <1>1, <2>1, RestSubmit
  <2>2. CASE SubmitRingFull(d, px, ref, n, tif)
    <3>1. UNCHANGED <<rows, reports, pc, ci>>
      BY <2>2 DEF SubmitRingFull, routerVars, loopVars
    <3> QED BY <1>1, <3>1, RestSame DEF RestInv, Swept
  <2> QED BY <1>2, <2>1, <2>2
<1>3. ASSUME NEW i \in 1..Len(rows), NEW x \in {"cancel", "replace"}, Touched(i, x),
             x \notin rows[i].pending, NEW req \in Req, req.type \in {"Cancel", "Replace"},
             Route(req), InStrategy, UNCHANGED loopVars
      PROVE  RestInv'
  <2>1. pc' = pc /\ ci' = ci /\ pc \notin {"cancelAll", "await", "done"}
    BY <1>3 DEF loopVars, InStrategy
  <2>2. Swept'
    BY <2>1 DEF RestInv, Swept
  <2> QED BY <1>1, <1>3, <2>1, <2>2, RestAsked DEF RestInv
<1>4. ASSUME NEW i \in 1..Len(rows), Cancel(i) PROVE RestInv'
  <2> DEFINE req == Request("Cancel", rows[i].id, rows[i].side, rows[i].px, rows[i].leaves, "GTC")
  <2>1. CancelRow(i) /\ InStrategy /\ UNCHANGED loopVars
    BY <1>4 DEF Cancel
  <2>2. /\ req \in Req /\ req.type = "Cancel"
        /\ \/ UNCHANGED <<rows, routerVars>>
           \/ "cancel" \notin rows[i].pending /\ Route(req) /\ Touched(i, "cancel")
    BY <1>1, <2>1, CancelRowDoes
  <2> HIDE DEF req
  <2>3. CASE UNCHANGED <<rows, routerVars>>
    <3>1. UNCHANGED <<rows, reports, pc, ci>>
      BY <2>1, <2>3 DEF routerVars, loopVars
    <3> QED BY <1>1, <3>1, RestSame DEF RestInv, Swept
  <2> QED BY <1>3, <2>1, <2>2, <2>3
<1>5. ASSUME NEW i \in 1..Len(rows), NEW px \in Px, NEW n \in Qty, Replace(i, px, n) PROVE RestInv'
  <2> DEFINE req == Request("Replace", rows[i].id, rows[i].side, px, n, "GTC")
  <2>1. InStrategy /\ UNCHANGED loopVars
    BY <1>5 DEF Replace
  <2>2. /\ req \in Req /\ req.type = "Replace" /\ "replace" \notin rows[i].pending
        /\ Route(req) /\ Touched(i, "replace")
    BY <1>1, <1>5, ReplaceDoes
  <2> HIDE DEF req
  <2> QED BY <1>3, <2>1, <2>2
<1> QED BY <1>1, <1>2, <1>4, <1>5 DEF Strategy

\* A polled report takes no cancel's mark from a row that stays.
LEMMA RestPoll ==
    ASSUME ~Live, IInv, RestInv, PollReport
    PROVE  RestInv'
<1> DEFINE m == reports[1]
<1>1. TableInv /\ WireInv /\ Len(rows) \in Nat /\ MaxOpen \in Nat
  BY RowsUnique, OrdersAssumption DEF IInv
<1>2. /\ reports # <<>> /\ ApplyReport(Head(reports)) /\ reports' = Tail(reports)
      /\ UNCHANGED <<nextId, requests>> /\ ci' = ci
      /\ pc \in {"poll", "drain", "await"}
      /\ pc' \in {"onExec", "drainExec", pc} /\ (pc = "await" => pc' = pc)
  BY DEF PollReport
<1>3. reports \in Seq(Rep) /\ m \in Rep /\ Head(reports) = m
  BY <1>1, <1>2, PollWire
<1>4. Len(reports) \in Nat /\ Popped(reports, reports') /\ 1 \in 1..Len(reports)
  <2>1. Len(reports) \in Nat /\ Popped(reports, reports') /\ Len(reports) > 0
    BY <1>2, <1>3, SeqPopped
  <2> QED BY <2>1
<1>5. /\ Len(rows') \in Nat /\ Len(rows') <= Len(rows)
      /\ \A k \in 1..Len(rows') : \E j \in 1..Len(rows) : Outlives(rows[j], m, rows'[k])
  BY <1>1, <1>2, <1>3, PollRows
<1>6. m.type # "CancelReject"
  BY <1>4 DEF RestInv
<1>7. \A k \in 1..Len(reports') : reports'[k].type # "CancelReject"
  <2>1. \A k \in 1..Len(reports') : reports'[k] = reports[k + 1] /\ k + 1 \in 1..Len(reports)
    BY <1>4 DEF Popped
  <2> QED BY <2>1 DEF RestInv
<1> HIDE DEF m
<1>8. pc = "await" => \A k \in 1..Len(rows') : "cancel" \in rows'[k].pending
  <2> SUFFICES ASSUME pc = "await", NEW k \in 1..Len(rows') PROVE "cancel" \in rows'[k].pending
    OBVIOUS
  <2>1. PICK j \in 1..Len(rows) : Outlives(rows[j], m, rows'[k])
    BY <1>5
  <2>2. "cancel" \in rows[j].pending
    BY DEF RestInv, Swept
  <2>3. "cancel" \notin Settles(m)
    BY <1>6 DEF Settles
  <2> QED BY <2>1, <2>2, <2>3 DEF Outlives
<1>9. Swept'
  BY <1>2, <1>8 DEF RestInv, Swept
<1>10. FewReports'
  BY <1>2 DEF FewReports, Quiet
<1>11. Len(rows') <= MaxOpen
  BY <1>1, <1>5 DEF RestInv
<1> QED BY <1>7, <1>9, <1>10, <1>11 DEF RestInv

\* cancel_all marks the row that it visits.
LEMMA RestCancelAll ==
    ASSUME ~Live, RoomForAll, IInv, RestInv, CancelAll
    PROVE  RestInv'
<1>1. TableInv /\ WireInv /\ LoopInv /\ Len(rows) \in Nat /\ ci \in Nat
  <2>1. ci \in 0..MaxRows /\ MaxRows \in Nat
    BY OrdersAssumption DEF IInv, LoopInv
  <2> QED BY <2>1, RowsUnique DEF IInv
<1>2. pc = "cancelAll" /\ \A k \in 1..Len(rows) : k <= ci => "cancel" \in rows[k].pending
  BY DEF CancelAll, RestInv, Swept
<1>3. CASE ci < Len(rows)
  <2> DEFINE i == ci + 1
             req == Request("Cancel", rows[i].id, rows[i].side, rows[i].px, rows[i].leaves, "GTC")
  <2>1. CancelRow(i) /\ ci' = i /\ pc' = pc /\ i \in 1..Len(rows)
    BY <1>1, <1>3 DEF CancelAll
  <2>2. \A k \in 1..Len(rows) : k <= i => k <= ci \/ k = i
    BY <1>1
  <2>3. /\ req \in Req /\ req.type = "Cancel"
        /\ \/ /\ UNCHANGED <<rows, routerVars>>
              /\ "cancel" \in rows[i].pending \/ ~HasRoom(req)
           \/ "cancel" \notin rows[i].pending /\ Route(req) /\ Touched(i, "cancel")
    <3> HIDE DEF i
    <3> QED BY <1>1, <2>1, CancelRowDoes
  <2> HIDE DEF i, req
  <2>4. CASE UNCHANGED <<rows, routerVars>> /\ ("cancel" \in rows[i].pending \/ ~HasRoom(req))
    <3>1. "cancel" \in rows[i].pending
      BY <1>1, <1>2, <2>1, <2>3, <2>4, RoomForCancel
    <3>2. Swept'
      BY <1>2, <2>1, <2>2, <2>4, <3>1 DEF Swept
    <3>3. UNCHANGED <<rows, reports>> /\ pc' = pc
      BY <2>1, <2>4 DEF routerVars
    <3> QED BY <1>1, <3>2, <3>3, RestSame
  <2>5. CASE "cancel" \notin rows[i].pending /\ Route(req) /\ Touched(i, "cancel")
    <3>1. /\ (pc' \in Quiet => pc \in Quiet) => FewReports'
          /\ \A k \in 1..Len(reports') : reports'[k].type # "CancelReject"
          /\ Len(rows') <= MaxOpen
      BY <1>1, <2>3, <2>5, RestAsked
    <3>2. \A k \in 1..Len(rows') : k <= ci' => "cancel" \in rows'[k].pending
      BY <1>2, <2>1, <2>2, <2>5 DEF Touched
    <3>3. Swept'
      BY <1>2, <2>1, <3>2 DEF Swept
    <3> QED BY <2>1, <3>1, <3>3 DEF RestInv
  <2> QED BY <2>3, <2>4, <2>5
<1>4. CASE ~(ci < Len(rows))
  <2>1. pc' = "await" /\ ci' = ci /\ UNCHANGED <<rows, reports>>
    BY <1>4 DEF CancelAll, routerVars
  <2>2. \A k \in 1..Len(rows) : k <= ci
    BY <1>1, <1>4
  <2>3. Swept'
    BY <1>2, <2>1, <2>2 DEF Swept
  <2> QED BY <1>1, <2>1, <2>3, RestSame DEF Quiet
<1> QED BY <1>3, <1>4

\* With no report under way, no row is marked.
LEMMA NothingUnderWay ==
    ASSUME ~Live, IInv, PendingInv, RestInv, pc = "await", reports = <<>>
    PROVE  rows = <<>>
<1>1. TableInv /\ WireInv /\ Len(rows) \in Nat /\ rows \in Seq(Row)
  BY RowsUnique DEF IInv, TableInv
<1>2. requests = <<>> /\ Len(requests) = 0 /\ Len(reports) = 0
  BY <1>1, EmptySeq DEF WireInv
<1>3. InFlight(requests, reports) = {}
  <2>1. 1..0 = {}
    OBVIOUS
  <2> QED BY <1>2, <2>1 DEF InFlight
<1>4. ASSUME NEW k \in 1..Len(rows) PROVE FALSE
  <2>1. "cancel" \in rows[k].pending
    BY DEF RestInv, Swept
  <2>2. Coming(rows[k], {})
    BY <1>3 DEF PendingInv
  <2> QED BY <2>1, <2>2 DEF Coming
<1>5. Len(rows) = 0
  <2>1. Len(rows) # 0 => 1 \in 1..Len(rows)
    BY <1>1
  <2> QED BY <1>4, <2>1
<1> QED BY <1>1, <1>5, EmptySeq

LEMMA RestNext ==
    ASSUME ~Live, RoomForAll, IInv, PendingInv, RestInv, [Next]_vars
    PROVE  RestInv'
<1>1. Len(rows) \in Nat /\ LoopInv
  BY RowsUnique DEF IInv
<1>2. CASE Strategy
  BY <1>2, RestStrategy
<1>3. CASE HotLoop
  <2>1. CASE PollReport
    BY <2>1, RestPoll
  <2>2. CASE CancelAll
    BY <2>2, RestCancelAll
  <2>3. CASE LoadControl
    <3>1. /\ pc = "top" /\ pc' \in {"drain", "poll", "stop", "cancelAll"}
          /\ UNCHANGED <<ci, rows, reports>>
      BY <2>3 DEF LoadControl, Over, OrdersUnchanged, tableVars, routerVars
    <3>2. ci = 0
      BY <3>1 DEF RestInv, Swept
    <3>3. Swept'
      <4>1. \A k \in 1..Len(rows) : ~(k <= 0)
        OBVIOUS
      <4> QED BY <3>1, <3>2, <4>1 DEF Swept
    <3> QED BY <1>1, <3>1, <3>3, RestSame DEF Quiet
  <2>4. CASE PopFrame
    <3>1. /\ pc \in {"poll", "drain"} /\ pc' \in {"tick", "drainTick"} /\ reports = <<>>
          /\ UNCHANGED <<ci, rows, reports>>
      BY <2>4 DEF PopFrame, OrdersUnchanged, tableVars, routerVars
    <3>2. Swept'
      BY <3>1 DEF RestInv, Swept
    <3> QED BY <1>1, <3>1, <3>2, RestSame
  <2>5. CASE NoFrame
    <3>1. /\ pc \in {"poll", "drain"} /\ pc' \in {"top", "timer", "stop", "cancelAll"} /\ reports = <<>>
          /\ UNCHANGED <<ci, rows, reports>>
      BY <2>5 DEF NoFrame, IterationEnd, Over, OrdersUnchanged, tableVars, routerVars
    <3>2. ci = 0
      BY <3>1 DEF RestInv, Swept
    <3>3. Swept'
      <4>1. \A k \in 1..Len(rows) : ~(k <= 0)
        OBVIOUS
      <4> QED BY <3>1, <3>2, <4>1 DEF Swept
    <3> QED BY <1>1, <3>1, <3>3, RestSame
  <2>6. CASE StrategyDone
    <3>1. /\ InStrategy /\ UNCHANGED <<ci, rows, reports>>
          /\ pc' \in CASE pc = "tick" -> IterationEnd [] pc = "timer" -> {"top"}
                       [] pc = "start" -> {"top"} [] pc = "stop" -> {"cancelAll"}
                       [] pc = "onExec" -> {"poll"} [] OTHER -> {"drain"}
      BY <2>6 DEF StrategyDone, OrdersUnchanged, tableVars, routerVars
    <3>2. IterationEnd \subseteq {"top", "timer"}
      BY DEF IterationEnd
    <3>3. /\ pc \in {"tick", "timer", "start", "stop", "onExec", "drainExec", "drainTick"}
          /\ pc' \in {"top", "timer", "cancelAll", "poll", "drain"}
          /\ pc' \in {"top", "timer", "cancelAll"} => pc \in {"tick", "timer", "start", "stop"}
      BY <3>1, <3>2 DEF InStrategy
    <3>4. ci = 0
      BY <3>3 DEF RestInv, Swept
    <3>5. Swept'
      <4>1. \A k \in 1..Len(rows) : ~(k <= 0)
        OBVIOUS
      <4> QED BY <3>1, <3>3, <3>4, <4>1 DEF Swept
    <3> QED BY <1>1, <3>1, <3>3, <3>5, RestSame DEF Quiet
  <2>7. CASE AwaitOver
    <3>1. /\ pc = "await" /\ pc' = "done" /\ UNCHANGED <<ci, rows, reports>>
          /\ rows = <<>> \/ reports = <<>>
      BY <2>7 DEF AwaitOver, OrdersUnchanged, tableVars, routerVars
    <3>2. rows = <<>>
      BY <3>1, NothingUnderWay
    <3>3. Swept'
      BY <3>1, <3>2 DEF Swept
    <3> QED BY <1>1, <3>1, <3>3, RestSame DEF Quiet
  <2> QED BY <1>3, <2>1, <2>2, <2>3, <2>4, <2>5, <2>6, <2>7 DEF HotLoop
<1>4. CASE Operator \/ UNCHANGED vars
  <2>1. UNCHANGED <<pc, ci, rows, reports>>
    BY <1>4 DEF Operator, SetFlag, ClearFlag, Terminate, OrdersUnchanged, vars, loopVars,
                tableVars, routerVars
  <2>2. Swept'
    BY <2>1 DEF RestInv, Swept
  <2> QED BY <1>1, <2>1, <2>2, RestSame
<1>5. CASE Venue
  BY <1>5 DEF Venue, VenueRequest, VenueExpire, VenueFill
<1> QED BY <1>2, <1>3, <1>4, <1>5 DEF Next

\* Exec over the NullRouter leaves no order resting when it ends or swaps its
\* strategy (main's cancel_all and the wait after it), whatever the strategy asked
\* for up to the last moment, as long as the queue has room for four answers to
\* each live order (NullRouter::QUEUE against max_open_orders and MAX_ROWS).
THEOREM NothingLeft == ASSUME ~Live, RoomForAll PROVE Spec => []NothingResting
<1>1. Init => RestInv
  <2> SUFFICES ASSUME Init PROVE RestInv
    OBVIOUS
  <2>1. /\ rows = <<>> /\ reports = <<>> /\ ci = 0 /\ Len(rows) = 0 /\ Len(reports) = 0
        /\ pc \in {"start", "top"}
    BY EmptySeq DEF Init
  <2>2. MaxOpen \in Nat /\ \A k \in 1..0 : FALSE
    BY OrdersAssumption
  <2>3. PICK a \in Nat, c \in Nat : /\ a = Cardinality(Waiting(rows, "replace"))
                                    /\ c = Cardinality(Waiting(rows, "cancel"))
    BY <2>1, WaitingFinite
  <2>4. FewReports
    BY <2>1, <2>3 DEF FewReports
  <2> QED BY <2>1, <2>2, <2>4 DEF RestInv, Swept
<1>2. IInv /\ PendingInv /\ RestInv /\ [Next]_vars => RestInv'
  BY RestNext
<1>3. RestInv => NothingResting
  BY DEF RestInv, Swept, NothingResting
<1> QED BY <1>1, <1>2, <1>3, Invariance, EveryRequestAnswered, PTL DEF Spec
=============================================================================
