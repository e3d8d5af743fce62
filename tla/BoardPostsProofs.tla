-------------------------- MODULE BoardPostsProofs --------------------------
(***************************************************************************)
(* Proofs about the posts of Board, for any number of actors, operations,  *)
(* items and revisions: what a transaction writes of posts (Fits), what    *)
(* that keeps true of them, and from it what the board promises its        *)
(* readers.                                                                *)
(***************************************************************************)
EXTENDS BoardProofs, WellFoundedInduction

-----------------------------------------------------------------------------
(* The inductive invariant.                                                *)

NumbersOf(i) == {p.number : p \in posts[i]}
Ends(i) == {p \in posts[i] : p.kind \notin Discussion}

\* Posts are numbered without gaps.
Numbered == \A i \in Item : \E n \in Nat : NumbersOf(i) = 1 .. n

\* No post is lost among its snapshots, of which a revision makes one, and they
\* agree on what it is and on which question it is for.
OnePostPerNumber ==
  \A i \in Item :
    /\ \A p \in posts[i] : \E q \in Now(i) : q.number = p.number
    /\ \A p, q \in posts[i] : p.number = q.number =>
         /\ p.kind = q.kind /\ p.to = q.to
         /\ p.revision = q.revision => p = q

\* A post is for a post that there is, questions are for none, and no text is
\* younger than its snapshot.
Refer ==
  \A i \in Item : \A p \in posts[i] :
    /\ p.to \in {0} \cup NumbersOf(i)
    /\ p.kind = "question" => p.to = 0
    /\ p.text <= p.revision

\* The last status post says what the status is.
Closing ==
  \A i \in Item : item[i].version > 0 =>
    IF item[i].status = "resolved"
      THEN \A o \in Ends(i) : o.kind = "reopened" =>
             \E e \in Ends(i) : e.kind = "resolved" /\ e.number > o.number
      ELSE \A e \in Ends(i) : e.kind = "resolved" =>
             \E o \in Ends(i) : /\ o.kind = "reopened"
                                /\ o.number > e.number /\ o.revision > e.revision

\* The event that a revision names is one that there is, under its author.
RowsNameEvents ==
  \A i \in Item : \A n \in DOMAIN history[i] :
    history[i][n].event # 0 =>
      /\ history[i][n].event \in DOMAIN log
      /\ log[history[i][n].event].by = history[i][n].by

\* The subscribers of an item are all that have taken part in it.
PartiesSubscribe ==
  \A i \in Item : item[i].version > 0 =>
    item[i].subscribers = Parties(i, item[i].version)

Shape == Numbered /\ OnePostPerNumber /\ Refer /\ Closing

BoardInv ==
  /\ IInv
  /\ TypeOK
  /\ Shape
  /\ RowsNameEvents
  /\ PartiesSubscribe
  /\ ReplayIsFirstAnswer
  /\ AnswersStand
  /\ HumanRequestStands
  /\ ResolvedIsReadOnly
  /\ PartiesTold
  /\ OneEvent

-----------------------------------------------------------------------------
(* What the operations write.                                              *)

\* A new post: numbered after all others, and for a question or for none.
Appended(i, p) ==
  /\ \A q \in posts[i] : q.number < p.number
  /\ p.to \in {0} \cup Questions(Now(i))
  /\ p.kind = "question" => p.to = 0
  /\ p.text = Bump(item[i])

\* A new snapshot of a question that is not answered, with a new text only when
\* nobody has replied to it.
Rewritten(i, p) ==
  \E q \in Now(i) :
    /\ q.kind = "question" /\ ~ Answered(q, Now(i))
    /\ p.number = q.number /\ p.kind = q.kind /\ p.to = q.to
    /\ p.text = q.text \/ (p.text = Bump(item[i]) /\ ~ Replied(q.number, Now(i)))

PostsFit(i, written) ==
  /\ written \subseteq Post
  /\ (\A p \in written : Appended(i, p)) \/ (\A p \in written : Rewritten(i, p))
  /\ \E n \in Nat : NumbersOf(i) \cup {p.number : p \in written} = 1 .. n
  /\ \A p, q \in written : p.number = q.number => p = q

\* The status changes by a status post, and nothing else is posted when it is
\* resolved.
StatusFits(i, new, written) ==
  /\ IF new.kind = "task" THEN new.status \in TaskStatus /\ new.assignee # NoOne
                          ELSE new.status \notin TaskStatus /\ new.assignee = NoOne
  /\ \A p \in written : p.kind \notin Discussion =>
       (p.kind = "resolved" <=> new.status = "resolved")
  /\ item[i].version > 0 =>
       /\ (\A p \in written : p.kind \in Discussion) =>
            (new.status = "resolved" <=> item[i].status = "resolved")
       /\ (\E p \in written : p.kind \in Discussion) => item[i].status # "resolved"

Fits(i, new, written, published, action) ==
  /\ PostsFit(i, written)
  /\ StatusFits(i, new, written)
  /\ new.subscribers = IF item[i].version = 0 THEN {} ELSE item[i].subscribers
  /\ \A p \in written : p.kind = "answer" => published /\ action = "answer"

\* Every operation of the board is a mutation that fits.
Change ==
  \E a \in Actor, k \in Operation, i \in Item :
    \E seen, new, written, published, action :
      /\ Mutation(a, k, i, seen, new, written, published, action)
      /\ Fits(i, new, written, published, action)

-----------------------------------------------------------------------------
(* Numbers and snapshots.                                                  *)

\* A set of numbers has a least one.
LEMMA LeastNumber ==
  ASSUME NEW T, T \subseteq Nat, T # {}
  PROVE  \E x \in T : \A y \in T : x <= y
  <1>1. PICK R : R = OpToRel(<, Nat)
    OBVIOUS
  <1>2. IsWellFoundedOn(R, Nat)
    BY <1>1, NatLessThanWellFounded, Zenon
  <1>3. PICK x \in T : \A y \in T : ~ (<<y, x>> \in R)
    BY <1>2, WFMin
  <1>4. \A m, n \in Nat : n < m => <<n, m>> \in R
    BY <1>1 DEF OpToRel
  <1>5. ASSUME NEW y \in T PROVE x <= y
    <2>1. x \in Nat /\ y \in Nat
      OBVIOUS
    <2>2. ~ (y < x)
      BY <1>3, <1>4, <2>1
    <2> QED  BY <2>1, <2>2
  <1> QED  BY <1>5

\* What Max returns for a set of numbers that has a bound.
LEMMA MaxOfBounded ==
  ASSUME NEW b \in Nat, NEW T, T \subseteq 0 .. b, T # {}
  PROVE  Max(T) \in T /\ \A y \in T : y <= Max(T)
  <1>1. PICK U : U = {b - x : x \in T}
    OBVIOUS
  <1>2. U \subseteq Nat /\ U # {}
    <2>1. \A x \in T : b - x \in Nat
      OBVIOUS
    <2> QED  BY <1>1, <2>1
  <1>3. PICK u \in U : \A y \in U : u <= y
    BY <1>2, LeastNumber
  <1>4. PICK m \in T : u = b - m
    BY <1>1, <1>3
  <1>5. ASSUME NEW y \in T PROVE m >= y
    <2>1. u <= b - y
      BY <1>1, <1>3
    <2> QED  BY <1>4, <2>1
  <1>6. Max(T) \in T /\ \A y \in T : Max(T) >= y
    BY <1>5 DEF Max
  <1> QED  BY <1>6

\* What a later revision writes is not seen by who reads an earlier one.
LEMMA EntriesBefore ==
  ASSUME NEW E, NEW W, NEW v \in Nat, NEW n \in Nat, n <= v,
         \A p \in W : p.revision = v + 1
  PROVE  Entries(E \cup W, n) = Entries(E, n)
  <1>1. \A p \in W : ~ (p.revision <= n)
    OBVIOUS
  <1> QED  BY <1>1 DEF Entries

\* Who reads the new revision sees what it has written, and the other posts as
\* they were.
LEMMA EntriesAfter ==
  ASSUME NEW E, NEW W, NEW v \in Nat,
         \A p \in E : p.revision \in Nat /\ p.revision <= v,
         \A p \in W : p.revision = v + 1
  PROVE  Entries(E \cup W, v + 1) =
           {p \in Entries(E, v) : \A w \in W : w.number # p.number} \cup W
  <1>1. ASSUME NEW p \in W PROVE p \in Entries(E \cup W, v + 1)
    BY <1>1 DEF Entries
  <1>2. ASSUME NEW p \in E, p \notin W
        PROVE  p \in Entries(E \cup W, v + 1) <=>
                 p \in Entries(E, v) /\ \A w \in W : w.number # p.number
    <2>1. p.revision <= v /\ p.revision <= v + 1 /\ ~ (v + 1 <= p.revision)
      OBVIOUS
    <2>2. \A o \in E : o.revision <= v /\ o.revision <= v + 1
      OBVIOUS
    <2>3. \A w \in W : w.revision <= v + 1 /\ ~ (w.revision <= p.revision)
      BY <2>1
    <2> QED  BY <1>2, <2>1, <2>2, <2>3 DEF Entries
  <1>3. Entries(E, v) \subseteq E /\ Entries(E \cup W, v + 1) \subseteq E \cup W
    BY DEF Entries
  <1> QED  BY <1>1, <1>2, <1>3

\* The rows of the posts as a calculation uses them.
LEMMA PostTypes ==
  ASSUME TypeOK, NEW i \in Item
  PROVE  /\ item[i].version \in Nat
         /\ Now(i) \subseteq posts[i]
         /\ \A p \in posts[i] : /\ p \in Post
                                /\ p.number \in Nat /\ p.revision \in Nat
                                /\ p.revision <= item[i].version
                                /\ p.to \in Nat /\ p.text \in Nat /\ p.asks \in BOOLEAN
  <1>1. /\ history[i] \in Seq(Row) /\ Len(history[i]) = item[i].version
        /\ posts[i] \subseteq Post
        /\ \A p \in posts[i] : p.revision \in DOMAIN history[i]
    BY DEF TypeOK
  <1>2. item[i].version \in Nat /\ DOMAIN history[i] = 1 .. item[i].version
    BY <1>1
  <1> QED  BY <1>1, <1>2 DEF Post, Now, Entries

\* A reader sees one snapshot of a post.
LEMMA OneSnapshot ==
  ASSUME TypeOK, Shape, NEW i \in Item, NEW p \in Now(i), NEW q \in Now(i), p.number = q.number
  PROVE  p = q
  <1>1. p \in posts[i] /\ q \in posts[i] /\ p.revision \in Nat /\ q.revision \in Nat
    BY PostTypes
  <1>2. p.revision <= q.revision /\ q.revision <= p.revision
    BY DEF Now, Entries
  <1>3. p.revision = q.revision
    BY <1>1, <1>2
  <1> QED  BY <1>1, <1>3 DEF Shape, OnePostPerNumber

\* The next post gets the next number.
LEMMA NextNumberIs ==
  ASSUME TypeOK, Shape, NEW i \in Item, NEW n \in Nat, NumbersOf(i) = 1 .. n
  PROVE  NextNumber(Now(i)) = n + 1
  <1>1. {p.number : p \in Now(i)} = 1 .. n
    <2>1. Now(i) \subseteq posts[i]
      BY PostTypes
    <2>2. \A p \in posts[i] : \E q \in Now(i) : q.number = p.number
      BY DEF Shape, OnePostPerNumber
    <2> QED  BY <2>1, <2>2 DEF NumbersOf
  <1>2. PICK T : T = {p.number : p \in Now(i)} \cup {0}
    OBVIOUS
  <1>3. T = 0 .. n
    BY <1>1, <1>2
  <1>4. Max(T) \in T /\ \A y \in T : y <= Max(T)
    <2>1. T \subseteq 0 .. n /\ T # {}
      BY <1>3
    <2> QED  BY <2>1, MaxOfBounded
  <1>5. Max(T) = n
    BY <1>3, <1>4
  <1> QED  BY <1>2, <1>5 DEF NextNumber

-----------------------------------------------------------------------------
(* Every operation fits.                                                   *)

LEMMA NewPostAppends ==
  ASSUME TypeOK, Shape, NEW a \in Actor, NEW i \in Item,
         NEW kind \in Discussion \cup {"resolved", "reopened"}, NEW asks \in BOOLEAN,
         NEW to \in {0} \cup Questions(Now(i)), kind = "question" => to = 0,
         NEW n \in Nat, NumbersOf(i) = 1 .. n, NEW p, p = NewPost(a, i, kind, asks, to)
  PROVE  p \in Post /\ Appended(i, p) /\ p.number = n + 1 /\ p.kind = kind /\ p.to = to
  <1>1. NextNumber(Now(i)) = n + 1
    BY NextNumberIs
  <1>2. item[i].version + 1 \in Nat
    BY PostTypes
  <1>3. p = [number |-> n + 1, revision |-> item[i].version + 1, kind |-> kind, by |-> a,
             asks |-> asks, to |-> to, text |-> item[i].version + 1]
    BY <1>1 DEF NewPost, Bump
  <1>4. to \in Nat
    BY PostTypes DEF Questions
  <1>5. p \in Post
    BY <1>2, <1>3, <1>4 DEF Post
  <1>6. \A q \in posts[i] : q.number < p.number
    <2>1. \A q \in posts[i] : q.number \in 1 .. n
      BY DEF NumbersOf
    <2> QED  BY <1>3, <2>1
  <1> QED  BY <1>3, <1>5, <1>6 DEF Appended, Bump

\* One new post.
LEMMA AppendFits ==
  ASSUME TypeOK, Shape, NEW a \in Actor, NEW i \in Item,
         NEW kind \in Discussion \cup {"resolved", "reopened"}, NEW asks \in BOOLEAN,
         NEW to \in {0} \cup Questions(Now(i)), kind = "question" => to = 0,
         NEW p, p = NewPost(a, i, kind, asks, to)
  PROVE  PostsFit(i, {p}) /\ p.kind = kind
  <1>1. PICK n \in Nat : NumbersOf(i) = 1 .. n
    BY DEF Shape, Numbered
  <1>2. p \in Post /\ Appended(i, p) /\ p.number = n + 1 /\ p.kind = kind
    BY <1>1, NewPostAppends
  <1>3. NumbersOf(i) \cup {q.number : q \in {p}} = 1 .. n + 1
    BY <1>1, <1>2
  <1>4. \E m \in Nat : NumbersOf(i) \cup {q.number : q \in {p}} = 1 .. m
    BY <1>3
  <1> QED  BY <1>2, <1>4 DEF PostsFit

\* Whatever is written again fits.
LEMMA RewritesFit ==
  ASSUME TypeOK, Shape, NEW i \in Item, NEW written,
         \A p \in written : p \in Post /\ Rewritten(i, p),
         \A p, q \in written : p.number = q.number => p = q
  PROVE  PostsFit(i, written)
  <1>1. PICK n \in Nat : NumbersOf(i) = 1 .. n
    BY DEF Shape, Numbered
  <1>2. \A p \in written : \E q \in posts[i] :
          p.number = q.number /\ p.kind = q.kind /\ p.to = q.to
    BY PostTypes DEF Rewritten
  <1>3. NumbersOf(i) \cup {p.number : p \in written} = 1 .. n
    BY <1>1, <1>2 DEF NumbersOf
  <1> QED  BY <1>3 DEF PostsFit

LEMMA EditRewrites ==
  ASSUME TypeOK, NEW i \in Item, NEW q \in Now(i), q.kind = "question",
         ~ Answered(q, Now(i)), NEW edit,
         edit \cap {"notes", "options"} # {} => ~ Replied(q.number, Now(i)),
         NEW p, p = Edited(q, i, edit)
  PROVE  p \in Post /\ Rewritten(i, p) /\ p.kind = "question" /\ p.number = q.number
  <1>1. q \in Post /\ item[i].version + 1 \in Nat
    BY PostTypes
  <1>2. PICK asks \in BOOLEAN, text \in {q.text, item[i].version + 1} :
          /\ p = [q EXCEPT !.revision = item[i].version + 1, !.asks = asks, !.text = text]
          /\ text # q.text => edit \cap {"notes", "options"} # {}
    <2>1. PICK asks : asks = Asks(q.asks, edit)
      OBVIOUS
    <2>2. PICK text :
            text = IF edit \cap {"notes", "options"} # {} THEN Bump(item[i]) ELSE q.text
      OBVIOUS
    <2>3. p = [q EXCEPT !.revision = Bump(item[i]), !.asks = asks, !.text = text]
      BY <1>1, <2>1, <2>2 DEF Edited, Post
    <2>4. asks \in BOOLEAN
      BY <1>1, <2>1 DEF Asks, Post
    <2> QED  BY <2>2, <2>3, <2>4 DEF Bump
  <1>3. /\ p \in Post
        /\ p.number = q.number /\ p.kind = q.kind /\ p.to = q.to /\ p.text = text
    <2>1. PICK new \in Nat : new = item[i].version + 1
      BY <1>1
    <2>2. text \in Nat
      BY <1>1, <1>2 DEF Post
    <2>3. p = [q EXCEPT !.revision = new, !.asks = asks, !.text = text]
      BY <1>2, <2>1
    <2>4. q = [number |-> q.number, revision |-> q.revision, kind |-> q.kind, by |-> q.by,
               asks |-> q.asks, to |-> q.to, text |-> q.text]
      BY <1>1 DEF Post
    <2>5. p = [number |-> q.number, revision |-> new, kind |-> q.kind, by |-> q.by,
               asks |-> asks, to |-> q.to, text |-> text]
      BY <2>3, <2>4
    <2> QED  BY <1>1, <2>2, <2>5 DEF Post
  <1> QED  BY <1>2, <1>3 DEF Rewritten, Bump

\* A mutation of an item that there is, whose row stays as it is.
LEMMA SameRowFits ==
  ASSUME TypeOK, Shape, NEW i \in Item, item[i].version > 0, NEW written,
         NEW published, NEW action,
         PostsFit(i, written),
         \A p \in written : p.kind \in Discussion,
         \A p \in written : p.kind = "answer" => published /\ action = "answer",
         written # {} => item[i].status # "resolved"
  PROVE  Fits(i, item[i], written, published, action)
  <1>1. IF item[i].kind = "task" THEN item[i].status \in TaskStatus /\ item[i].assignee # NoOne
                                 ELSE item[i].status \notin TaskStatus /\ item[i].assignee = NoOne
    BY DEF TypeOK
  <1>2. item[i].version # 0
    BY PostTypes
  <1> QED  BY <1>1, <1>2 DEF Fits, StatusFits

LEMMA ChangeIntro ==
  ASSUME NEW a \in Actor, NEW k \in Operation, NEW i \in Item, NEW seen, NEW new,
         NEW written, NEW published, NEW action,
         Mutation(a, k, i, seen, new, written, published, action),
         Fits(i, new, written, published, action)
  PROVE  Change
  BY DEF Change

LEMMA NoPostsYet ==
  ASSUME TypeOK, NEW i \in Item, item[i].version = 0
  PROVE  posts[i] = {} /\ NumbersOf(i) = 1 .. 0 /\ Now(i) = {}
  <1>1. \A p \in posts[i] : p.revision \in DOMAIN history[i]
    BY DEF TypeOK
  <1>2. history[i] \in Seq(Row) /\ Len(history[i]) = 0
    BY DEF TypeOK
  <1> QED  BY <1>1, <1>2 DEF NumbersOf, Now, Entries

LEMMA CreateChanges ==
  ASSUME Tables, TypeOK, Shape, NEW a \in Actor, NEW k \in Operation, NEW i \in Item,
         NEW w \in Actor, NEW s \in TaskStatus, Create(a, k, i, w, s)
  PROVE  Change
  <1>1. PICK new : new = NewItem(a, "task", w, s)
    OBVIOUS
  <1>2. Mutation(a, k, i, 0, new, {}, FALSE, "create")
    BY <1>1, CreateIsMutation
  <1>3. item[i].version = 0
    BY DEF Create, Free
  <1>4. PostsFit(i, {})
    BY RewritesFit
  <1>5. StatusFits(i, new, {}) /\ new.subscribers = {}
    BY <1>1, <1>3, BoardAssumption DEF StatusFits, NewItem, Actor
  <1>6. Fits(i, new, {}, FALSE, "create")
    BY <1>3, <1>4, <1>5 DEF Fits
  <1> QED  BY <1>2, <1>6, ChangeIntro

\* A thread begins with a post that is numbered 1.
LEMMA FirstPostFits ==
  ASSUME TypeOK, Shape, NEW a \in Actor, NEW i \in Item, item[i].version = 0,
         NEW kind \in {"message", "question"}, NEW asks \in BOOLEAN,
         NEW p, p = FirstPost(a, kind, asks)
  PROVE  PostsFit(i, {p}) /\ p.kind = kind
  <1>1. posts[i] = {} /\ NumbersOf(i) = {} /\ NumbersOf(i) = 1 .. 0
    BY NoPostsYet DEF NumbersOf
  <1>2. p \in Post /\ Appended(i, p) /\ p.number = 1 /\ p.kind = kind
    BY <1>1 DEF FirstPost, Post, Appended, Bump, Discussion
  <1>3. NumbersOf(i) \cup {q.number : q \in {p}} = 1 .. 1
    BY <1>1, <1>2
  <1>4. \E m \in Nat : NumbersOf(i) \cup {q.number : q \in {p}} = 1 .. m
    BY <1>3
  <1> QED  BY <1>2, <1>4 DEF PostsFit

LEMMA StartChanges ==
  ASSUME Tables, TypeOK, Shape, NEW a \in Actor, NEW k \in Operation, NEW i \in Item,
         NEW s \in {"open", "resolved"},
         Start(a, k, i, s) \/ \E h \in BOOLEAN : Raise(a, k, i, s, h)
  PROVE  Change
  <1>1. PICK new : new = NewItem(a, "question", NoOne, s)
    OBVIOUS
  <1>2. item[i].version = 0
    BY DEF Start, Raise, Free
  <1>3. ASSUME NEW p, NEW action, PostsFit(i, {p}), p.kind \in {"message", "question"},
               Mutation(a, k, i, 0, new, {p}, TRUE, action)
        PROVE  Change
    <2>1. StatusFits(i, new, {p}) /\ new.subscribers = {}
      BY <1>1, <1>2, <1>3 DEF StatusFits, NewItem, Discussion, TaskStatus
    <2>2. Fits(i, new, {p}, TRUE, action)
      BY <1>2, <1>3, <2>1 DEF Fits
    <2> QED  BY <1>3, <2>2, ChangeIntro
  <1>4. CASE Start(a, k, i, s)
    <2>1. PICK p : p = FirstPost(a, "message", FALSE)
      OBVIOUS
    <2>2. Mutation(a, k, i, 0, new, {p}, TRUE, "start")
      BY <1>1, <1>4, <2>1, StartIsMutation
    <2>3. PostsFit(i, {p}) /\ p.kind = "message"
      BY <1>2, <2>1, FirstPostFits
    <2> QED  BY <1>3, <2>2, <2>3
  <1>5. ASSUME NEW h \in BOOLEAN, Raise(a, k, i, s, h) PROVE Change
    <2>1. PICK p : p = FirstPost(a, "question", h /\ s # "resolved")
      OBVIOUS
    <2>2. Mutation(a, k, i, 0, new, {p}, TRUE, "ask")
      BY <1>1, <1>5, <2>1, RaiseIsMutation
    <2>3. PostsFit(i, {p}) /\ p.kind = "question"
      BY <1>2, <2>1, FirstPostFits
    <2> QED  BY <1>3, <2>2, <2>3
  <1> QED  BY <1>4, <1>5

LEMMA TaskChanges ==
  ASSUME Tables, TypeOK, Shape, NEW a \in Actor, NEW k \in Operation, NEW i \in Item,
         NEW v \in Nat, IsTask(i),
         \/ \E w \in Actor, s \in TaskStatus : UpdateTask(a, k, i, v, w, s)
         \/ \E b \in BOOLEAN : SetArchived(a, k, i, v, b)
  PROVE  Change
  <1>1. item[i].version > 0 /\ item[i].version # 0 /\ item[i].kind = "task"
    BY PostTypes DEF IsTask
  <1>2. item[i] \in ItemRow
    BY <1>1, ItemIsRow
  <1>3. item[i].status \in TaskStatus /\ item[i].assignee # NoOne
    BY <1>1 DEF TypeOK
  <1>4. PostsFit(i, {})
    BY RewritesFit
  <1>5. ASSUME NEW new, NEW action, Mutation(a, k, i, v, new, {}, FALSE, action),
               new.kind = "task", new.status \in TaskStatus, new.assignee # NoOne,
               new.subscribers = item[i].subscribers
        PROVE  Change
    <2>1. StatusFits(i, new, {})
      BY <1>3, <1>5 DEF StatusFits, TaskStatus
    <2>2. Fits(i, new, {}, FALSE, action)
      BY <1>1, <1>4, <1>5, <2>1 DEF Fits
    <2> QED  BY <1>5, <2>2, ChangeIntro
  <1>6. ASSUME NEW w \in Actor, NEW s \in TaskStatus, UpdateTask(a, k, i, v, w, s) PROVE Change
    <2>1. PICK new : new = [item[i] EXCEPT !.assignee = w, !.status = s]
      OBVIOUS
    <2>2. Mutation(a, k, i, v, new, {}, FALSE, "update")
      BY <1>6, <2>1, UpdateTaskIsMutation
    <2>3. /\ new.kind = item[i].kind /\ new.subscribers = item[i].subscribers
          /\ new.status = s /\ new.assignee = w
      BY <1>2, <2>1 DEF ItemRow
    <2>4. w # NoOne
      BY BoardAssumption DEF Actor
    <2> QED  BY <1>1, <1>5, <2>2, <2>3, <2>4
  <1>7. ASSUME NEW b \in BOOLEAN, SetArchived(a, k, i, v, b) PROVE Change
    <2>1. PICK new : new = [item[i] EXCEPT !.archived = b]
      OBVIOUS
    <2>2. PICK action : action = IF b THEN "archive" ELSE "restore"
      OBVIOUS
    <2>3. Mutation(a, k, i, v, new, {}, FALSE, action)
      BY <1>7, <2>1, <2>2, SetArchivedIsMutation
    <2>4. /\ new.kind = item[i].kind /\ new.subscribers = item[i].subscribers
          /\ new.status = item[i].status /\ new.assignee = item[i].assignee
      BY <1>2, <2>1 DEF ItemRow
    <2> QED  BY <1>1, <1>3, <1>5, <2>3, <2>4
  <1> QED  BY <1>6, <1>7

\* Resolve, Reopen, and the update that resolves.
LEMMA SetStatusChanges ==
  ASSUME Tables, TypeOK, Shape, NEW a \in Actor, NEW k \in Operation, NEW i \in Item,
         NEW v \in Nat, NEW s \in {"open", "resolved"}, NEW action \in Action,
         Fresh(a, k), IsThread(i), Expected(i, v, FALSE), SetStatus(a, k, i, v, s, action)
  PROVE  Change
  <1>1. PICK new : new = [item[i] EXCEPT !.status = s]
    OBVIOUS
  <1>2. PICK p : p = StatusPost(a, i, s)
    OBVIOUS
  <1>3. Mutation(a, k, i, v, new, {p}, TRUE, action)
    BY <1>1, <1>2, SetStatusIsMutation
  <1>k. PICK kind \in {"resolved", "reopened"} :
          kind = IF s = "resolved" THEN "resolved" ELSE "reopened"
    OBVIOUS
  <1>4. PostsFit(i, {p}) /\ p.kind = kind
    <2>1. PICK asks \in BOOLEAN : p = NewPost(a, i, kind, asks, 0)
      BY <1>2, <1>k DEF StatusPost
    <2>2. kind \in Discussion \cup {"resolved", "reopened"} /\ 0 \in {0} \cup Questions(Now(i))
      OBVIOUS
    <2> QED  BY <2>1, <2>2, AppendFits
  <1>5. item[i].version > 0 /\ item[i].version # 0 /\ item[i] \in ItemRow
    BY ItemIsRow, PostTypes DEF IsThread
  <1>6. /\ new.kind = "question" /\ new.subscribers = item[i].subscribers
        /\ new.status = s /\ new.assignee = NoOne
    BY <1>1, <1>5 DEF ItemRow, TypeOK, IsThread
  <1>7. StatusFits(i, new, {p})
    BY <1>4, <1>6, <1>k DEF StatusFits, TaskStatus, Discussion
  <1>8. Fits(i, new, {p}, TRUE, action)
    BY <1>4, <1>5, <1>6, <1>7 DEF Fits
  <1> QED  BY <1>3, <1>8, ChangeIntro

LEMMA UpdateThreadChanges ==
  ASSUME Tables, TypeOK, Shape, NEW a \in Actor, NEW k \in Operation, NEW i \in Item,
         NEW v \in Nat, NEW edit, UpdateThread(a, k, i, v, edit)
  PROVE  Change
  <1>1. PICK written : written = UpdateWrites(a, i, edit)
    OBVIOUS
  <1>2. PICK published : published = ("human" \in edit /\ ~ HumanInput(item[i], Now(i)))
    OBVIOUS
  <1>3. Mutation(a, k, i, v, item[i], written, published, "update")
    BY <1>1, <1>2, UpdateThreadIsMutation
  <1>4. item[i].version > 0 /\ item[i].status # "resolved"
    BY DEF UpdateThread, Changeable
  <1>5. PostsFit(i, written) /\ \A p \in written : p.kind = "question"
    <2>1. CASE written = {Edited(q, i, edit) : q \in Unanswered(Now(i))}
      <3>1. ASSUME NEW p \in written
            PROVE  /\ p \in Post /\ Rewritten(i, p) /\ p.kind = "question"
                   /\ \E q \in Unanswered(Now(i)) : p = Edited(q, i, edit) /\ p.number = q.number
        <4>1. PICK q \in Unanswered(Now(i)) : p = Edited(q, i, edit)
          BY <2>1
        <4>2. q \in Now(i) /\ q.kind = "question" /\ ~ Answered(q, Now(i))
          BY DEF Unanswered
        <4>3. edit \cap {"notes", "options"} # {} => ~ Replied(q.number, Now(i))
          BY DEF UpdateThread
        <4> QED  BY <4>1, <4>2, <4>3, EditRewrites
      <3>2. ASSUME NEW p \in written, NEW q \in written, p.number = q.number PROVE p = q
        <4>1. PICK o, r :
                /\ o \in Now(i) /\ p = Edited(o, i, edit) /\ p.number = o.number
                /\ r \in Now(i) /\ q = Edited(r, i, edit) /\ q.number = r.number
          BY <3>1 DEF Unanswered
        <4>2. o = r
          BY <3>2, <4>1, OneSnapshot
        <4> QED  BY <4>1, <4>2
      <3> QED  BY <3>1, <3>2, RewritesFit
    <2>2. CASE written = {NewPost(a, i, "question", "human" \in edit, 0)}
      <3>1. PICK human : human = ("human" \in edit)
        OBVIOUS
      <3>b. human \in BOOLEAN
        BY <3>1
      <3>2. PICK p : p = NewPost(a, i, "question", human, 0)
        OBVIOUS
      <3>3. PostsFit(i, {p}) /\ p.kind = "question"
        BY <3>2, <3>b, AppendFits DEF Discussion
      <3>4. written = {p}
        BY <2>2, <3>1, <3>2
      <3> QED  BY <3>3, <3>4
    <2>3. CASE written = {}
      BY <2>3, RewritesFit
    <2> QED  BY <1>1, <2>1, <2>2, <2>3 DEF UpdateWrites
  <1>6. Fits(i, item[i], written, published, "update")
    BY <1>4, <1>5, SameRowFits DEF Discussion
  <1> QED  BY <1>3, <1>6, ChangeIntro

\* Reply, AskPost, and an answer that does not resolve.
LEMMA PostChanges ==
  ASSUME Tables, TypeOK, Shape, NEW a \in Actor, NEW k \in Operation, NEW i \in Item,
         NEW v \in Nat, Changeable(i), NEW action, NEW kind \in Discussion,
         NEW asks \in BOOLEAN, NEW to \in {0} \cup Questions(Now(i)),
         kind = "question" => to = 0, kind = "answer" => action = "answer",
         NEW p, p = NewPost(a, i, kind, asks, to),
         Mutation(a, k, i, v, item[i], {p}, TRUE, action)
  PROVE  Change
  <1>1. PostsFit(i, {p}) /\ p.kind = kind
    BY AppendFits
  <1>2. Fits(i, item[i], {p}, TRUE, action)
    BY <1>1, SameRowFits DEF Changeable
  <1> QED  BY <1>2, ChangeIntro

LEMMA ReplyChanges ==
  ASSUME Tables, TypeOK, Shape, NEW a \in Actor, NEW k \in Operation, NEW i \in Item,
         NEW v \in Nat, NEW to, Reply(a, k, i, v, to)
  PROVE  Change
  <1>1. PICK kind \in Discussion : kind = IF to = 0 THEN "message" ELSE "answer"
    BY DEF Discussion
  <1>2. PICK action \in Action : action = IF to = 0 THEN "reply" ELSE "answer"
    BY DEF Action
  <1>3. PICK p : p = NewPost(a, i, kind, FALSE, to)
    OBVIOUS
  <1>4. IsPost(p) /\ p.revision = item[i].version + 1 /\ p.kind # "resolved"
    BY <1>1, <1>3 DEF NewPost, IsPost, Bump
  <1>5. Commit(a, k, i, v, item[i], {p}, TRUE, action)
    BY <1>1, <1>2, <1>3 DEF Reply
  <1>6. Mutation(a, k, i, v, item[i], {p}, TRUE, action)
    BY <1>4, <1>5, AppendIsMutation DEF Reply
  <1>7. to \in {0} \cup Questions(Now(i)) /\ Changeable(i)
    BY DEF Reply
  <1> QED  BY <1>1, <1>2, <1>3, <1>6, <1>7, PostChanges

LEMMA AskPostChanges ==
  ASSUME Tables, TypeOK, Shape, NEW a \in Actor, NEW k \in Operation, NEW i \in Item,
         NEW v \in Nat, NEW b \in BOOLEAN, AskPost(a, k, i, v, b)
  PROVE  Change
  <1>1. PICK p : p = NewPost(a, i, "question", b, 0)
    OBVIOUS
  <1>2. IsPost(p) /\ p.revision = item[i].version + 1 /\ p.kind # "resolved"
    BY <1>1 DEF NewPost, IsPost, Bump
  <1>3. "ask-post" \in Action /\ "question" \in Discussion
    BY DEF Action, Discussion
  <1>4. Commit(a, k, i, v, item[i], {p}, TRUE, "ask-post")
    BY <1>1 DEF AskPost
  <1>5. Mutation(a, k, i, v, item[i], {p}, TRUE, "ask-post")
    BY <1>2, <1>3, <1>4, AppendIsMutation DEF AskPost
  <1> QED  BY <1>1, <1>3, <1>5, PostChanges DEF AskPost

LEMMA EditPostChanges ==
  ASSUME Tables, TypeOK, Shape, NEW a \in Actor, NEW k \in Operation, NEW i \in Item,
         NEW v \in Nat, NEW n, NEW edit, EditPost(a, k, i, v, n, edit)
  PROVE  Change
  <1>1. PICK q, p :
          /\ q \in Now(i)
          /\ Editable(q, Now(i))
          /\ p = Edited(q, i, {"notes"} \cup edit)
          /\ Mutation(a, k, i, v, item[i], {p}, TRUE, "edit-post")
    BY EditPostIsMutation, ZenonT(40)
  <1>2. q.kind = "question" /\ ~ Replied(q.number, Now(i)) /\ ~ Answered(q, Now(i))
    BY <1>1 DEF Editable, Replied, Answered
  <1>3. p \in Post /\ Rewritten(i, p) /\ p.kind = "question"
    BY <1>1, <1>2, EditRewrites
  <1>4. PostsFit(i, {p})
    BY <1>3, RewritesFit
  <1>5. Fits(i, item[i], {p}, TRUE, "edit-post")
    BY <1>3, <1>4, SameRowFits DEF EditPost, Changeable, Discussion
  <1> QED  BY <1>1, <1>5, ChangeIntro

\* An answer is for a question that there is, or for none.
LEMMA TargetIsQuestion ==
  ASSUME TypeOK, Shape, NEW i \in Item, NEW to, NEW n \in Targets(i, to)
  PROVE  n \in {0} \cup Questions(Now(i))
  <1>1. PICK T : T = Questions(Now(i)) \cup {0}
    OBVIOUS
  <1>2. Max(T) \in T
    <2>1. PICK b \in Nat : NumbersOf(i) = 1 .. b
      BY DEF Shape, Numbered
    <2>2. Questions(Now(i)) \subseteq 1 .. b
      BY <2>1, PostTypes DEF Questions, NumbersOf
    <2>3. T \subseteq 0 .. b /\ T # {}
      BY <1>1, <2>2
    <2> QED  BY <2>3, MaxOfBounded
  <1>3. {p.number : p \in Unanswered(Now(i))} \subseteq Questions(Now(i))
    BY DEF Unanswered, Questions
  <1> QED  BY <1>1, <1>2, <1>3 DEF Targets

LEMMA AnswerChanges ==
  ASSUME Tables, TypeOK, Shape, NEW a \in Actor, NEW k \in Operation, NEW i \in Item,
         NEW v \in Nat, NEW to, NEW resolve \in BOOLEAN, Answer(a, k, i, v, to, resolve)
  PROVE  Change
  <1>a. PICK n \in Targets(i, to) : \E new, written :
           /\ AnswerWrites(a, i, n, resolve, new, written)
           /\ Mutation(a, k, i, v, new, written, TRUE, "answer")
    BY AnswerIsMutation
  <1>b. PICK new, written :
           /\ AnswerWrites(a, i, n, resolve, new, written)
           /\ Mutation(a, k, i, v, new, written, TRUE, "answer")
    BY <1>a
  <1>1. PICK post, end :
          /\ post = NewPost(a, i, IF n = 0 THEN "message" ELSE "answer", FALSE, n)
          /\ end = [post EXCEPT !.number = @ + 1, !.kind = "resolved", !.to = 0]
          /\ resolve => new = [item[i] EXCEPT !.status = "resolved"] /\ written = {post, end}
          /\ ~ resolve => new = item[i] /\ written = {post}
    BY <1>b DEF AnswerWrites
  <1>2. n \in {0} \cup Questions(Now(i))
    BY TargetIsQuestion
  <1>3. PICK kind \in Discussion : kind = IF n = 0 THEN "message" ELSE "answer"
    BY DEF Discussion
  <1>4. Changeable(i)
    BY DEF Answer
  <1>p. post = NewPost(a, i, kind, FALSE, n) /\ kind # "question"
    BY <1>1, <1>3
  <1>5. CASE ~ resolve
    <2>1. Mutation(a, k, i, v, item[i], {post}, TRUE, "answer")
      BY <1>b, <1>1, <1>5
    <2> QED  BY <1>2, <1>4, <1>p, <2>1, PostChanges
  <1>6. CASE resolve
    <2>1. PICK m \in Nat : NumbersOf(i) = 1 .. m
      BY DEF Shape, Numbered
    <2>2. /\ post \in Post /\ Appended(i, post) /\ post.number = m + 1
          /\ post.kind = kind /\ post.to = n
      <3>1. kind \in Discussion \cup {"resolved", "reopened"}
        OBVIOUS
      <3>2. PICK asks \in BOOLEAN : post = NewPost(a, i, kind, asks, n)
        BY <1>p
      <3>3. kind = "question" => n = 0
        BY <1>p
      <3>4. /\ post \in Post /\ Appended(i, post) /\ post.number = m + 1
            /\ post.kind = kind /\ post.to = n
        BY ONLY TypeOK, Shape, a \in Actor, i \in Item, m \in Nat, <1>2, <2>1, <3>1, <3>2, <3>3, NewPostAppends
      <3> QED  BY <3>4
    <2>3. /\ end \in Post /\ Appended(i, end) /\ end.number = m + 2
          /\ end.kind = "resolved" /\ end.to = 0
      <3>1. PICK l \in Nat : l = m + 2
        BY <2>1
      <3>2. end = [post EXCEPT !.number = l, !.kind = "resolved", !.to = 0]
        <4>1. end = [post EXCEPT !.number = post.number + 1, !.kind = "resolved", !.to = 0]
          BY <1>1, <2>2 DEF Post
        <4>2. post.number + 1 = l
          BY <2>2, <3>1
        <4> QED  BY <4>1, <4>2
      <3>3. /\ end \in Post /\ end.number = l /\ end.kind = "resolved" /\ end.to = 0
            /\ end.text = post.text
        BY <2>2, <3>2 DEF Post
      <3>4. \A q \in posts[i] : q.number < l
        <4>1. \A q \in posts[i] : q.number \in 1 .. m
          BY <2>1 DEF NumbersOf
        <4> QED  BY <3>1, <4>1
      <3> QED  BY <2>2, <3>1, <3>3, <3>4 DEF Appended
    <2>4. NumbersOf(i) \cup {p.number : p \in {post, end}} = 1 .. m + 2
      BY <2>1, <2>2, <2>3
    <2>5. \E l \in Nat : NumbersOf(i) \cup {p.number : p \in {post, end}} = 1 .. l
      BY <2>4
    <2>6. PostsFit(i, {post, end})
      BY <2>2, <2>3, <2>5 DEF PostsFit
    <2>7. /\ item[i].version > 0 /\ item[i].version # 0 /\ item[i] \in ItemRow
          /\ item[i].status # "resolved" /\ item[i].kind = "question"
          /\ item[i].assignee = NoOne
      BY <1>4, <1>6, ItemIsRow, PostTypes DEF Changeable, Answer, TypeOK
    <2>8. /\ new.kind = "question" /\ new.subscribers = item[i].subscribers
          /\ new.status = "resolved" /\ new.assignee = NoOne
      BY <1>1, <1>6, <2>7 DEF ItemRow
    <2>9. StatusFits(i, new, {post, end})
      BY <2>2, <2>3, <2>7, <2>8 DEF StatusFits, TaskStatus, Discussion
    <2>10. Fits(i, new, {post, end}, TRUE, "answer")
      BY <2>6, <2>7, <2>8, <2>9 DEF Fits
    <2>11. Mutation(a, k, i, v, new, {post, end}, TRUE, "answer")
      BY <1>b, <1>1, <1>6
    <2> QED  BY <2>10, <2>11, ChangeIntro
  <1> QED  BY <1>5, <1>6

\* A step of the board changes its tables in a mutation that fits.
LEMMA NextChanges ==
  ASSUME Tables, TypeOK, Shape, [Next]_vars
  PROVE  Change \/ (UNCHANGED <<item, posts, history, log, receipt>>
                      /\ open' \in BOOLEAN /\ joined' \in SUBSET Agent)
  <1>1. CASE UNCHANGED vars \/ Archive \/ \E a \in Leaver : Join(a) \/ Leave(a)
    BY <1>1, BoardAssumption DEF vars, Archive, Join, Leave, TypeOK
  <1>2. ASSUME NEW i \in Item, NEW v \in 0 .. item[i].version PROVE v \in Nat
    BY <1>2, PostTypes
  <1>3. ASSUME NEW a \in Actor, NEW k \in Operation, NEW i \in Item, NEW v \in Nat,
               Resolve(a, k, i, v) \/ Reopen(a, k, i, v) \/ UpdateResolves(a, k, i, v)
        PROVE  Change
    <2>1. "resolve" \in Action /\ "reopen" \in Action /\ "update" \in Action
      BY DEF Action
    <2>2. Fresh(a, k) /\ IsThread(i) /\ Expected(i, v, FALSE)
      BY <1>3 DEF Resolve, Reopen, UpdateResolves
    <2>3. \E s \in {"open", "resolved"}, action \in Action : SetStatus(a, k, i, v, s, action)
      BY <1>3, <2>1 DEF Resolve, Reopen, UpdateResolves
    <2> QED  BY <2>2, <2>3, SetStatusChanges
  <1>4. ASSUME NEW a \in Actor, NEW k \in Operation, NEW i \in Item, NEW v \in Nat,
               \/ \E w \in Actor, s \in TaskStatus : UpdateTask(a, k, i, v, w, s)
               \/ \E b \in BOOLEAN : SetArchived(a, k, i, v, b)
        PROVE  Change
    <2>1. IsTask(i)
      BY <1>4 DEF UpdateTask, SetArchived
    <2> QED  BY <1>4, <2>1, TaskChanges
  <1>5. ASSUME NEW a \in Actor, NEW k \in Operation, NEW i \in Item,
               NEW v \in 0 .. item[i].version,
               \/ \E w \in Actor, s \in TaskStatus : UpdateTask(a, k, i, v, w, s)
               \/ \E b \in BOOLEAN : SetArchived(a, k, i, v, b) \/ AskPost(a, k, i, v, b)
               \/ Resolve(a, k, i, v) \/ Reopen(a, k, i, v) \/ UpdateResolves(a, k, i, v)
               \/ \E e \in Edit : UpdateThread(a, k, i, v, e)
               \/ \E n \in {0} \cup {p.number : p \in posts[i]} :
                    \/ \E b \in BOOLEAN : Answer(a, k, i, v, n, b)
                    \/ Reply(a, k, i, v, n)
                    \/ \E e \in {{}, {"human"}, {"plain"}} : EditPost(a, k, i, v, n, e)
        PROVE  Change
    BY <1>2, <1>3, <1>4, <1>5, AskPostChanges, UpdateThreadChanges, AnswerChanges,
       ReplyChanges, EditPostChanges, Zenon
  <1>6. ASSUME NEW a \in Actor, NEW k \in Operation, NEW i \in Item,
               \/ \E w \in Actor, s \in TaskStatus : Create(a, k, i, w, s)
               \/ \E s \in {"open", "resolved"} :
                    Start(a, k, i, s) \/ \E h \in BOOLEAN : Raise(a, k, i, s, h)
        PROVE  Change
    BY <1>6, CreateChanges, StartChanges, Zenon
  <1>7. CASE Next
    BY <1>1, <1>5, <1>6, <1>7 DEF Next
  <1> QED  BY <1>1, <1>7

-----------------------------------------------------------------------------
(* The tables after a transaction.                                         *)

Transaction(a, k, i, seen, new, written, published, action, stored, row, events, made) ==
  /\ Mutation(a, k, i, seen, new, written, published, action)
  /\ Fits(i, new, written, published, action)
  /\ Effect(a, k, i, seen, new, written, published, action, stored, row, events, made)

\* The rows of the item have the next revision, the rows of others stay.
LEMMA TablesAfter ==
  ASSUME Tables, NEW a, NEW k, NEW i, NEW seen, NEW new, NEW written, NEW published, NEW action,
         NEW stored, NEW row, NEW events, NEW made,
         Transaction(a, k, i, seen, new, written, published, action, stored, row, events, made)
  PROVE  /\ a \in Actor /\ k \in Operation /\ i \in Item
         /\ item[i].version \in Nat
         /\ \A j \in Item \ {i} :
              item'[j] = item[j] /\ history'[j] = history[j] /\ posts'[j] = posts[j]
         /\ item'[i] = stored /\ stored.version = item[i].version + 1
         /\ posts'[i] = posts[i] \cup written
         /\ \A p \in posts[i] : p.revision \in 1 .. item[i].version
         /\ \A p \in written : p.revision = item[i].version + 1
         /\ DOMAIN history[i] = 1 .. item[i].version
         /\ DOMAIN history'[i] = 1 .. item[i].version + 1
         /\ \A n \in 1 .. item[i].version : history'[i][n] = history[i][n]
         /\ history'[i][item[i].version + 1] = row
  <1>1. /\ a \in Actor /\ k \in Operation /\ i \in Item
        /\ Valid(a, k, i, seen, new, written)
    BY DEF Transaction, Mutation, Valid
  <1>2. /\ stored \in ItemRow /\ row \in Row /\ events \in Seq(Event)
        /\ stored.version = item[i].version + 1
        /\ Writes(a, k, i, written, stored, row, events, made)
    BY DEF Transaction, Effect
  <1>3. /\ item[i].version \in Nat
        /\ \A j \in Item \ {i} :
             item'[j] = item[j] /\ history'[j] = history[j] /\ posts'[j] = posts[j]
        /\ item'[i] = stored
        /\ posts'[i] = posts[i] \cup written
        /\ history'[i] = Append(history[i], row)
    BY <1>1, <1>2, WritesKeepTables
  <1>4. history[i] \in Seq(Row) /\ Len(history[i]) = item[i].version
    BY <1>1 DEF Tables
  <1>5. /\ DOMAIN history[i] = 1 .. item[i].version
        /\ DOMAIN history'[i] = 1 .. item[i].version + 1
        /\ \A n \in 1 .. item[i].version : history'[i][n] = history[i][n]
        /\ history'[i][item[i].version + 1] = row
    BY <1>2, <1>3, <1>4
  <1>6. /\ \A p \in posts[i] : p.revision \in 1 .. item[i].version
        /\ \A p \in written : p.revision = item[i].version + 1
    BY <1>1 DEF Tables, Valid
  <1> QED  BY <1>1, <1>2, <1>3, <1>5, <1>6

\* At most one event is published, under the actor, for the other subscribers.
LEMMA LogAfter ==
  ASSUME Tables, NEW a, NEW k, NEW i, NEW seen, NEW new, NEW written, NEW published, NEW action,
         NEW stored, NEW row, NEW events, NEW made,
         Transaction(a, k, i, seen, new, written, published, action, stored, row, events, made)
  PROVE  /\ Len(log) \in Nat /\ DOMAIN log = 1 .. Len(log)
         /\ \A e \in 1 .. Len(log) : log'[e] = log[e]
         /\ row.by = a /\ row.action = action
         /\ \/ /\ row.event = 0 /\ DOMAIN log' = 1 .. Len(log)
               /\ ~ published /\ stored.subscribers \ {a} = {}
            \/ /\ row.event = Len(log) + 1 /\ row.event # 0
               /\ DOMAIN log' = 1 .. Len(log) + 1
               /\ log'[row.event].by = a
               /\ log'[row.event].for = stored.subscribers \ {a}
  <1>1. log \in Seq(Event)
    BY DEF Tables
  <1>2. /\ log' = log \o events
        /\ row = [by |-> a, action |-> action, seen |-> seen,
                  event |-> IF events = <<>> THEN 0 ELSE Len(log) + 1]
        /\ events \in Seq(Event)
        /\ events = IF published \/ stored.subscribers \ {a} # {}
                      THEN <<[by |-> a, for |-> stored.subscribers \ {a}]>> ELSE <<>>
    BY DEF Transaction, Effect, Writes
  <1>3. CASE events = <<>>
    <2>1. log' = log /\ row.event = 0
      BY <1>1, <1>2, <1>3
    <2>2. ~ published /\ stored.subscribers \ {a} = {}
      <3>1. published \in BOOLEAN
        BY DEF Transaction, Mutation
      <3>2. \A e : <<e>> # <<>>
        OBVIOUS
      <3> QED  BY <1>2, <1>3, <3>1, <3>2
    <2>3. Len(log) \in Nat /\ DOMAIN log = 1 .. Len(log)
      BY <1>1
    <2>4. row.by = a /\ row.action = action
      BY <1>2
    <2> QED  BY <2>1, <2>2, <2>3, <2>4
  <1>4. CASE events # <<>>
    <2>1. PICK event : event = [by |-> a, for |-> stored.subscribers \ {a}]
      OBVIOUS
    <2>2. events = <<event>>
      BY <1>2, <1>4, <2>1
    <2>3. Len(events) = 1 /\ events[1] = event
      BY <2>2
    <2>5. row.event = Len(log) + 1 /\ row.event # 0
      BY <1>1, <1>2, <1>4
    <2>6. DOMAIN log' = 1 .. Len(log) + 1 /\ log'[Len(log) + 1] = event
      BY <1>1, <1>2, <2>3
    <2>7. \A e \in 1 .. Len(log) : log'[e] = log[e]
      BY <1>1, <1>2
    <2>8. Len(log) \in Nat /\ DOMAIN log = 1 .. Len(log)
      BY <1>1
    <2>9. row.by = a /\ row.action = action
      BY <1>2
    <2>10. log'[row.event] = event
      BY <2>5, <2>6
    <2>11. log'[row.event].by = a /\ log'[row.event].for = stored.subscribers \ {a}
      BY <2>1, <2>10
    <2> QED  BY <2>5, <2>6, <2>7, <2>8, <2>9, <2>11
  <1> QED  BY <1>3, <1>4

LEMMA ReceiptAfter ==
  ASSUME Tables, NEW a, NEW k, NEW i, NEW seen, NEW new, NEW written, NEW published, NEW action,
         NEW stored, NEW row, NEW events, NEW made,
         Transaction(a, k, i, seen, new, written, published, action, stored, row, events, made)
  PROVE  \E mine \in Actor \X Operation :
           /\ Receipts' = Receipts \cup {mine} /\ mine \notin Receipts
           /\ Of(mine)' = made
           /\ \A c \in Receipts : Of(c)' = Of(c)
  <1>1. /\ a \in Actor /\ k \in Operation /\ i \in Item
        /\ Valid(a, k, i, seen, new, written)
    BY DEF Transaction, Mutation, Valid
  <1>2. made.item = i /\ Writes(a, k, i, written, stored, row, events, made)
    BY DEF Transaction, Effect
  <1> QED  BY <1>1, <1>2, ReceiptsAfter

\* What a reader of the posts sees afterwards.
LEMMA PostsAfter ==
  ASSUME Tables, NEW a, NEW k, NEW i, NEW seen, NEW new, NEW written, NEW published, NEW action,
         NEW stored, NEW row, NEW events, NEW made,
         Transaction(a, k, i, seen, new, written, published, action, stored, row, events, made)
  PROVE  /\ Now(i)' = {p \in Now(i) : \A w \in written : w.number # p.number} \cup written
         /\ Now(i)' = Entries(posts'[i], item[i].version + 1)
         /\ \A j \in Item \ {i} : Now(j)' = Now(j)
         /\ \A n \in Nat : n <= item[i].version => Entries(posts'[i], n) = Entries(posts[i], n)
  <1>0. PICK E : E = posts[i]
    OBVIOUS
  <1>v. PICK v \in Nat : v = item[i].version
    BY TablesAfter
  <1>1. E = posts[i] /\ v = item[i].version
    BY <1>0, <1>v
  <1>2. /\ \A p \in E : p.revision \in Nat /\ p.revision <= v
        /\ \A p \in written : p.revision = v + 1
        /\ posts'[i] = E \cup written
        /\ item'[i].version = v + 1
        /\ \A j \in Item \ {i} : posts'[j] = posts[j] /\ item'[j] = item[j]
    BY <1>1, TablesAfter
  <1>a. \A p \in E : p.revision \in Nat /\ p.revision <= v
    BY <1>2
  <1>b. \A p \in written : p.revision = v + 1
    BY <1>2
  <1>3. Entries(E \cup written, v + 1) =
          {p \in Entries(E, v) : \A w \in written : w.number # p.number} \cup written
    BY <1>a, <1>b, EntriesAfter, Zenon
  <1>4. ASSUME NEW n \in Nat, n <= v PROVE Entries(E \cup written, n) = Entries(E, n)
    BY <1>4, <1>b, EntriesBefore, Zenon
  <1>5. Now(i)' = Entries(E \cup written, v + 1) /\ Now(i) = Entries(E, v)
    BY <1>1, <1>2 DEF Now
  <1>6. \A j \in Item \ {i} : Now(j)' = Now(j)
    BY <1>2 DEF Now
  <1> QED  BY <1>1, <1>2, <1>3, <1>4, <1>5, <1>6

\* Rows of the history do not change, and there is one more.
LEMMA HistoryAfter ==
  ASSUME Tables,
         NEW a, NEW k, NEW i, NEW seen, NEW new, NEW written, NEW published, NEW action,
         NEW stored, NEW row, NEW events, NEW made,
         Transaction(a, k, i, seen, new, written, published, action, stored, row, events, made)
  PROVE  /\ \A j \in Item : \A n \in DOMAIN history[j] :
              n \in DOMAIN history'[j] /\ history'[j][n] = history[j][n]
         /\ \A j \in Item : \A n \in DOMAIN history'[j] :
              n \in DOMAIN history[j] \/ (j = i /\ n = item[i].version + 1)
         /\ \A j \in Item : \A p \in posts[j] : p.revision \in DOMAIN history[j]
         /\ item[i].version + 1 \in DOMAIN history'[i]
         /\ item[i].version + 1 \notin DOMAIN history[i]
         /\ \A n \in DOMAIN history[i] : n \in Nat /\ n <= item[i].version
  <1>1. \A j \in Item : DOMAIN history[j] = 1 .. item[j].version
    BY DEF Tables
  <1>2. \A j \in Item : \A p \in posts[j] : p.revision \in DOMAIN history[j]
    BY <1>1 DEF Tables
  <1>3. /\ item[i].version \in Nat
        /\ DOMAIN history'[i] = 1 .. item[i].version + 1
        /\ \A n \in 1 .. item[i].version : history'[i][n] = history[i][n]
        /\ \A j \in Item \ {i} : history'[j] = history[j]
        /\ DOMAIN history[i] = 1 .. item[i].version
    BY TablesAfter
  <1>4. ASSUME NEW j \in Item, NEW n \in DOMAIN history[j]
        PROVE  n \in DOMAIN history'[j] /\ history'[j][n] = history[j][n]
    <2>1. CASE j = i
      BY <1>3, <2>1
    <2>2. CASE j # i
      BY <1>3, <2>2
    <2> QED  BY <2>1, <2>2
  <1>5. ASSUME NEW j \in Item, NEW n \in DOMAIN history'[j]
        PROVE  n \in DOMAIN history[j] \/ (j = i /\ n = item[i].version + 1)
    <2>1. CASE j = i
      BY <1>3, <2>1
    <2>2. CASE j # i
      BY <1>3, <2>2
    <2> QED  BY <2>1, <2>2
  <1>6. /\ item[i].version + 1 \in DOMAIN history'[i]
        /\ item[i].version + 1 \notin DOMAIN history[i]
        /\ \A n \in DOMAIN history[i] : n \in Nat /\ n <= item[i].version
    BY <1>3
  <1> QED  BY <1>2, <1>4, <1>5, <1>6

-----------------------------------------------------------------------------
(* What the board promises, after a transaction.                           *)

LEMMA SameDetail ==
  ASSUME NEW it, NEW E, NEW F, Entries(E, it.version) = Entries(F, it.version)
  PROVE  Detail(it, E) = Detail(it, F)
  BY DEF Detail

LEMMA ReplayAfter ==
  ASSUME Tables, OncePerOperation, ReplayIsFirstAnswer,
         NEW a, NEW k, NEW i, NEW seen, NEW new, NEW written, NEW published, NEW action,
         NEW stored, NEW row, NEW events, NEW made,
         Transaction(a, k, i, seen, new, written, published, action, stored, row, events, made)
  PROVE  ReplayIsFirstAnswer'
  <1>1. PICK mine \in Actor \X Operation :
          /\ Receipts' = Receipts \cup {mine} /\ mine \notin Receipts
          /\ Of(mine)' = made
          /\ \A c \in Receipts : Of(c)' = Of(c)
    BY ReceiptAfter
  <1>2. made = [item |-> i, at |-> stored, told |-> Detail(stored, posts[i] \cup written)]
    BY DEF Transaction, Effect
  <1>3. posts'[i] = posts[i] \cup written /\ \A j \in Item \ {i} : posts'[j] = posts[j]
    BY TablesAfter
  <1>4. made.told = Detail(made.at, posts'[made.item])
    BY <1>2, <1>3
  <1>5. ASSUME NEW c \in Receipts
        PROVE  Of(c).told = Detail(Of(c).at, posts'[Of(c).item])
    <2>1. PICK r : r = Of(c)
      OBVIOUS
    <2>2. r.item \in Item /\ r.at.version \in 1 .. item[r.item].version
      BY <2>1 DEF OncePerOperation
    <2>3. r.told = Detail(r.at, posts[r.item])
      BY <2>1 DEF ReplayIsFirstAnswer
    <2>4. Entries(posts'[r.item], r.at.version) = Entries(posts[r.item], r.at.version)
      <3>1. CASE r.item # i
        BY <1>3, <2>2, <3>1
      <3>2. CASE r.item = i
        <4>1. r.at.version \in Nat /\ r.at.version <= item[i].version
          BY <2>2, <3>2, TablesAfter
        <4> QED  BY <3>2, <4>1, PostsAfter
      <3> QED  BY <3>1, <3>2
    <2>5. Detail(r.at, posts'[r.item]) = Detail(r.at, posts[r.item])
      BY <2>4, SameDetail
    <2> QED  BY <2>1, <2>3, <2>5
  <1>6. ASSUME NEW c \in Receipts' PROVE (Of(c).told = Detail(Of(c).at, posts[Of(c).item]))'
    <2>1. CASE c = mine
      BY <1>1, <1>4, <2>1
    <2>2. CASE c \in Receipts
      BY <1>1, <1>5, <2>2
    <2> QED  BY <1>1, <2>1, <2>2
  <1> QED  BY <1>6 DEF ReplayIsFirstAnswer

\* The events of the rows, and the rows of the events.
LEMMA EventsAfter ==
  ASSUME Tables, RowsNameEvents, OneEvent,
         NEW a, NEW k, NEW i, NEW seen, NEW new, NEW written, NEW published, NEW action,
         NEW stored, NEW row, NEW events, NEW made,
         Transaction(a, k, i, seen, new, written, published, action, stored, row, events, made)
  PROVE  RowsNameEvents' /\ OneEvent'
  <1>v. PICK new1 : new1 = item[i].version + 1
    OBVIOUS
  <1>1. /\ \A j \in Item : \A n \in DOMAIN history[j] :
             n \in DOMAIN history'[j] /\ history'[j][n] = history[j][n]
        /\ \A j \in Item : \A n \in DOMAIN history'[j] :
             n \in DOMAIN history[j] \/ (j = i /\ n = new1)
        /\ \A j \in Item : \A p \in posts[j] : p.revision \in DOMAIN history[j]
        /\ new1 \in DOMAIN history'[i] /\ new1 \notin DOMAIN history[i]
    BY <1>v, HistoryAfter
  <1>2. i \in Item /\ history'[i][new1] = row
    BY <1>v, TablesAfter
  <1>3. /\ Len(log) \in Nat /\ DOMAIN log = 1 .. Len(log)
        /\ \A e \in 1 .. Len(log) : log'[e] = log[e]
        /\ row.by = a /\ row.action = action
    BY LogAfter
  <1>4. \/ /\ row.event = 0 /\ DOMAIN log' = 1 .. Len(log) /\ ~ published
        \/ /\ row.event = Len(log) + 1 /\ row.event # 0
           /\ DOMAIN log' = 1 .. Len(log) + 1
           /\ log'[row.event].by = a
    BY LogAfter
  <1>5. row.event \notin DOMAIN log
    BY <1>3, <1>4
  <1>6. \A j \in Item : \A n \in DOMAIN history[j] :
          history[j][n].event # 0 =>
            /\ history[j][n].event \in DOMAIN log
            /\ log[history[j][n].event].by = history[j][n].by
    BY DEF RowsNameEvents
  <1>7. RowsNameEvents'
    <2>1. ASSUME NEW j \in Item, NEW n \in DOMAIN history'[j], history'[j][n].event # 0
          PROVE  /\ history'[j][n].event \in DOMAIN log'
                 /\ log'[history'[j][n].event].by = history'[j][n].by
      <3>1. CASE n \in DOMAIN history[j]
        BY <1>1, <1>3, <1>4, <1>6, <2>1, <3>1
      <3>2. CASE j = i /\ n = new1
        BY <1>2, <1>3, <1>4, <2>1, <3>2
      <3> QED  BY <1>1, <3>1, <3>2
    <2> QED  BY <2>1 DEF RowsNameEvents
  <1>8. ASSUME NEW e \in DOMAIN log'
        PROVE  \E j \in Item : \E n \in DOMAIN history'[j] :
                 /\ history'[j][n].event = e
                 /\ history'[j][n].by = log'[e].by
                 /\ \A l \in Item : \A m \in DOMAIN history'[l] :
                      history'[l][m].event = e => l = j /\ m = n
    <2>1. CASE e \in DOMAIN log
      <3>1. PICK j, n :
              /\ j \in Item /\ n \in DOMAIN history[j]
              /\ history[j][n].event = e
              /\ history[j][n].by = log[e].by
              /\ \A l \in Item : \A m \in DOMAIN history[l] :
                   history[l][m].event = e => l = j /\ m = n
        BY <2>1 DEF OneEvent
      <3>2. n \in DOMAIN history'[j] /\ history'[j][n] = history[j][n] /\ log'[e] = log[e]
        BY <1>1, <1>3, <2>1, <3>1
      <3>3. ASSUME NEW l \in Item, NEW m \in DOMAIN history'[l], history'[l][m].event = e
            PROVE  l = j /\ m = n
        <4>1. ~ (l = i /\ m = new1)
          BY <1>2, <1>5, <2>1, <3>3
        <4>2. m \in DOMAIN history[l] /\ history'[l][m] = history[l][m]
          BY <1>1, <4>1
        <4> QED  BY <3>1, <3>3, <4>2
      <3> QED  BY <3>1, <3>2, <3>3
    <2>2. CASE e \notin DOMAIN log
      <3>1. e = row.event /\ e # 0 /\ log'[e].by = a
        BY <1>3, <1>4, <2>2
      <3>2. ASSUME NEW l \in Item, NEW m \in DOMAIN history'[l], history'[l][m].event = e
            PROVE  l = i /\ m = new1
        <4>1. ASSUME m \in DOMAIN history[l] PROVE FALSE
          BY <1>1, <1>6, <2>2, <3>1, <3>2, <4>1
        <4> QED  BY <1>1, <4>1
      <3> QED  BY <1>1, <1>2, <1>3, <3>1, <3>2
    <2> QED  BY <2>1, <2>2
  <1>9. ASSUME NEW j \in Item, NEW p \in posts'[j], p.kind = "answer"
        PROVE  history'[j][p.revision].event # 0 /\ history'[j][p.revision].action = "answer"
    <2>1. CASE p \in posts[j]
      BY <1>1, <1>9, <2>1 DEF OneEvent
    <2>2. CASE j = i /\ p \in written
      <3>1. published /\ action = "answer"
        BY <1>9, <2>2 DEF Transaction, Fits
      <3>2. p.revision = new1
        BY <1>v, <2>2, TablesAfter
      <3>3. row.event # 0 /\ row.action = "answer"
        BY <1>3, <1>4, <3>1
      <3> QED  BY <1>2, <2>2, <3>2, <3>3
    <2>3. p \in posts[j] \/ (j = i /\ p \in written)
      <3>1. posts'[i] = posts[i] \cup written /\ \A l \in Item \ {i} : posts'[l] = posts[l]
        BY TablesAfter
      <3> QED  BY <3>1
    <2> QED  BY <2>1, <2>2, <2>3
  <1>10. OneEvent'
    BY <1>8, <1>9 DEF OneEvent
  <1> QED  BY <1>7, <1>10

\* The agent x has taken part in item j by revision n.
TookPart(x, j, n) ==
  \/ \E c \in Receipts : /\ Of(c).item = j /\ Of(c).at.version <= n
                         /\ x = Of(c).at.creator \/ x = Of(c).at.assignee
  \/ \E p \in posts[j] : /\ p.revision <= n /\ p.kind \in Discussion
                         /\ x = history[j][p.revision].by

LEMMA PartiesTookPart ==
  ASSUME NEW j, NEW n
  PROVE  /\ Parties(j, n) = {x \in Agent : TookPart(x, j, n)}
         /\ Parties(j, n)' = {x \in Agent : TookPart(x, j, n)'}
  <1>1. Parties(j, n) = {x \in Agent : TookPart(x, j, n)}
    BY DEF Parties, TookPart
  <1>2. Parties(j, n)' = {x \in Agent : TookPart(x, j, n)'}
    BY DEF Parties, TookPart
  <1> QED  BY <1>1, <1>2

LEMMA PartiesAfter ==
  ASSUME Tables, OncePerOperation, PartiesSubscribe,
         NEW a, NEW k, NEW i, NEW seen, NEW new, NEW written, NEW published, NEW action,
         NEW stored, NEW row, NEW events, NEW made,
         Transaction(a, k, i, seen, new, written, published, action, stored, row, events, made)
  PROVE  /\ \A j \in Item, n \in Nat : j # i \/ n <= item[i].version =>
              Parties(j, n)' = Parties(j, n)
         /\ \A n \in Nat : n = item[i].version + 1 => Parties(i, n)' = stored.subscribers
  <1>1. PICK mine \in Actor \X Operation :
          /\ Receipts' = Receipts \cup {mine} /\ mine \notin Receipts
          /\ Of(mine)' = made
          /\ \A c \in Receipts : Of(c)' = Of(c)
    BY ReceiptAfter
  <1>2. PICK v \in Nat : v = item[i].version
    BY TablesAfter
  <1>3. made.item = i /\ made.at = stored /\ stored.version = v + 1
    BY <1>2 DEF Transaction, Effect
  <1>4. /\ \A j \in Item : \A p \in posts[j] : history'[j][p.revision] = history[j][p.revision]
        /\ \A p \in posts[i] : p.revision <= v /\ p.revision \in Nat
        /\ \A p \in written : p.revision = v + 1
        /\ posts'[i] = posts[i] \cup written
        /\ \A j \in Item \ {i} : posts'[j] = posts[j]
        /\ history'[i][v + 1] = row
        /\ i \in Item
    BY <1>2, TablesAfter, HistoryAfter
  <1>5. \A c \in Receipts : Of(c).item = i => Of(c).at.version \in Nat /\ Of(c).at.version <= v
    BY <1>2 DEF OncePerOperation
  <1>6. ASSUME NEW j \in Item, NEW n \in Nat, j # i \/ n <= v, NEW x
        PROVE  TookPart(x, j, n)' <=> TookPart(x, j, n)
    <2>1. \A c \in Receipts' : Of(c)'.item = j /\ Of(c)'.at.version <= n => c \in Receipts
      BY <1>1, <1>3, <1>6
    <2>2. \A p \in posts'[j] : p.revision <= n => p \in posts[j]
      BY <1>4, <1>6
    <2>3. posts[j] \subseteq posts'[j]
      BY <1>4
    <2> QED  BY <1>1, <1>4, <2>1, <2>2, <2>3 DEF TookPart
  <1>7. ASSUME NEW j \in Item, NEW n \in Nat, j # i \/ n <= v
        PROVE  Parties(j, n)' = Parties(j, n)
    <2>1. /\ Parties(j, n) = {x \in Agent : TookPart(x, j, n)}
          /\ Parties(j, n)' = {x \in Agent : TookPart(x, j, n)'}
      BY PartiesTookPart
    <2>2. \A x : TookPart(x, j, n)' <=> TookPart(x, j, n)
      BY <1>6, <1>7
    <2> QED  BY <2>1, <2>2
  <1>8. ASSUME NEW x
        PROVE  TookPart(x, i, v + 1)' <=>
                 \/ TookPart(x, i, v)
                 \/ x = stored.creator \/ x = stored.assignee
                 \/ x = a /\ \E p \in written : p.kind \in Discussion
    <2>1. \A c \in Receipts : Of(c).item = i =>
            (Of(c).at.version <= v + 1 /\ Of(c).at.version <= v)
      BY <1>5
    <2>2. \A p \in posts[i] : p.revision <= v + 1 /\ p.revision <= v
      BY <1>4
    <2>3. row.by = a
      BY LogAfter
    <2>4. (\E c \in Receipts' : /\ Of(c)'.item = i /\ Of(c)'.at.version <= v + 1
                                /\ x = Of(c)'.at.creator \/ x = Of(c)'.at.assignee)
          <=> \/ \E c \in Receipts : /\ Of(c).item = i /\ Of(c).at.version <= v
                                     /\ x = Of(c).at.creator \/ x = Of(c).at.assignee
              \/ x = stored.creator \/ x = stored.assignee
      BY <1>1, <1>3, <2>1
    <2>5. (\E p \in posts'[i] : /\ p.revision <= v + 1 /\ p.kind \in Discussion
                                /\ x = history'[i][p.revision].by)
          <=> \/ \E p \in posts[i] : /\ p.revision <= v /\ p.kind \in Discussion
                                     /\ x = history[i][p.revision].by
              \/ x = a /\ \E p \in written : p.kind \in Discussion
      BY <1>4, <2>2, <2>3
    <2> QED  BY <2>4, <2>5 DEF TookPart
  <1>9. new.subscribers = Parties(i, v)
    <2>1. CASE v = 0
      <3>1. ASSUME NEW c \in Receipts, Of(c).item = i PROVE FALSE
        <4>1. PICK r : r = Of(c)
          OBVIOUS
        <4>2. r.at.version \in 1 .. item[r.item].version
          BY <4>1 DEF OncePerOperation
        <4>3. item[r.item].version = 0
          BY <1>2, <2>1, <3>1, <4>1
        <4>4. r.at.version \in 1 .. 0
          BY <4>2, <4>3
        <4> QED  BY <4>4
      <3>2. posts[i] = {}
        <4>1. \A p \in posts[i] : p.revision \in 1 .. item[i].version
          BY <1>4 DEF Tables
        <4> QED  BY <1>2, <2>1, <4>1
      <3>3. Parties(i, v) = {}
        BY <3>1, <3>2, PartiesTookPart DEF TookPart
      <3> QED  BY <1>2, <2>1, <3>3 DEF Transaction, Fits
    <2>2. CASE v # 0
      BY <1>2, <1>4, <2>2 DEF Transaction, Fits, PartiesSubscribe
    <2> QED  BY <2>1, <2>2
  <1>10. stored.subscribers =
           new.subscribers \cup ({stored.creator, stored.assignee} \cap Agent)
             \cup {b \in {a} \cap Agent : \E p \in written : p.kind \in Discussion}
    BY DEF Transaction, Effect, Subscribers
  <1>11. Parties(i, v + 1)' = stored.subscribers
    BY <1>8, <1>9, <1>10, PartiesTookPart
  <1> QED  BY <1>2, <1>7, <1>11

LEMMA ToldAfter ==
  ASSUME Tables, OncePerOperation, RowsNameEvents, PartiesSubscribe, PartiesTold,
         NEW a, NEW k, NEW i, NEW seen, NEW new, NEW written, NEW published, NEW action,
         NEW stored, NEW row, NEW events, NEW made,
         Transaction(a, k, i, seen, new, written, published, action, stored, row, events, made)
  PROVE  PartiesSubscribe' /\ PartiesTold'
  <1>2. PICK v \in Nat : v = item[i].version
    BY TablesAfter
  <1>3. /\ \A j \in Item, n \in Nat : j # i \/ n <= v => Parties(j, n)' = Parties(j, n)
        /\ Parties(i, v + 1)' = stored.subscribers
    BY <1>2, PartiesAfter
  <1>4. /\ i \in Item /\ item'[i] = stored /\ stored.version = v + 1
        /\ \A j \in Item \ {i} : item'[j] = item[j]
        /\ history'[i][v + 1] = row
    BY <1>2, TablesAfter
  <1>5. PartiesSubscribe'
    <2>1. ASSUME NEW j \in Item, item'[j].version > 0
          PROVE  (item[j].subscribers = Parties(j, item[j].version))'
      <3>1. PICK n : n = item'[j].version
        OBVIOUS
      <3>2. CASE j = i
        <4>1. item'[j].subscribers = Parties(j, n)'
          BY <1>3, <1>4, <3>1, <3>2
        <4> QED  BY <3>1, <4>1
      <3>3. CASE j # i
        <4>1. item[j].version \in Nat /\ n = item[j].version
          BY <1>4, <3>1, <3>3 DEF Tables
        <4>2. Parties(j, n)' = Parties(j, n)
          BY <1>3, <3>3, <4>1
        <4>3. item'[j].subscribers = Parties(j, n)'
          BY <1>4, <2>1, <3>3, <4>1, <4>2 DEF PartiesSubscribe
        <4> QED  BY <3>1, <4>3
      <3> QED  BY <3>2, <3>3
    <2> QED  BY <2>1 DEF PartiesSubscribe
  <1>6. /\ \A j \in Item : \A n \in DOMAIN history[j] :
             n \in DOMAIN history'[j] /\ history'[j][n] = history[j][n]
        /\ \A j \in Item : \A n \in DOMAIN history'[j] :
             n \in DOMAIN history[j] \/ (j = i /\ n = v + 1)
    BY <1>2, HistoryAfter
  <1>7. /\ DOMAIN log = 1 .. Len(log)
        /\ \A e \in 1 .. Len(log) : log'[e] = log[e]
        /\ row.by = a
        /\ stored.subscribers \ {a} # {} =>
             row.event # 0 /\ log'[row.event].for = stored.subscribers \ {a}
    BY LogAfter
  <1>8. ASSUME NEW j \in Item, NEW n \in DOMAIN history'[j],
               Parties(j, n)' \ {history'[j][n].by} # {}
        PROVE  /\ history'[j][n].event # 0
               /\ log'[history'[j][n].event].for = Parties(j, n)' \ {history'[j][n].by}
    <2>1. CASE n \in DOMAIN history[j]
      <3>1. history'[j][n] = history[j][n]
        BY <1>6, <2>1
      <3>2. n \in Nat /\ (j = i => n <= v)
        BY <1>2, <2>1 DEF Tables
      <3>3. Parties(j, n)' = Parties(j, n)
        BY <1>3, <3>2
      <3>4. /\ history[j][n].event # 0
            /\ log[history[j][n].event].for = Parties(j, n) \ {history[j][n].by}
        BY <1>8, <2>1, <3>1, <3>3 DEF PartiesTold
      <3>5. history[j][n].event \in 1 .. Len(log)
        BY <1>7, <2>1, <3>4 DEF RowsNameEvents
      <3> QED  BY <1>7, <3>1, <3>3, <3>4, <3>5
    <2>2. CASE j = i /\ n = v + 1
      BY <1>3, <1>4, <1>7, <1>8, <2>2
    <2> QED  BY <1>6, <2>1, <2>2
  <1>9. PartiesTold'
    BY <1>8 DEF PartiesTold
  <1> QED  BY <1>5, <1>9

-----------------------------------------------------------------------------
(* The posts of the item, after a transaction.                             *)

\* A transaction has written these posts of item i and made `new' of its row.
Wrote(i, new, written) ==
  \E a, k, seen, published, action, stored, row, events, made :
    Transaction(a, k, i, seen, new, written, published, action, stored, row, events, made)

LEMMA PostsWritten ==
  ASSUME Tables, TypeOK, NEW i, NEW new, NEW written, Wrote(i, new, written)
  PROVE  /\ i \in Item
         /\ item'[i].status = new.status /\ item'[i].version = item[i].version + 1
         /\ \A p \in written : p.revision = item[i].version + 1
         /\ posts'[i] = posts[i] \cup written
         /\ Now(i)' = {p \in Now(i) : \A w \in written : w.number # p.number} \cup written
         /\ Now(i)' = Entries(posts'[i], item[i].version + 1)
         /\ \A n \in Nat : n <= item[i].version => Entries(posts'[i], n) = Entries(posts[i], n)
         /\ \A j \in Item \ {i} : /\ item'[j] = item[j] /\ posts'[j] = posts[j]
                                  /\ Now(j)' = Now(j)
         /\ PostsFit(i, written)
         /\ StatusFits(i, new, written)
  <1>1. PICK a, k, seen, published, action, stored, row, events, made :
          Transaction(a, k, i, seen, new, written, published, action, stored, row, events, made)
    BY DEF Wrote
  <1>2. /\ i \in Item
        /\ item'[i] = stored /\ stored.version = item[i].version + 1
        /\ \A p \in written : p.revision = item[i].version + 1
        /\ posts'[i] = posts[i] \cup written
        /\ \A j \in Item \ {i} : item'[j] = item[j] /\ posts'[j] = posts[j]
    BY <1>1, TablesAfter
  <1>3. /\ Now(i)' = {p \in Now(i) : \A w \in written : w.number # p.number} \cup written
        /\ Now(i)' = Entries(posts'[i], item[i].version + 1)
        /\ \A n \in Nat : n <= item[i].version => Entries(posts'[i], n) = Entries(posts[i], n)
        /\ \A j \in Item \ {i} : Now(j)' = Now(j)
    BY <1>1, PostsAfter
  <1>4. PostsFit(i, written) /\ StatusFits(i, new, written) /\ stored.status = new.status
    BY <1>1 DEF Transaction, Fits, Effect
  <1> QED  BY <1>2, <1>3, <1>4

\* What is written of a post that there is.
LEMMA SameNumber ==
  ASSUME TypeOK, Shape, NEW i \in Item, NEW written, PostsFit(i, written),
         NEW w \in written, NEW p \in posts[i], w.number = p.number
  PROVE  /\ Rewritten(i, w)
         /\ w.kind = "question" /\ p.kind = "question" /\ w.to = 0 /\ p.to = 0
  <1>1. p.number \in Nat
    BY PostTypes
  <1>2. ~ Appended(i, w)
    BY <1>1 DEF Appended
  <1>3. Rewritten(i, w)
    BY <1>2 DEF PostsFit
  <1>4. PICK q \in Now(i) : /\ q.kind = "question"
                            /\ w.number = q.number /\ w.kind = q.kind /\ w.to = q.to
    BY <1>3 DEF Rewritten
  <1>5. q \in posts[i] /\ q.to = 0
    BY <1>4, PostTypes DEF Shape, Refer
  <1>6. \A o, r \in posts[i] : o.number = r.number => o.kind = r.kind /\ o.to = r.to
    BY DEF Shape, OnePostPerNumber
  <1>7. p.kind = q.kind /\ p.to = q.to
    BY <1>4, <1>5, <1>6
  <1> QED  BY <1>3, <1>4, <1>5, <1>7

\* Only questions are written again.
LEMMA NewPosts ==
  ASSUME TypeOK, Shape, NEW i \in Item, NEW written, PostsFit(i, written),
         NEW w \in written, w.kind # "question"
  PROVE  Appended(i, w)
  BY DEF PostsFit, Rewritten

LEMMA NumberedAfter ==
  ASSUME Tables, TypeOK, Shape, NEW i, NEW new, NEW written, Wrote(i, new, written)
  PROVE  Numbered'
  <1>1. /\ i \in Item /\ posts'[i] = posts[i] \cup written
        /\ \A j \in Item \ {i} : posts'[j] = posts[j]
        /\ PostsFit(i, written)
    BY PostsWritten
  <1>2. NumbersOf(i)' = NumbersOf(i) \cup {p.number : p \in written}
    BY <1>1 DEF NumbersOf
  <1>3. \A j \in Item \ {i} : NumbersOf(j)' = NumbersOf(j)
    BY <1>1 DEF NumbersOf
  <1>4. ASSUME NEW j \in Item PROVE \E n \in Nat : NumbersOf(j)' = 1 .. n
    <2>1. CASE j = i
      BY <1>1, <1>2, <2>1 DEF PostsFit
    <2>2. CASE j # i
      BY <1>3, <2>2 DEF Shape, Numbered
    <2> QED  BY <2>1, <2>2
  <1> QED  BY <1>4 DEF Numbered

LEMMA OnePostAfter ==
  ASSUME Tables, TypeOK, Shape, NEW i, NEW new, NEW written, Wrote(i, new, written)
  PROVE  OnePostPerNumber'
  <1>1. /\ i \in Item /\ posts'[i] = posts[i] \cup written
        /\ \A p \in written : p.revision = item[i].version + 1
        /\ Now(i)' = {p \in Now(i) : \A w \in written : w.number # p.number} \cup written
        /\ \A j \in Item \ {i} : posts'[j] = posts[j] /\ Now(j)' = Now(j)
        /\ PostsFit(i, written)
    BY PostsWritten
  <1>2. ASSUME NEW p \in posts[i] \cup written
        PROVE  \E q \in Now(i)' : q.number = p.number
    <2>1. CASE \E w \in written : w.number = p.number
      BY <1>1, <2>1
    <2>2. CASE \A w \in written : w.number # p.number
      <3>1. p \in posts[i]
        BY <2>2
      <3>2. PICK q \in Now(i) : q.number = p.number
        BY <1>1, <3>1 DEF Shape, OnePostPerNumber
      <3> QED  BY <1>1, <2>2, <3>2
    <2> QED  BY <2>1, <2>2
  <1>3. ASSUME NEW p \in posts[i], NEW w \in written, p.number = w.number
        PROVE  p.kind = w.kind /\ p.to = w.to /\ p.revision # w.revision
    <2>1. p.kind = w.kind /\ p.to = w.to
      BY <1>1, <1>3, SameNumber
    <2>2. /\ w.revision = item[i].version + 1 /\ item[i].version \in Nat
          /\ p.revision <= item[i].version /\ p.revision \in Nat
      BY <1>1, PostTypes
    <2> QED  BY <2>1, <2>2
  <1>4. ASSUME NEW p \in posts[i] \cup written, NEW q \in posts[i] \cup written,
               p.number = q.number
        PROVE  p.kind = q.kind /\ p.to = q.to /\ (p.revision = q.revision => p = q)
    <2>1. CASE p \in posts[i] /\ q \in posts[i]
      BY <1>1, <1>4, <2>1 DEF Shape, OnePostPerNumber
    <2>2. CASE p \in written /\ q \in written
      BY <1>1, <1>4, <2>2 DEF PostsFit
    <2>3. CASE p \in posts[i] /\ q \in written
      BY <1>3, <1>4, <2>3
    <2>4. CASE p \in written /\ q \in posts[i]
      BY <1>3, <1>4, <2>4
    <2> QED  BY <2>1, <2>2, <2>3, <2>4
  <1>5. ASSUME NEW j \in Item
        PROVE  /\ \A p \in posts'[j] : \E q \in Now(j)' : q.number = p.number
               /\ \A p, q \in posts'[j] : p.number = q.number =>
                    p.kind = q.kind /\ p.to = q.to /\ (p.revision = q.revision => p = q)
    <2>1. CASE j = i
      BY <1>1, <1>2, <1>4, <2>1
    <2>2. CASE j # i
      BY <1>1, <2>2 DEF Shape, OnePostPerNumber
    <2> QED  BY <2>1, <2>2
  <1> QED  BY <1>5 DEF OnePostPerNumber

LEMMA ReferAfter ==
  ASSUME Tables, TypeOK, Shape, NEW i, NEW new, NEW written, Wrote(i, new, written)
  PROVE  Refer'
  <1>1. /\ i \in Item /\ posts'[i] = posts[i] \cup written
        /\ \A p \in written : p.revision = item[i].version + 1
        /\ \A j \in Item \ {i} : posts'[j] = posts[j]
        /\ PostsFit(i, written)
    BY PostsWritten
  <1>2. \A j \in Item : NumbersOf(j) \subseteq NumbersOf(j)'
    BY <1>1 DEF NumbersOf
  <1>3. \A j \in Item : \A p \in posts[j] :
          /\ p.to \in {0} \cup NumbersOf(j)
          /\ p.kind = "question" => p.to = 0
          /\ p.text <= p.revision
    BY DEF Shape, Refer
  <1>4. /\ item[i].version \in Nat /\ Now(i) \subseteq posts[i]
        /\ \A p \in posts[i] : /\ p.revision \in Nat /\ p.revision <= item[i].version
                               /\ p.text \in Nat
    BY <1>1, PostTypes
  <1>5. Questions(Now(i)) \subseteq NumbersOf(i)
    BY <1>4 DEF Questions, NumbersOf
  <1>6. ASSUME NEW p \in written
        PROVE  /\ p.to \in {0} \cup NumbersOf(i)
               /\ p.kind = "question" => p.to = 0
               /\ p.text <= p.revision
    <2>1. CASE Appended(i, p)
      <3>1. p.text = p.revision /\ p.revision \in Nat
        BY <1>1, <1>4, <2>1 DEF Appended, Bump
      <3> QED  BY <1>5, <2>1, <3>1 DEF Appended
    <2>2. CASE Rewritten(i, p)
      <3>1. PICK q \in Now(i) : /\ q.kind = "question"
                                /\ p.number = q.number /\ p.kind = q.kind /\ p.to = q.to
                                /\ p.text = q.text \/ p.text = Bump(item[i])
        BY <2>2 DEF Rewritten
      <3>2. q \in posts[i] /\ q.to = 0 /\ q.text <= q.revision
        BY <1>1, <1>3, <1>4, <3>1
      <3>3. p.text <= item[i].version + 1
        <4>1. CASE p.text = q.text
          BY <1>4, <3>2, <4>1
        <4>2. CASE p.text = Bump(item[i])
          BY <1>4, <4>2 DEF Bump
        <4> QED  BY <3>1, <4>1, <4>2
      <3> QED  BY <1>1, <3>1, <3>2, <3>3
    <2> QED  BY <1>1, <2>1, <2>2 DEF PostsFit
  <1>7. ASSUME NEW j \in Item, NEW p \in posts'[j]
        PROVE  /\ p.to \in {0} \cup NumbersOf(j)'
               /\ p.kind = "question" => p.to = 0
               /\ p.text <= p.revision
    <2>1. CASE p \in posts[j]
      BY <1>2, <1>3, <2>1
    <2>2. CASE j = i /\ p \in written
      BY <1>1, <1>2, <1>6, <2>2
    <2> QED  BY <1>1, <2>1, <2>2
  <1> QED  BY <1>7 DEF Refer

\* Whether a status post is written or not, the last one says what the status is.
ClosingOf(status, ends) ==
  IF status = "resolved"
    THEN \A o \in ends : o.kind = "reopened" =>
           \E e \in ends : e.kind = "resolved" /\ e.number > o.number
    ELSE \A e \in ends : e.kind = "resolved" =>
           \E o \in ends : o.kind = "reopened" /\ o.number > e.number /\ o.revision > e.revision

LEMMA ClosingAfter ==
  ASSUME Tables, TypeOK, Shape, NEW i, NEW new, NEW written, Wrote(i, new, written)
  PROVE  Closing'
  <1>1. /\ i \in Item /\ posts'[i] = posts[i] \cup written
        /\ item'[i].status = new.status
        /\ \A p \in written : p.revision = item[i].version + 1
        /\ \A j \in Item \ {i} : posts'[j] = posts[j] /\ item'[j] = item[j]
        /\ PostsFit(i, written) /\ StatusFits(i, new, written)
    BY PostsWritten
  <1>2. /\ item[i].version \in Nat
        /\ \A p \in posts[i] : p.number \in Nat /\ p.revision \in Nat /\ p.revision <= item[i].version
    BY <1>1, PostTypes
  <1>e. PICK ends : ends = Ends(i) \cup {p \in written : p.kind \notin Discussion}
    OBVIOUS
  <1>3. /\ Ends(i)' = ends
        /\ \A j \in Item \ {i} : Ends(j)' = Ends(j)
    BY <1>1, <1>e DEF Ends
  <1>4. \A w \in written : w.kind \notin Discussion =>
          /\ w.number \in Nat /\ w.kind \in {"resolved", "reopened"}
          /\ w.kind = "resolved" <=> new.status = "resolved"
          /\ \A p \in posts[i] : p.number < w.number
    <2>1. ASSUME NEW w \in written, w.kind \notin Discussion
          PROVE  w.number \in Nat /\ w.kind \in {"resolved", "reopened"} /\ Appended(i, w)
      <3>1. w.kind # "question"
        BY <2>1 DEF Discussion
      <3>2. w \in Post
        BY <1>1 DEF PostsFit
      <3>3. Appended(i, w)
        BY <1>1, <3>1, NewPosts
      <3> QED  BY <2>1, <3>2, <3>3 DEF Post
    <2> QED  BY <1>1, <2>1 DEF StatusFits, Appended
  <1>5. ASSUME \E w \in written : w.kind \notin Discussion
        PROVE  ClosingOf(new.status, ends)
    <2>1. PICK w \in written : w.kind \notin Discussion
      BY <1>5
    <2>2. w \in ends
      BY <1>e, <2>1
    <2>3. \A p \in ends : p.kind # w.kind => p \in posts[i]
      BY <1>e, <1>4, <2>1 DEF Ends
    <2>4. \A p \in posts[i] : w.number > p.number /\ w.revision > p.revision
      BY <1>1, <1>2, <1>4, <2>1
    <2>5. ClosingOf(new.status, ends)
      BY <1>4, <2>1, <2>2, <2>3, <2>4 DEF ClosingOf
    <2> QED  BY <2>5
  <1>6. ASSUME \A w \in written : w.kind \in Discussion
        PROVE  ClosingOf(new.status, ends)
    <2>1. ends = Ends(i)
      BY <1>e, <1>6
    <2>2. CASE item[i].version = 0
      <3>1. ends = {}
        BY <1>1, <2>1, <2>2, NoPostsYet DEF Ends
      <3> QED  BY <3>1 DEF ClosingOf
    <2>3. CASE item[i].version > 0
      <3>1. new.status = "resolved" <=> item[i].status = "resolved"
        BY <1>1, <1>6, <2>3 DEF StatusFits
      <3> QED  BY <1>1, <2>1, <2>3, <3>1 DEF Shape, Closing, ClosingOf
    <2> QED  BY <1>2, <2>2, <2>3
  <1>7. ClosingOf(new.status, ends)
    BY <1>5, <1>6
  <1>8. ASSUME NEW j \in Item, item'[j].version > 0
        PROVE  ClosingOf(item'[j].status, Ends(j)')
    <2>1. CASE j = i
      BY <1>1, <1>3, <1>7, <2>1
    <2>2. CASE j # i
      BY <1>1, <1>3, <1>8, <2>2 DEF Shape, Closing, ClosingOf
    <2> QED  BY <2>1, <2>2
  <1> QED  BY <1>8 DEF Closing, ClosingOf

LEMMA ShapeAfter ==
  ASSUME Tables, TypeOK, Shape, NEW i, NEW new, NEW written, Wrote(i, new, written)
  PROVE  Shape'
  <1>1. Numbered' /\ OnePostPerNumber' /\ Refer' /\ Closing'
    BY NumberedAfter, OnePostAfter, ReferAfter, ClosingAfter
  <1> QED  BY <1>1 DEF Shape

\* A snapshot that is replaced is one of a question without an answer.
LEMMA StaysOrIsPending ==
  ASSUME Tables, TypeOK, Shape, NEW i, NEW new, NEW written, Wrote(i, new, written),
         NEW p \in Now(i)
  PROVE  \/ p \in Now(i)'
         \/ \E w \in written : w.number = p.number /\ ~ Answered(p, Now(i)) /\ p.kind = "question"
  <1>1. /\ i \in Item
        /\ Now(i)' = {q \in Now(i) : \A w \in written : w.number # q.number} \cup written
        /\ PostsFit(i, written)
    BY PostsWritten
  <1>2. ASSUME NEW w \in written, w.number = p.number
        PROVE  ~ Answered(p, Now(i)) /\ p.kind = "question"
    <2>1. p \in posts[i]
      BY <1>1, PostTypes
    <2>2. Rewritten(i, w) /\ p.kind = "question"
      BY <1>1, <1>2, <2>1, SameNumber
    <2>3. PICK q \in Now(i) : ~ Answered(q, Now(i)) /\ w.number = q.number
      BY <2>2 DEF Rewritten
    <2>4. q = p
      BY <1>1, <1>2, <2>3, OneSnapshot
    <2> QED  BY <2>2, <2>3, <2>4
  <1> QED  BY <1>1, <1>2

\* An answer that stands is never written again.
LEMMA AnsweredStays ==
  ASSUME Tables, TypeOK, Shape, NEW i, NEW new, NEW written, Wrote(i, new, written),
         NEW p, Answered(p, Now(i))
  PROVE  Answered(p, Now(i))'
  <1>1. PICK b \in Now(i) : b.kind = "answer" /\ b.to = p.number /\ (p.asks => b.by \in Human)
    BY DEF Answered
  <1>2. b \in Now(i)'
    BY <1>1, StaysOrIsPending
  <1> QED  BY <1>1, <1>2 DEF Answered

LEMMA AnswersAfter ==
  ASSUME Tables, TypeOK, Shape, AnswersStand,
         NEW i, NEW new, NEW written, Wrote(i, new, written)
  PROVE  AnswersStand'
  <1>1. /\ i \in Item /\ posts'[i] = posts[i] \cup written
        /\ item'[i].version = item[i].version + 1
        /\ \A p \in written : p.revision = item[i].version + 1
        /\ Now(i)' = Entries(posts'[i], item[i].version + 1)
        /\ \A n \in Nat : n <= item[i].version => Entries(posts'[i], n) = Entries(posts[i], n)
        /\ \A j \in Item \ {i} : posts'[j] = posts[j] /\ item'[j] = item[j]
        /\ PostsFit(i, written)
    BY PostsWritten
  <1>2. /\ item[i].version \in Nat /\ Now(i) \subseteq posts[i]
        /\ \A p \in posts[i] : /\ p.revision \in Nat /\ p.revision <= item[i].version
                               /\ p.text \in Nat /\ p.number \in Nat /\ p.to \in Nat
    BY <1>1, PostTypes
  <1>3. PICK v \in Nat : v = item[i].version
    BY <1>2
  <1>4. \A p \in posts[i] : /\ p.number # 0 /\ p.text <= p.revision
                            /\ p.to \in {0} \cup NumbersOf(i)
                            /\ p.kind = "question" => p.to = 0
    <2>1. PICK n \in Nat : NumbersOf(i) = 1 .. n
      BY <1>1 DEF Shape, Numbered
    <2>2. \A p \in posts[i] : p.number \in 1 .. n
      BY <2>1 DEF NumbersOf
    <2> QED  BY <1>1, <2>2 DEF Shape, Refer
  <1>5. ASSUME NEW q \in posts[i] \cup written, NEW b \in posts[i] \cup written, b.to = q.number
        PROVE  q.text < b.revision
    <2>1. CASE q \in posts[i] /\ b \in posts[i]
      BY <1>1, <1>5, <2>1 DEF AnswersStand
    <2>2. CASE q \in posts[i] /\ b \in written
      BY <1>1, <1>2, <1>4, <2>2
    <2>3. CASE Appended(i, q)
      <3>1. q.number # 0 /\ q.number \notin NumbersOf(i)
        <4>1. q.number \notin NumbersOf(i)
          BY <1>2, <2>3 DEF Appended, NumbersOf
        <4>2. PICK n \in Nat : NumbersOf(i) \cup {p.number : p \in written} = 1 .. n
          BY <1>1 DEF PostsFit
        <4>3. q.number \in 1 .. n
          BY <4>2 DEF NumbersOf
        <4> QED  BY <4>1, <4>3
      <3>2. b \notin posts[i]
        BY <1>4, <1>5, <3>1
      <3>3. CASE Appended(i, b)
        <4>1. Questions(Now(i)) \subseteq NumbersOf(i)
          BY <1>2 DEF Questions, NumbersOf
        <4> QED  BY <1>5, <3>1, <3>3, <4>1 DEF Appended
      <3>4. CASE Rewritten(i, b)
        BY <1>2, <1>4, <1>5, <3>1, <3>4 DEF Rewritten
      <3> QED  BY <1>1, <3>2, <3>3, <3>4 DEF PostsFit
    <2>4. CASE Rewritten(i, q)
      <3>1. PICK o \in Now(i) :
              /\ q.number = o.number
              /\ q.text = o.text \/ (q.text = Bump(item[i]) /\ ~ Replied(o.number, Now(i)))
        BY <2>4 DEF Rewritten
      <3>2. o \in posts[i] /\ o.number # 0
        BY <1>2, <1>4, <3>1
      <3>3. CASE b \in posts[i]
        <4>1. PICK c \in Now(i) : c.number = b.number
          BY <1>1, <3>3 DEF Shape, OnePostPerNumber
        <4>2. c.to = b.to
          BY <1>1, <1>2, <3>3, <4>1 DEF Shape, OnePostPerNumber
        <4>3. Replied(o.number, Now(i))
          BY <1>5, <3>1, <4>2 DEF Replied
        <4>4. q.text = o.text
          BY <3>1, <4>3
        <4> QED  BY <1>1, <1>5, <3>1, <3>2, <3>3, <4>4 DEF AnswersStand
      <3>4. CASE b \in written
        <4>1. CASE Rewritten(i, b)
          <5>1. b.to = 0
            BY <1>2, <1>4, <4>1 DEF Rewritten
          <5> QED  BY <1>5, <3>1, <3>2, <5>1
        <4>2. CASE Appended(i, b)
          <5>1. q \in posts[i]
            <6>1. ~ Appended(i, q)
              BY <1>2, <3>1, <3>2 DEF Appended
            <6>2. ~ Rewritten(i, b)
              BY <1>2, <4>2 DEF Rewritten, Appended
            <6> QED  BY <1>1, <3>4, <6>1, <6>2 DEF PostsFit
          <5> QED  BY <2>2, <3>4, <5>1
        <4> QED  BY <1>1, <3>4, <4>1, <4>2 DEF PostsFit
      <3> QED  BY <3>3, <3>4
    <2> QED  BY <1>1, <2>1, <2>2, <2>3, <2>4 DEF PostsFit
  <1>6. \A n \in Nat : n <= v => Settled(i, n)' = Settled(i, n)
    BY <1>1, <1>3 DEF Settled
  <1>7. Settled(i, v) = Questions({p \in Now(i) : Answered(p, Now(i))})
    BY <1>3 DEF Settled, Now
  <1>8. PICK E : E = Now(i)'
    OBVIOUS
  <1>9. Settled(i, v + 1)' = Questions({p \in E : Answered(p, E)})
    BY <1>1, <1>3, <1>8 DEF Settled
  <1>10. Settled(i, v) \subseteq Settled(i, v + 1)'
    <2>1. ASSUME NEW p \in Now(i), p.kind = "question", Answered(p, Now(i))
          PROVE  p \in E /\ Answered(p, E)
      <3>1. p \in Now(i)'
        BY <2>1, StaysOrIsPending
      <3>2. Answered(p, Now(i))'
        BY <2>1, AnsweredStays
      <3>3. Answered(p, E)
        BY <1>8, <3>2 DEF Answered
      <3> QED  BY <1>8, <3>1, <3>3
    <2> QED  BY <1>7, <1>9, <2>1 DEF Questions
  <1>11. ASSUME NEW n \in 2 .. v + 1 PROVE Settled(i, n - 1)' \subseteq Settled(i, n)'
    <2>1. CASE n = v + 1
      <3>1. n - 1 = v
        BY <2>1
      <3> QED  BY <1>6, <1>10, <2>1, <3>1
    <2>2. CASE n <= v
      <3>1. n \in 2 .. item[i].version /\ n \in Nat /\ n - 1 \in Nat /\ n - 1 <= v
        BY <1>3, <2>2
      <3> QED  BY <1>1, <1>6, <2>2, <3>1 DEF AnswersStand
    <2> QED  BY <2>1, <2>2
  <1>12. ASSUME NEW j \in Item
         PROVE  /\ \A q, b \in posts'[j] : b.to = q.number => q.text < b.revision
                /\ \A n \in 2 .. item'[j].version : Settled(j, n - 1)' \subseteq Settled(j, n)'
    <2>1. CASE j = i
      BY <1>1, <1>3, <1>5, <1>11, <2>1
    <2>2. CASE j # i
      <3>1. posts'[j] = posts[j] /\ item'[j] = item[j]
        BY <1>1, <2>2
      <3>2. \A n : Settled(j, n)' = Settled(j, n)
        BY <3>1 DEF Settled
      <3> QED  BY <3>1, <3>2 DEF AnswersStand
    <2> QED  BY <2>1, <2>2
  <1> QED  BY <1>12 DEF AnswersStand

\* The pending requests for human input, as of revision n.
Requests(i, n) == Questions({p \in Unanswered(Entries(posts[i], n)) : p.asks})

\* Request m, pending until revision n, was answered by a human at it, or edited.
Cleared(i, n, m) ==
  \E p \in posts[i] : p.revision = n /\ (p.number = m \/ (p.to = m /\ p.by \in Human))

LEMMA HumanRequestAfter ==
  ASSUME Tables, TypeOK, Shape, HumanRequestStands,
         NEW i, NEW new, NEW written, Wrote(i, new, written)
  PROVE  HumanRequestStands'
  <1>1. /\ i \in Item /\ posts'[i] = posts[i] \cup written
        /\ item'[i].version = item[i].version + 1
        /\ \A p \in written : p.revision = item[i].version + 1
        /\ Now(i)' = {p \in Now(i) : \A w \in written : w.number # p.number} \cup written
        /\ Now(i)' = Entries(posts'[i], item[i].version + 1)
        /\ \A n \in Nat : n <= item[i].version => Entries(posts'[i], n) = Entries(posts[i], n)
        /\ \A j \in Item \ {i} : posts'[j] = posts[j] /\ item'[j] = item[j]
    BY PostsWritten
  <1>2. PICK v \in Nat : v = item[i].version
    BY <1>1, PostTypes
  <1>3. PICK E : E = Now(i)'
    OBVIOUS
  <1>4. /\ Requests(i, v) = Questions({p \in Unanswered(Now(i)) : p.asks})
        /\ Requests(i, v + 1)' = Questions({p \in Unanswered(E) : p.asks})
        /\ \A n \in Nat : n <= v => Requests(i, n)' = Requests(i, n)
    <2>1. Requests(i, v) = Questions({p \in Unanswered(Now(i)) : p.asks})
      BY <1>2 DEF Requests, Now
    <2>2. Entries(posts'[i], v + 1) = E
      BY <1>1, <1>2, <1>3
    <2>3. Requests(i, v + 1)' = Questions({p \in Unanswered(E) : p.asks})
      BY <2>2 DEF Requests
    <2>4. \A n \in Nat : n <= v => Requests(i, n)' = Requests(i, n)
      BY <1>1, <1>2 DEF Requests
    <2> QED  BY <2>1, <2>3, <2>4
  <1>5. ASSUME NEW m \in Requests(i, v), m \notin Requests(i, v + 1)'
        PROVE  Cleared(i, v + 1, m)'
    <2>1. PICK q \in Now(i) : /\ q.kind = "question" /\ q.asks /\ q.number = m
                              /\ ~ Answered(q, Now(i))
      BY <1>4 DEF Questions, Unanswered
    <2>2. CASE \E w \in written : w.number = m
      BY <1>1, <1>2, <2>2 DEF Cleared
    <2>3. CASE \A w \in written : w.number # m
      <3>1. q \in E
        BY <1>1, <1>3, <2>1, <2>3
      <3>2. Answered(q, E)
        BY <1>4, <1>5, <2>1, <3>1 DEF Questions, Unanswered
      <3>3. PICK b \in E : b.kind = "answer" /\ b.to = m /\ b.by \in Human
        BY <2>1, <3>2 DEF Answered
      <3>4. b \in written
        <4>1. b \notin Now(i)
          BY <2>1, <3>3 DEF Answered
        <4> QED  BY <1>1, <1>3, <4>1
      <3> QED  BY <1>1, <1>2, <3>3, <3>4 DEF Cleared
    <2> QED  BY <2>2, <2>3
  <1>6. \A j \in Item : \A n \in 2 .. item[j].version :
          \A m \in Requests(j, n - 1) \ Requests(j, n) : Cleared(j, n, m)
    BY DEF HumanRequestStands, Requests, Cleared
  <1>7. \A j \in Item : \A n, m : Cleared(j, n, m) => Cleared(j, n, m)'
    BY <1>1 DEF Cleared
  <1>8. ASSUME NEW n \in 2 .. v + 1, NEW m \in Requests(i, n - 1)' \ Requests(i, n)'
        PROVE  Cleared(i, n, m)'
    <2>1. CASE n = v + 1
      <3>1. n - 1 = v
        BY <2>1
      <3> QED  BY <1>4, <1>5, <1>8, <2>1, <3>1
    <2>2. CASE n <= v
      <3>1. n \in 2 .. item[i].version /\ n \in Nat /\ n - 1 \in Nat /\ n - 1 <= v
        BY <1>2, <2>2
      <3>2. m \in Requests(i, n - 1) \ Requests(i, n)
        BY <1>4, <1>8, <2>2, <3>1
      <3> QED  BY <1>1, <1>6, <1>7, <3>1, <3>2
    <2> QED  BY <2>1, <2>2
  <1>9. ASSUME NEW j \in Item, NEW n \in 2 .. item'[j].version,
               NEW m \in Requests(j, n - 1)' \ Requests(j, n)'
        PROVE  Cleared(j, n, m)'
    <2>1. CASE j = i
      BY <1>1, <1>2, <1>8, <1>9, <2>1
    <2>2. CASE j # i
      <3>1. posts'[j] = posts[j] /\ item'[j] = item[j]
        BY <1>1, <2>2
      <3>2. Requests(j, n - 1)' = Requests(j, n - 1) /\ Requests(j, n)' = Requests(j, n)
        BY <3>1 DEF Requests
      <3> QED  BY <1>6, <1>7, <1>9, <3>1, <3>2
    <2> QED  BY <2>1, <2>2
  <1> QED  BY <1>9 DEF HumanRequestStands, Requests, Cleared

\* What the last status post says and the status agree.
LEMMA LastEndIsStatus ==
  ASSUME NEW status, NEW ends, ClosingOf(status, ends),
         \A p \in ends : p.number \in Nat /\ p.kind \in {"resolved", "reopened"},
         NEW p \in ends, \A o \in ends : o.number <= p.number
  PROVE  status = "resolved" <=> p.kind = "resolved"
  <1>1. \A o \in ends : ~ (o.number > p.number)
    OBVIOUS
  <1> QED  BY <1>1 DEF ClosingOf

LEMMA ReadOnlyAfter ==
  ASSUME Tables, TypeOK, Shape, ResolvedIsReadOnly,
         NEW i, NEW new, NEW written, Wrote(i, new, written)
  PROVE  ResolvedIsReadOnly'
  <1>1. /\ i \in Item /\ posts'[i] = posts[i] \cup written
        /\ item'[i].version = item[i].version + 1
        /\ \A p \in written : p.revision = item[i].version + 1
        /\ \A j \in Item \ {i} : posts'[j] = posts[j] /\ item'[j] = item[j]
        /\ PostsFit(i, written) /\ StatusFits(i, new, written)
    BY PostsWritten
  <1>2. /\ item[i].version \in Nat
        /\ \A p \in posts[i] : p.revision \in Nat /\ p.revision <= item[i].version
    BY <1>1, PostTypes
  <1>3. \A j \in Item : posts'[j] \subseteq Post
    <2>1. \A j \in Item : posts[j] \subseteq Post
      BY DEF TypeOK
    <2>2. written \subseteq Post
      BY <1>1 DEF PostsFit
    <2> QED  BY <1>1, <2>1, <2>2
  <1>4. Closing'
    BY ClosingAfter
  <1>5. ASSUME NEW p \in Ends(i)', \A o \in Ends(i)' : o.number <= p.number
        PROVE  item'[i].status = "resolved" <=> p.kind = "resolved"
    <2>1. PICK ends : ends = Ends(i)'
      OBVIOUS
    <2>2. item'[i].version > 0
      BY <1>1, <1>2
    <2>3. ClosingOf(item'[i].status, ends)
      BY <1>1, <1>4, <2>1, <2>2 DEF Closing, ClosingOf
    <2>4. \A o \in ends : o.number \in Nat /\ o.kind \in {"resolved", "reopened"}
      BY <1>1, <1>3, <2>1 DEF Ends, Post
    <2>5. p \in ends /\ \A o \in ends : o.number <= p.number
      BY <1>5, <2>1
    <2> QED  BY <2>3, <2>4, <2>5, LastEndIsStatus
  <1>6. ASSUME NEW e \in Ends(i)', NEW p \in posts'[i] \ Ends(i)',
               e.kind = "resolved", e.revision < p.revision
        PROVE  \E o \in Ends(i)' : o.kind = "reopened" /\ o.revision \in e.revision + 1 .. p.revision - 1
    <2>1. Ends(i) \subseteq Ends(i)' /\ Ends(i)' \cap posts[i] = Ends(i)
      BY <1>1 DEF Ends
    <2>2. CASE p \in posts[i]
      <3>1. e \in posts[i]
        BY <1>1, <1>2, <1>6, <2>2 DEF Ends
      <3>2. e \in Ends(i) /\ p \in posts[i] \ Ends(i)
        BY <1>6, <2>1, <2>2, <3>1
      <3> QED  BY <1>1, <1>6, <2>1, <3>2 DEF ResolvedIsReadOnly, Ends
    <2>3. CASE p \in written
      <3>1. e \in posts[i]
        BY <1>1, <1>2, <1>6, <2>3 DEF Ends
      <3>2. e \in Ends(i) /\ p.kind \in Discussion
        BY <1>6, <2>1, <3>1 DEF Ends
      <3>3. item[i].version > 0
        BY <1>1, <1>2, <3>1, NoPostsYet
      <3>4. item[i].status # "resolved"
        BY <1>1, <2>3, <3>2, <3>3 DEF StatusFits
      <3>5. PICK o \in Ends(i) : o.kind = "reopened" /\ o.revision > e.revision
        BY <1>1, <1>6, <3>2, <3>3, <3>4 DEF Shape, Closing
      <3>6. /\ o.revision \in Nat /\ o.revision <= item[i].version
            /\ e.revision \in Nat /\ p.revision = item[i].version + 1
        BY <1>1, <1>2, <2>3, <3>1, <3>5 DEF Ends
      <3>7. o.revision \in e.revision + 1 .. p.revision - 1
        BY <1>2, <3>5, <3>6
      <3> QED  BY <2>1, <3>5, <3>7
    <2> QED  BY <1>1, <2>2, <2>3
  <1>7. ASSUME NEW j \in Item
        PROVE  /\ \A p \in Ends(j)' : (\A o \in Ends(j)' : o.number <= p.number) =>
                    (item'[j].status = "resolved" <=> p.kind = "resolved")
               /\ \A e \in Ends(j)', p \in posts'[j] \ Ends(j)' :
                    e.kind = "resolved" /\ e.revision < p.revision =>
                      \E o \in Ends(j)' :
                        o.kind = "reopened" /\ o.revision \in e.revision + 1 .. p.revision - 1
    <2>1. CASE j = i
      BY <1>5, <1>6, <2>1
    <2>2. CASE j # i
      <3>1. posts'[j] = posts[j] /\ item'[j] = item[j]
        BY <1>1, <2>2
      <3>2. Ends(j)' = Ends(j)
        BY <3>1 DEF Ends
      <3> QED  BY <3>1, <3>2 DEF ResolvedIsReadOnly, Ends
    <2> QED  BY <2>1, <2>2
  <1> QED  BY <1>7 DEF ResolvedIsReadOnly, Ends

\* What a caller is told has its type.
LEMMA DetailType ==
  ASSUME NEW it, NEW E, E \subseteq Post
  PROVE  Detail(it, E) \in [posts : SUBSET (Nat \X Nat \X BOOLEAN), human : BOOLEAN]
  <1>1. PICK now : now = Entries(E, it.version)
    OBVIOUS
  <1>2. now \subseteq E
    BY <1>1 DEF Entries
  <1>3. \A p \in now : p.number \in Nat /\ p.revision \in Nat
    BY <1>2 DEF Post
  <1>4. \A p : Answered(p, now) \in BOOLEAN
    BY DEF Answered
  <1>5. \A p \in now : <<p.number, p.revision, Answered(p, now)>> \in Nat \X Nat \X BOOLEAN
    BY <1>3, <1>4
  <1>6. {<<p.number, p.revision, Answered(p, now)>> : p \in now} \in SUBSET (Nat \X Nat \X BOOLEAN)
    BY <1>5
  <1>7. HumanInput(it, now) \in BOOLEAN
    BY DEF HumanInput
  <1>8. Detail(it, E) = [posts |-> {<<p.number, p.revision, Answered(p, now)>> : p \in now},
                         human |-> HumanInput(it, now)]
    BY <1>1 DEF Detail
  <1> QED  BY <1>6, <1>7, <1>8

LEMMA TypeAfter ==
  ASSUME Tables, Tables', TypeOK,
         NEW a, NEW k, NEW i, NEW seen, NEW new, NEW written, NEW published, NEW action,
         NEW stored, NEW row, NEW events, NEW made,
         Transaction(a, k, i, seen, new, written, published, action, stored, row, events, made)
  PROVE  TypeOK'
  <1>1. /\ a \in Actor /\ k \in Operation /\ i \in Item
        /\ item'[i] = stored
        /\ \A j \in Item \ {i} : item'[j] = item[j] /\ posts'[j] = posts[j]
        /\ posts'[i] = posts[i] \cup written
    BY TablesAfter
  <1>2. /\ Writes(a, k, i, written, stored, row, events, made)
        /\ stored \in ItemRow
        /\ stored.kind = new.kind /\ stored.status = new.status /\ stored.assignee = new.assignee
        /\ made = [item |-> i, at |-> stored, told |-> Detail(stored, posts[i] \cup written)]
    BY DEF Transaction, Effect
  <1>3. PostsFit(i, written) /\ StatusFits(i, new, written)
    BY DEF Transaction, Fits
  <1>4. open' \in BOOLEAN /\ joined' \in SUBSET Agent
    BY DEF Transaction, Mutation, Commit, TypeOK
  <1>5. /\ item' \in [Item -> ItemRow \cup {NoItem}]
        /\ history' \in [Item -> Seq(Row)]
        /\ log' \in Seq(Event)
        /\ \A j \in Item : Len(history'[j]) = item'[j].version
        /\ \A j \in Item : \A p \in posts'[j] : p.revision \in 1 .. item'[j].version
    BY DEF Tables
  <1>6. \A j \in Item : \A p \in posts'[j] : p.revision \in DOMAIN history'[j]
    <2>1. \A j \in Item : DOMAIN history'[j] = 1 .. item'[j].version
      BY <1>5
    <2> QED  BY <1>5, <2>1
  <1>7. posts[i] \cup written \subseteq Post
    BY <1>1, <1>3 DEF PostsFit, TypeOK
  <1>8. posts' \in [Item -> SUBSET Post]
    <2>1. posts \in [Item -> SUBSET Post]
      BY DEF TypeOK
    <2> QED  BY <1>2, <1>7, <2>1 DEF Writes
  <1>9. made \in Receipt
    BY <1>1, <1>2, <1>7, DetailType DEF Receipt
  <1>10. receipt' \in [Actor -> [Operation -> Receipt \cup {NoReceipt}]]
    <2>1. receipt \in [Actor -> [Operation -> Receipt \cup {NoReceipt}]]
      BY DEF TypeOK
    <2>2. receipt' = [receipt EXCEPT ![a] = [receipt[a] EXCEPT ![k] = made]]
      BY <1>2, <2>1 DEF Writes
    <2>3. [receipt[a] EXCEPT ![k] = made] \in [Operation -> Receipt \cup {NoReceipt}]
      BY <1>1, <1>9, <2>1
    <2> QED  BY <2>1, <2>2, <2>3
  <1>11. ASSUME NEW j \in Item, item'[j].version > 0
         PROVE  IF item'[j].kind = "task"
                  THEN item'[j].status \in TaskStatus /\ item'[j].assignee # NoOne
                  ELSE item'[j].status \notin TaskStatus /\ item'[j].assignee = NoOne
    <2>1. CASE j = i
      BY <1>1, <1>2, <1>3, <2>1 DEF StatusFits
    <2>2. CASE j # i
      BY <1>1, <1>11, <2>2 DEF TypeOK
    <2> QED  BY <2>1, <2>2
  <1> QED  BY <1>4, <1>5, <1>6, <1>8, <1>10, <1>11 DEF TypeOK

-----------------------------------------------------------------------------
(* The invariant of the board.                                             *)

LEMMA ChangeKeepsInvariant ==
  ASSUME BoardInv, IInv', Change
  PROVE  BoardInv'
  <1>1. PICK a \in Actor, k \in Operation, i \in Item :
          \E seen, new, written, published, action :
            /\ Mutation(a, k, i, seen, new, written, published, action)
            /\ Fits(i, new, written, published, action)
    BY DEF Change
  <1>2. PICK seen, new, written, published, action :
          /\ Mutation(a, k, i, seen, new, written, published, action)
          /\ Fits(i, new, written, published, action)
    BY <1>1
  <1>3. Tables /\ Tables' /\ OncePerOperation
    BY DEF BoardInv, IInv
  <1>4. PICK stored, row, events, made :
          Transaction(a, k, i, seen, new, written, published, action, stored, row, events, made)
    <2>1. PICK stored, row, events, made :
            Effect(a, k, i, seen, new, written, published, action, stored, row, events, made)
      BY <1>2, <1>3, MutationEffect
    <2> QED  BY <1>2, <2>1 DEF Transaction
  <1>5. Wrote(i, new, written)
    BY <1>4 DEF Wrote
  <1>6. /\ TypeOK /\ Shape /\ RowsNameEvents /\ PartiesSubscribe /\ ReplayIsFirstAnswer
        /\ AnswersStand /\ HumanRequestStands /\ ResolvedIsReadOnly /\ PartiesTold /\ OneEvent
    BY DEF BoardInv
  <1>7. TypeOK'
    BY <1>3, <1>4, <1>6, TypeAfter
  <1>8. Shape'
    BY <1>3, <1>5, <1>6, ShapeAfter
  <1>9. RowsNameEvents' /\ OneEvent'
    BY <1>3, <1>4, <1>6, EventsAfter
  <1>10. PartiesSubscribe' /\ PartiesTold'
    BY <1>3, <1>4, <1>6, ToldAfter
  <1>11. ReplayIsFirstAnswer'
    BY <1>3, <1>4, <1>6, ReplayAfter
  <1>12. AnswersStand' /\ HumanRequestStands' /\ ResolvedIsReadOnly'
    BY <1>3, <1>5, <1>6, AnswersAfter, HumanRequestAfter, ReadOnlyAfter
  <1> QED  BY <1>7, <1>8, <1>9, <1>10, <1>11, <1>12 DEF BoardInv

\* The room opens, closes and fills without the board.
LEMMA RoomKeepsInvariant ==
  ASSUME BoardInv, IInv', UNCHANGED <<item, posts, history, log, receipt>>,
         open' \in BOOLEAN, joined' \in SUBSET Agent
  PROVE  BoardInv'
  <1>1. /\ TypeOK /\ Shape /\ RowsNameEvents /\ PartiesSubscribe /\ ReplayIsFirstAnswer
        /\ AnswersStand /\ HumanRequestStands /\ ResolvedIsReadOnly /\ PartiesTold /\ OneEvent
    BY DEF BoardInv
  <1>2. TypeOK'
    BY <1>1 DEF TypeOK
  <1>3. \A i \in Item : /\ Now(i)' = Now(i) /\ NumbersOf(i)' = NumbersOf(i)
                        /\ Ends(i)' = Ends(i)
    BY DEF Now, NumbersOf, Ends
  <1>4. Shape'
    BY <1>1, <1>3 DEF Shape, Numbered, OnePostPerNumber, Refer, Closing
  <1>5. RowsNameEvents' /\ OneEvent'
    BY <1>1 DEF RowsNameEvents, OneEvent
  <1>6. Receipts' = Receipts /\ \A c : Of(c)' = Of(c)
    BY DEF Receipts, Of
  <1>7. \A j, n : Parties(j, n)' = Parties(j, n)
    BY <1>6 DEF Parties
  <1>8. PartiesSubscribe' /\ PartiesTold'
    BY <1>1, <1>7 DEF PartiesSubscribe, PartiesTold
  <1>9. ReplayIsFirstAnswer'
    BY <1>1, <1>6 DEF ReplayIsFirstAnswer
  <1>10. \A j, n : Settled(j, n)' = Settled(j, n)
    BY DEF Settled
  <1>11. AnswersStand'
    BY <1>1, <1>10 DEF AnswersStand
  <1>12. HumanRequestStands'
    BY <1>1 DEF HumanRequestStands
  <1>13. ResolvedIsReadOnly'
    BY <1>1 DEF ResolvedIsReadOnly
  <1> QED  BY <1>2, <1>4, <1>5, <1>8, <1>9, <1>11, <1>12, <1>13 DEF BoardInv

LEMMA InitBoardInv == Init => BoardInv
  <1> SUFFICES ASSUME Init PROVE BoardInv
    OBVIOUS
  <1>1. IInv
    BY InitInvariant
  <1>2. \A i \in Item : item[i].version = 0 /\ posts[i] = {} /\ history[i] = <<>>
    BY DEF Init, NoItem
  <1>3. log = <<>> /\ Receipts = {}
    BY DEF Init, Receipts
  <1>4. TypeOK
    <2>1. /\ open \in BOOLEAN /\ joined \in SUBSET Agent
          /\ posts \in [Item -> SUBSET Post]
          /\ receipt \in [Actor -> [Operation -> Receipt \cup {NoReceipt}]]
      BY DEF Init
    <2>2. /\ item \in [Item -> ItemRow \cup {NoItem}]
          /\ history \in [Item -> Seq(Row)]
          /\ log \in Seq(Event)
          /\ \A i \in Item : Len(history[i]) = item[i].version
      BY <1>1 DEF IInv, Tables
    <2> QED  BY <1>2, <2>1, <2>2 DEF TypeOK
  <1>5. Shape
    <2>1. \A i \in Item : NumbersOf(i) = 1 .. 0
      BY <1>2 DEF NumbersOf
    <2>2. Numbered
      BY <2>1 DEF Numbered
    <2> QED  BY <1>2, <2>2 DEF Shape, OnePostPerNumber, Refer, Closing
  <1>6. \A i \in Item : DOMAIN history[i] = {}
    BY <1>2
  <1>7. RowsNameEvents /\ PartiesTold
    BY <1>6 DEF RowsNameEvents, PartiesTold
  <1>8. OneEvent
    <2>1. DOMAIN log = {}
      BY <1>3
    <2> QED  BY <1>2, <2>1 DEF OneEvent
  <1>9. PartiesSubscribe
    BY <1>2 DEF PartiesSubscribe
  <1>10. ReplayIsFirstAnswer
    BY <1>3 DEF ReplayIsFirstAnswer
  <1>11. AnswersStand /\ HumanRequestStands
    <2>1. 2 .. 0 = {}
      OBVIOUS
    <2> QED  BY <1>2, <2>1 DEF AnswersStand, HumanRequestStands
  <1>12. ResolvedIsReadOnly
    BY <1>2 DEF ResolvedIsReadOnly
  <1> QED  BY <1>1, <1>4, <1>5, <1>7, <1>8, <1>9, <1>10, <1>11, <1>12 DEF BoardInv

LEMMA NextBoardInv == BoardInv /\ [Next]_vars => BoardInv'
  <1> SUFFICES ASSUME BoardInv, [Next]_vars PROVE BoardInv'
    OBVIOUS
  <1>1. Tables /\ TypeOK /\ Shape /\ IInv
    BY DEF BoardInv, IInv
  <1>2. IInv'
    BY <1>1, NextInvariant
  <1>3. Change \/ (UNCHANGED <<item, posts, history, log, receipt>>
                     /\ open' \in BOOLEAN /\ joined' \in SUBSET Agent)
    BY <1>1, NextChanges
  <1> QED  BY <1>2, <1>3, ChangeKeepsInvariant, RoomKeepsInvariant

\* The inductive invariant of the board: the shape of its posts, the events that
\* its revisions name, and who is subscribed to it.
THEOREM BoardInvariance == Spec => []BoardInv
  BY InitBoardInv, NextBoardInv, PTL DEF Spec

\* The tables of the board stay well formed, with a history row for every
\* revision (board.go:684-822).
THEOREM BoardTypeCorrect == Spec => []TypeOK
  <1>1. BoardInv => TypeOK
    BY DEF BoardInv
  <1> QED  BY <1>1, BoardInvariance, PTL

\* A retry is told what the first call was told, however the item has changed
\* since (board.go:426-455, 796-815).
THEOREM RepliesRepeat == Spec => []ReplayIsFirstAnswer
  <1>1. BoardInv => ReplayIsFirstAnswer
    BY DEF BoardInv
  <1> QED  BY <1>1, BoardInvariance, PTL

\* No question is rewritten under its answers, and none is unanswered again
\* (board_entries.go:347-371, 387-405).
THEOREM AnsweredQuestionsStand == Spec => []AnswersStand
  <1>1. BoardInv => AnswersStand
    BY DEF BoardInv
  <1> QED  BY <1>1, BoardInvariance, PTL

\* Only a human's answer or an edit of the question ends a request for human
\* input (board_entries.go:52-62, 78-118).
THEOREM HumansSettleRequests == Spec => []HumanRequestStands
  <1>1. BoardInv => HumanRequestStands
    BY DEF BoardInv
  <1> QED  BY <1>1, BoardInvariance, PTL

\* A thread reads as its last status post says, and nothing is posted while it
\* is resolved (board.go:483, 655-665).
THEOREM ResolvedThreadsStand == Spec => []ResolvedIsReadOnly
  <1>1. BoardInv => ResolvedIsReadOnly
    BY DEF BoardInv
  <1> QED  BY <1>1, BoardInvariance, PTL

\* Every revision tells all agents that had taken part, except its author
\* (board_notifications.go:10-83, board.go:776-795).
THEOREM EveryPartyIsTold == Spec => []PartiesTold
  <1>1. BoardInv => PartiesTold
    BY DEF BoardInv
  <1> QED  BY <1>1, BoardInvariance, PTL

\* Every event of the board belongs to one revision, and every answer has its
\* event (board.go:765-775, board_notifications.go:31-56).
THEOREM EventsAreOfRevisions == Spec => []OneEvent
  <1>1. BoardInv => OneEvent
    BY DEF BoardInv
  <1> QED  BY <1>1, BoardInvariance, PTL
=============================================================================
