----------------------------- MODULE BoardProofs -----------------------------
(***************************************************************************)
(* Proofs about Board: every step that changes an item is one transaction  *)
(* of the shape that Valid describes, and such transactions keep           *)
(* OncePerOperation and NoLostUpdate.                                      *)
(***************************************************************************)
EXTENDS Board, TLAPS

IsPost(p) ==
  p = [number |-> p.number, revision |-> p.revision, kind |-> p.kind, by |-> p.by,
       asks |-> p.asks, to |-> p.to, text |-> p.text]

\* The tables have the form that they should: a history row for every revision,
\* and no post from a revision that has not been.
Tables ==
  /\ item \in [Item -> ItemRow \cup {NoItem}]
  /\ history \in [Item -> Seq(Row)]
  /\ log \in Seq(Event)
  /\ posts = [i \in Item |-> posts[i]]
  /\ receipt = [a \in Actor |-> [k \in Operation |-> receipt[a][k]]]
  /\ \A i \in Item : Len(history[i]) = item[i].version
  /\ \A i \in Item : \A p \in posts[i] : IsPost(p) /\ p.revision \in 1 .. item[i].version

\* Who names a revision names the one that is replaced.
SeenIsReplaced ==
  \A i \in Item : \A n \in DOMAIN history[i] : history[i][n].seen \in {0, n - 1}

ClosedKnowingly ==
  \A i \in Item : \A p \in posts[i] :
    p.kind = "resolved" => history[i][p.revision].seen = p.revision - 1

IInv == Tables /\ OncePerOperation /\ SeenIsReplaced /\ ClosedKnowingly

\* A transaction as the operations make it.
Valid(a, k, i, seen, new, written) ==
  /\ a \in Actor /\ k \in Operation /\ i \in Item
  /\ receipt[a][k] = NoReceipt
  /\ new \in ItemRow /\ new.version = item[i].version
  /\ seen \in Nat /\ seen \in {0, item[i].version}
  /\ \A p \in written : /\ IsPost(p) /\ p.revision = item[i].version + 1
                        /\ p.kind = "resolved" => seen = item[i].version

Mutation(a, k, i, seen, new, written, published, action) ==
  /\ Valid(a, k, i, seen, new, written)
  /\ published \in BOOLEAN /\ action \in Action
  /\ Commit(a, k, i, seen, new, written, published, action)

-----------------------------------------------------------------------------
(* Each operation is such a transaction.                                   *)

LEMMA CreateIsMutation ==
  ASSUME Tables, NEW a \in Actor, NEW k \in Operation, NEW i \in Item,
         NEW w \in Actor, NEW s \in TaskStatus, Create(a, k, i, w, s)
  PROVE  Mutation(a, k, i, 0, NewItem(a, "task", w, s), {}, FALSE, "create")
<1>1. NewItem(a, "task", w, s) \in ItemRow
  BY DEF NewItem, ItemRow, TaskStatus, Status
<1>2. NewItem(a, "task", w, s).version = 0 /\ item[i].version = 0 /\ receipt[a][k] = NoReceipt
  BY DEF NewItem, Create, Free, Fresh
<1>a. Valid(a, k, i, 0, NewItem(a, "task", w, s), {})
  BY <1>1, <1>2 DEF Valid
<1>b. "create" \in Action
  BY DEF Action
<1>c. Commit(a, k, i, 0, NewItem(a, "task", w, s), {}, FALSE, "create")
  BY DEF Create
<1> QED
  BY <1>a, <1>b, <1>c DEF Mutation

LEMMA StartIsMutation ==
  ASSUME Tables, NEW a \in Actor, NEW k \in Operation, NEW i \in Item,
         NEW s \in {"open", "resolved"}, Start(a, k, i, s)
  PROVE  Mutation(a, k, i, 0, NewItem(a, "question", NoOne, s),
                  {FirstPost(a, "message", FALSE)}, TRUE, "start")
<1>1. NewItem(a, "question", NoOne, s) \in ItemRow
  BY DEF NewItem, ItemRow, Status
<1>2. /\ NewItem(a, "question", NoOne, s).version = 0
      /\ item[i].version = 0
      /\ receipt[a][k] = NoReceipt
  BY DEF NewItem, Start, Free, Fresh
<1>3. PICK p : p = FirstPost(a, "message", FALSE)
  OBVIOUS
<1>4. IsPost(p) /\ p.revision = 1 /\ p.kind # "resolved"
  BY <1>3 DEF FirstPost, IsPost
<1>5. {FirstPost(a, "message", FALSE)} = {p}
  BY <1>3, Zenon
<1>6. Valid(a, k, i, 0, NewItem(a, "question", NoOne, s), {p})
  BY <1>1, <1>2, <1>4 DEF Valid
<1>a. Valid(a, k, i, 0, NewItem(a, "question", NoOne, s), {FirstPost(a, "message", FALSE)})
  BY <1>5, <1>6
<1>b. "start" \in Action
  BY DEF Action
<1>c. Commit(a, k, i, 0, NewItem(a, "question", NoOne, s), {FirstPost(a, "message", FALSE)}, TRUE, "start")
  BY DEF Start
<1> QED
  BY <1>a, <1>b, <1>c DEF Mutation

LEMMA RaiseIsMutation ==
  ASSUME Tables, NEW a \in Actor, NEW k \in Operation, NEW i \in Item,
         NEW s \in {"open", "resolved"}, NEW h \in BOOLEAN, Raise(a, k, i, s, h)
  PROVE  Mutation(a, k, i, 0, NewItem(a, "question", NoOne, s),
                  {FirstPost(a, "question", h /\ s # "resolved")}, TRUE, "ask")
<1>1. NewItem(a, "question", NoOne, s) \in ItemRow
  BY DEF NewItem, ItemRow, Status
<1>2. /\ NewItem(a, "question", NoOne, s).version = 0
      /\ item[i].version = 0
      /\ receipt[a][k] = NoReceipt
  BY DEF NewItem, Raise, Free, Fresh
<1>3. PICK p : p = FirstPost(a, "question", h /\ s # "resolved")
  OBVIOUS
<1>4. IsPost(p) /\ p.revision = 1 /\ p.kind # "resolved"
  BY <1>3 DEF FirstPost, IsPost
<1>a. Valid(a, k, i, 0, NewItem(a, "question", NoOne, s), {FirstPost(a, "question", h /\ s # "resolved")})
  BY <1>1, <1>2, <1>3, <1>4 DEF Valid
<1>b. "ask" \in Action
  BY DEF Action
<1>c. Commit(a, k, i, 0, NewItem(a, "question", NoOne, s), {FirstPost(a, "question", h /\ s # "resolved")}, TRUE, "ask")
  BY DEF Raise
<1> QED
  BY <1>a, <1>b, <1>c DEF Mutation

\* An item that there is has a whole row.
LEMMA ItemIsRow ==
  ASSUME Tables, NEW i \in Item, item[i].version > 0
  PROVE  item[i] \in ItemRow /\ item[i].version \in Nat
<1>1. item[i] \in ItemRow \cup {NoItem}
  BY DEF Tables
<1>2. NoItem.version = 0
  BY DEF NoItem
<1>3. item[i] \in ItemRow
  BY <1>1, <1>2
<1> QED
  BY <1>3 DEF ItemRow

LEMMA NewPostFits ==
  ASSUME NEW a, NEW i, NEW kind, NEW asks, NEW to
  PROVE  LET p == NewPost(a, i, kind, asks, to)
         IN  IsPost(p) /\ p.revision = item[i].version + 1 /\ p.kind = kind /\ p.number = NextNumber(Now(i))
  BY DEF NewPost, IsPost, Bump

LEMMA EditedFits ==
  ASSUME Tables, NEW i \in Item, NEW p \in posts[i], NEW edit
  PROVE  /\ IsPost(Edited(p, i, edit))
         /\ Edited(p, i, edit).revision = item[i].version + 1
         /\ Edited(p, i, edit).kind = p.kind
<1> DEFINE q == Edited(p, i, edit)
<1>1. IsPost(p)
  BY DEF Tables
<1>2. DOMAIN p = {"number", "revision", "kind", "by", "asks", "to", "text"}
  BY <1>1 DEF IsPost
<1>3. PICK asks, text :
        q = [p EXCEPT !.revision = Bump(item[i]), !.asks = asks, !.text = text]
  BY DEF Edited
<1>4. /\ DOMAIN q = DOMAIN p
      /\ q.revision = Bump(item[i]) /\ q.kind = p.kind
      /\ q.asks = asks /\ q.text = text
      /\ q.number = p.number /\ q.by = p.by /\ q.to = p.to
  BY <1>2, <1>3
<1>5. q = [p EXCEPT !.revision = Bump(item[i]), !.asks = asks, !.text = text]
  BY <1>3
<1>6. q = [number |-> q.number, revision |-> q.revision, kind |-> q.kind, by |-> q.by,
           asks |-> q.asks, to |-> q.to, text |-> q.text]
  BY <1>2, <1>4, <1>5
<1> QED
  BY <1>4, <1>6 DEF IsPost, Bump

LEMMA UpdateTaskIsMutation ==
  ASSUME Tables, NEW a \in Actor, NEW k \in Operation, NEW i \in Item, NEW v \in Nat,
         NEW w \in Actor, NEW s \in TaskStatus, UpdateTask(a, k, i, v, w, s)
  PROVE  Mutation(a, k, i, v, [item[i] EXCEPT !.assignee = w, !.status = s], {}, FALSE, "update")
<1>1. /\ receipt[a][k] = NoReceipt
      /\ item[i].version > 0
      /\ v = item[i].version
  BY DEF UpdateTask, Fresh, IsTask, Expected
<1>2. item[i] \in ItemRow
  BY <1>1, ItemIsRow
<1>3. [item[i] EXCEPT !.assignee = w, !.status = s] \in ItemRow
  BY <1>2 DEF ItemRow, TaskStatus, Status
<1>4. [item[i] EXCEPT !.assignee = w, !.status = s].version = item[i].version
  BY <1>2 DEF ItemRow
<1>a. Valid(a, k, i, v, [item[i] EXCEPT !.assignee = w, !.status = s], {})
  BY <1>1, <1>2, <1>3, <1>4 DEF Valid
<1>b. "update" \in Action
  BY DEF Action
<1>c. Commit(a, k, i, v, [item[i] EXCEPT !.assignee = w, !.status = s], {}, FALSE, "update")
  BY DEF UpdateTask
<1> QED
  BY <1>a, <1>b, <1>c DEF Mutation

LEMMA SetArchivedIsMutation ==
  ASSUME Tables, NEW a \in Actor, NEW k \in Operation, NEW i \in Item, NEW v \in Nat,
         NEW b \in BOOLEAN, SetArchived(a, k, i, v, b)
  PROVE  Mutation(a, k, i, v, [item[i] EXCEPT !.archived = b], {}, FALSE,
                  IF b THEN "archive" ELSE "restore")
<1>1. /\ receipt[a][k] = NoReceipt
      /\ item[i].version > 0
      /\ v = item[i].version
  BY DEF SetArchived, Fresh, IsTask, Expected
<1>2. item[i] \in ItemRow
  BY <1>1, ItemIsRow
<1>3. [item[i] EXCEPT !.archived = b] \in ItemRow
  BY <1>2 DEF ItemRow
<1>4. [item[i] EXCEPT !.archived = b].version = item[i].version
  BY <1>2 DEF ItemRow
<1>a. Valid(a, k, i, v, [item[i] EXCEPT !.archived = b], {})
  BY <1>1, <1>2, <1>3, <1>4 DEF Valid
<1>b. (IF b THEN "archive" ELSE "restore") \in Action
  BY DEF Action
<1>c. Commit(a, k, i, v, [item[i] EXCEPT !.archived = b], {}, FALSE, IF b THEN "archive" ELSE "restore")
  BY DEF SetArchived
<1> QED
  BY <1>a, <1>b, <1>c DEF Mutation

\* Resolve, Reopen and the update that resolves.
LEMMA SetStatusIsMutation ==
  ASSUME Tables, NEW a \in Actor, NEW k \in Operation, NEW i \in Item, NEW v \in Nat,
         NEW s \in {"open", "resolved"}, NEW action \in Action,
         Fresh(a, k), IsThread(i), Expected(i, v, FALSE), SetStatus(a, k, i, v, s, action)
  PROVE  Mutation(a, k, i, v, [item[i] EXCEPT !.status = s], {StatusPost(a, i, s)}, TRUE, action)
<1>1. /\ receipt[a][k] = NoReceipt
      /\ item[i].version > 0
      /\ v = item[i].version
  BY DEF Fresh, IsThread, Expected
<1>2. item[i] \in ItemRow
  BY <1>1, ItemIsRow
<1>3. [item[i] EXCEPT !.status = s] \in ItemRow
  BY <1>2 DEF ItemRow, Status
<1>4. [item[i] EXCEPT !.status = s].version = item[i].version
  BY <1>2 DEF ItemRow
<1>5. IsPost(StatusPost(a, i, s)) /\ StatusPost(a, i, s).revision = item[i].version + 1
  BY DEF StatusPost, NewPost, IsPost, Bump
<1>a. Valid(a, k, i, v, [item[i] EXCEPT !.status = s], {StatusPost(a, i, s)})
  BY <1>1, <1>2, <1>3, <1>4, <1>5 DEF Valid
<1>b. action \in Action
  BY DEF Action
<1>c. Commit(a, k, i, v, [item[i] EXCEPT !.status = s], {StatusPost(a, i, s)}, TRUE, action)
  BY DEF SetStatus
<1> QED
  BY <1>a, <1>b, <1>c DEF Mutation

\* A change that leaves the row of the item as it is and resolves nothing.
LEMMA ChangeIsValid ==
  ASSUME Tables, NEW a \in Actor, NEW k \in Operation, NEW i \in Item, NEW v \in Nat,
         NEW appends \in BOOLEAN, NEW written,
         Fresh(a, k), item[i].version > 0, Expected(i, v, appends),
         \A p \in written : IsPost(p) /\ p.revision = item[i].version + 1 /\ p.kind # "resolved"
  PROVE  Valid(a, k, i, v, item[i], written)
<1>1. item[i] \in ItemRow
  BY ItemIsRow
<1>2. v \in {0, item[i].version}
  BY DEF Expected
<1>3. receipt[a][k] = NoReceipt
  BY DEF Fresh
<1> QED
  BY <1>1, <1>2, <1>3 DEF Valid

LEMMA UpdateWritesFits ==
  ASSUME Tables, NEW a \in Actor, NEW i \in Item, NEW edit,
         NEW p \in UpdateWrites(a, i, edit)
  PROVE  IsPost(p) /\ p.revision = item[i].version + 1 /\ p.kind # "resolved"
<1>1. \A q \in Unanswered(Now(i)) : q \in posts[i] /\ q.kind = "question"
  BY DEF Unanswered, Now, Entries
<1>2. CASE \E q \in Unanswered(Now(i)) : p = Edited(q, i, edit)
  BY <1>1, <1>2, EditedFits
<1>3. CASE p = NewPost(a, i, "question", "human" \in edit, 0)
  BY <1>3 DEF NewPost, IsPost, Bump
<1> QED
  BY <1>2, <1>3 DEF UpdateWrites

LEMMA UpdateThreadIsMutation ==
  ASSUME Tables, NEW a \in Actor, NEW k \in Operation, NEW i \in Item, NEW v \in Nat,
         NEW edit, UpdateThread(a, k, i, v, edit)
  PROVE  Mutation(a, k, i, v, item[i], UpdateWrites(a, i, edit),
                  "human" \in edit /\ ~ HumanInput(item[i], Now(i)), "update")
<1>1. Fresh(a, k) /\ item[i].version > 0 /\ Expected(i, v, FALSE)
  BY DEF UpdateThread, IsThread
<1>2. Valid(a, k, i, v, item[i], UpdateWrites(a, i, edit))
  BY <1>1, UpdateWritesFits, ChangeIsValid
<1>3. "update" \in Action
  BY DEF Action
<1>4. Commit(a, k, i, v, item[i], UpdateWrites(a, i, edit),
             "human" \in edit /\ ~ HumanInput(item[i], Now(i)), "update")
  BY DEF UpdateThread
<1> QED
  BY <1>2, <1>3, <1>4 DEF Mutation

\* Reply and AskPost, and an answer that does not resolve.
LEMMA AppendIsMutation ==
  ASSUME Tables, NEW a \in Actor, NEW k \in Operation, NEW i \in Item, NEW v \in Nat,
         NEW post, NEW action \in Action, Fresh(a, k), Changeable(i), Expected(i, v, TRUE),
         IsPost(post), post.revision = item[i].version + 1, post.kind # "resolved",
         Commit(a, k, i, v, item[i], {post}, TRUE, action)
  PROVE  Mutation(a, k, i, v, item[i], {post}, TRUE, action)
<1>1. Valid(a, k, i, v, item[i], {post})
  BY ChangeIsValid DEF Changeable
<1> QED
  BY <1>1 DEF Mutation

LEMMA EditPostIsMutation ==
  ASSUME Tables, NEW a \in Actor, NEW k \in Operation, NEW i \in Item, NEW v \in Nat,
         NEW n, NEW edit, EditPost(a, k, i, v, n, edit)
  PROVE  \E q, post :
           /\ q \in Now(i)
           /\ Editable(q, Now(i))
           /\ post = Edited(q, i, {"notes"} \cup edit)
           /\ Mutation(a, k, i, v, item[i], {post}, TRUE, "edit-post")
<1>1. PICK p \in Now(i) :
        /\ Editable(p, Now(i))
        /\ Commit(a, k, i, v, item[i], {Edited(p, i, {"notes"} \cup edit)}, TRUE, "edit-post")
  BY DEF EditPost
<1>2. PICK post : post = Edited(p, i, {"notes"} \cup edit)
  OBVIOUS
<1>3. p \in posts[i] /\ p.kind = "question"
  BY <1>1 DEF Now, Entries, Editable
<1>4. IsPost(post) /\ post.revision = item[i].version + 1 /\ post.kind # "resolved"
  BY <1>2, <1>3, EditedFits
<1>5. Valid(a, k, i, v, item[i], {post})
  BY <1>4, ChangeIsValid DEF EditPost, Changeable
<1>6. Commit(a, k, i, v, item[i], {post}, TRUE, "edit-post")
  BY <1>1, <1>2
<1>7. "edit-post" \in Action
  BY DEF Action
<1>8. Mutation(a, k, i, v, item[i], {post}, TRUE, "edit-post")
  BY <1>5, <1>6, <1>7 DEF Mutation
<1> QED
  BY <1>1, <1>2, <1>8

\* What an answer for question n, or for none, writes.
AnswerWrites(a, i, n, resolve, new, written) ==
  \E post, end :
    /\ post = NewPost(a, i, IF n = 0 THEN "message" ELSE "answer", FALSE, n)
    /\ end = [post EXCEPT !.number = @ + 1, !.kind = "resolved", !.to = 0]
    /\ resolve => new = [item[i] EXCEPT !.status = "resolved"] /\ written = {post, end}
    /\ ~ resolve => new = item[i] /\ written = {post}

LEMMA AnswerIsMutation ==
  ASSUME Tables, NEW a \in Actor, NEW k \in Operation, NEW i \in Item, NEW v \in Nat,
         NEW to, NEW resolve \in BOOLEAN, Answer(a, k, i, v, to, resolve)
  PROVE  \E n \in Targets(i, to) : \E new, written :
           /\ AnswerWrites(a, i, n, resolve, new, written)
           /\ Mutation(a, k, i, v, new, written, TRUE, "answer")
<1>1. PICK n \in Targets(i, to) :
        LET post == NewPost(a, i, IF n = 0 THEN "message" ELSE "answer", FALSE, n)
            end == [post EXCEPT !.number = @ + 1, !.kind = "resolved", !.to = 0]
        IN  IF resolve
              THEN Commit(a, k, i, v, [item[i] EXCEPT !.status = "resolved"],
                          {post, end}, TRUE, "answer")
              ELSE Commit(a, k, i, v, item[i], {post}, TRUE, "answer")
  BY DEF Answer
<1>2. PICK post : post = NewPost(a, i, IF n = 0 THEN "message" ELSE "answer", FALSE, n)
  OBVIOUS
<1>3. PICK end : end = [post EXCEPT !.number = @ + 1, !.kind = "resolved", !.to = 0]
  OBVIOUS
<1>4. IF resolve
        THEN Commit(a, k, i, v, [item[i] EXCEPT !.status = "resolved"], {post, end}, TRUE, "answer")
        ELSE Commit(a, k, i, v, item[i], {post}, TRUE, "answer")
  BY <1>1, <1>2, <1>3
<1>5. IsPost(post) /\ post.revision = item[i].version + 1 /\ post.kind # "resolved"
  BY <1>2 DEF NewPost, IsPost, Bump
<1>6. IsPost(end) /\ end.revision = item[i].version + 1
  BY <1>2, <1>3 DEF NewPost, IsPost, Bump
<1>7. "answer" \in Action
  BY DEF Action
<1>8. CASE ~ resolve
  <2>1. Mutation(a, k, i, v, item[i], {post}, TRUE, "answer")
    BY <1>4, <1>5, <1>7, <1>8, AppendIsMutation DEF Answer
  <2>2. AnswerWrites(a, i, n, resolve, item[i], {post})
    BY <1>2, <1>3, <1>8 DEF AnswerWrites
  <2> QED
    BY <2>1, <2>2
<1>9. CASE resolve
  <2>1. PICK new : new = [item[i] EXCEPT !.status = "resolved"]
    OBVIOUS
  <2>2. item[i] \in ItemRow /\ v = item[i].version /\ receipt[a][k] = NoReceipt
    BY <1>9, ItemIsRow DEF Answer, Changeable, Expected, Fresh
  <2>3. new \in ItemRow /\ new.version = item[i].version
    BY <2>1, <2>2 DEF ItemRow, Status
  <2>4. Valid(a, k, i, v, new, {post, end})
    BY <1>5, <1>6, <2>2, <2>3 DEF Valid
  <2>5. Commit(a, k, i, v, new, {post, end}, TRUE, "answer")
    BY <1>4, <1>9, <2>1
  <2>6. Mutation(a, k, i, v, new, {post, end}, TRUE, "answer")
    BY <1>7, <2>4, <2>5 DEF Mutation
  <2>7. AnswerWrites(a, i, n, resolve, new, {post, end})
    BY <1>2, <1>3, <1>9, <2>1 DEF AnswerWrites
  <2> QED
    BY <2>6, <2>7
<1> QED
  BY <1>8, <1>9

-----------------------------------------------------------------------------
(* What a transaction writes.                                              *)

Writes(a, k, i, written, stored, row, events, made) ==
  /\ item' = [item EXCEPT ![i] = stored]
  /\ posts' = [posts EXCEPT ![i] = posts[i] \cup written]
  /\ history' = [history EXCEPT ![i] = Append(history[i], row)]
  /\ log' = log \o events
  /\ receipt' = [receipt EXCEPT ![a][k] = made]

\* The row, the history row, the events and the receipt that a mutation leaves.
Effect(a, k, i, seen, new, written, published, action, stored, row, events, made) ==
  /\ Writes(a, k, i, written, stored, row, events, made)
  /\ stored \in ItemRow /\ stored.version = item[i].version + 1
  /\ stored.subscribers = Subscribers(a, new, written)
  /\ stored.kind = new.kind /\ stored.status = new.status
  /\ stored.creator = new.creator /\ stored.assignee = new.assignee
  /\ row \in Row
  /\ row = [by |-> a, action |-> action, seen |-> seen,
            event |-> IF events = <<>> THEN 0 ELSE Len(log) + 1]
  /\ events \in Seq(Event)
  /\ events = IF published \/ stored.subscribers \ {a} # {}
                THEN <<[by |-> a, for |-> stored.subscribers \ {a}]>> ELSE <<>>
  /\ made = [item |-> i, at |-> stored, told |-> Detail(stored, posts[i] \cup written)]

LEMMA MutationEffect ==
  ASSUME Tables, NEW a, NEW k, NEW i, NEW seen, NEW new, NEW written,
         NEW published, NEW action, Mutation(a, k, i, seen, new, written, published, action)
  PROVE  \E stored, row, events, made :
           Effect(a, k, i, seen, new, written, published, action, stored, row, events, made)
<1>1. PICK subscribers : subscribers = Subscribers(a, new, written)
  OBVIOUS
<1>2. PICK events : events = Events(a, subscribers \ {a}, published)
  OBVIOUS
<1>3. PICK stored : stored = [new EXCEPT !.version = Bump(new), !.subscribers = subscribers]
  OBVIOUS
<1>4. PICK row : row = [by |-> a, action |-> action, seen |-> seen,
                        event |-> IF events = <<>> THEN 0 ELSE Len(log) + Len(events)]
  OBVIOUS
<1>5. PICK made : made = [item |-> i, at |-> stored, told |-> Detail(stored, posts[i] \cup written)]
  OBVIOUS
<1>6. Writes(a, k, i, written, stored, row, events, made)
  BY <1>1, <1>2, <1>3, <1>4, <1>5 DEF Mutation, Commit, Writes
<1>7. /\ a \in Actor /\ new \in ItemRow /\ seen \in Nat /\ action \in Action
      /\ new.version = item[i].version
  BY DEF Mutation, Valid
<1>8. subscribers \in SUBSET Agent
  BY <1>1, <1>7 DEF Subscribers, ItemRow
<1>9. events \in Seq(Event) /\ (events # <<>> => Len(events) = 1)
  <2>1. PICK event : event = [by |-> a, for |-> subscribers \ {a}]
    OBVIOUS
  <2>2. event \in Event
    BY <1>7, <1>8, <2>1 DEF Event
  <2>3. events = <<event>> \/ events = <<>>
    BY <1>2, <2>1 DEF Events
  <2>4. <<event>> \in Seq(Event) /\ <<>> \in Seq(Event) /\ Len(<<event>>) = 1
    BY <2>2
  <2> QED
    BY <2>3, <2>4
<1>10. /\ stored \in ItemRow /\ stored.version = item[i].version + 1
       /\ stored.subscribers = subscribers
       /\ stored.kind = new.kind /\ stored.status = new.status
       /\ stored.creator = new.creator /\ stored.assignee = new.assignee
  <2>1. PICK n : n = Bump(new)
    OBVIOUS
  <2>2. n \in Nat /\ n = item[i].version + 1
    BY <1>7, <2>1 DEF ItemRow, Bump
  <2>3. stored = [new EXCEPT !.version = n, !.subscribers = subscribers]
    BY <1>3, <2>1
  <2>4. stored \in ItemRow
    BY <1>7, <1>8, <2>2, <2>3 DEF ItemRow
  <2>5. stored.version = n /\ stored.subscribers = subscribers
    BY <1>7, <2>3 DEF ItemRow
  <2>6. /\ stored.kind = new.kind /\ stored.status = new.status
        /\ stored.creator = new.creator /\ stored.assignee = new.assignee
    BY <1>7, <2>3 DEF ItemRow
  <2> QED
    BY <2>2, <2>4, <2>5, <2>6
<1>11. /\ row \in Row
       /\ row = [by |-> a, action |-> action, seen |-> seen,
                 event |-> IF events = <<>> THEN 0 ELSE Len(log) + 1]
  <2>1. Len(log) \in Nat
    BY DEF Tables
  <2>2. PICK event : event = IF events = <<>> THEN 0 ELSE Len(log) + 1
    OBVIOUS
  <2>3. event \in Nat
    BY <2>1, <2>2
  <2>4. event = IF events = <<>> THEN 0 ELSE Len(log) + Len(events)
    BY <1>9, <2>2
  <2>5. row = [by |-> a, action |-> action, seen |-> seen, event |-> event]
    BY <1>4, <2>4
  <2> QED
    BY <1>7, <2>2, <2>3, <2>5 DEF Row
<1>12. events = IF published \/ subscribers \ {a} # {}
                  THEN <<[by |-> a, for |-> subscribers \ {a}]>> ELSE <<>>
  BY <1>2 DEF Events
<1>13. Effect(a, k, i, seen, new, written, published, action, stored, row, events, made)
  BY <1>1, <1>5, <1>6, <1>9, <1>10, <1>11, <1>12 DEF Effect
<1> QED
  BY <1>13

\* The next tables, for a transaction whose writes are known.
LEMMA WritesKeepTables ==
  ASSUME Tables, NEW a \in Actor, NEW k \in Operation, NEW i \in Item, NEW seen, NEW new,
         NEW written, Valid(a, k, i, seen, new, written),
         NEW stored \in ItemRow, NEW row \in Row, NEW events \in Seq(Event), NEW made,
         stored.version = item[i].version + 1,
         Writes(a, k, i, written, stored, row, events, made)
  PROVE  /\ Tables'
         /\ item[i].version \in Nat
         /\ \A j \in Item \ {i} : item'[j] = item[j] /\ history'[j] = history[j] /\ posts'[j] = posts[j]
         /\ item'[i] = stored
         /\ posts'[i] = posts[i] \cup written
         /\ history'[i] = Append(history[i], row)
<1>1. /\ item \in [Item -> ItemRow \cup {NoItem}]
      /\ history \in [Item -> Seq(Row)]
      /\ log \in Seq(Event)
      /\ posts = [j \in Item |-> posts[j]]
      /\ receipt = [b \in Actor |-> [l \in Operation |-> receipt[b][l]]]
      /\ \A j \in Item : Len(history[j]) = item[j].version
      /\ \A j \in Item : \A p \in posts[j] : IsPost(p) /\ p.revision \in 1 .. item[j].version
  BY DEF Tables
<1>2. item[i].version \in Nat
  BY <1>1
<1>3. /\ item'[i] = stored
      /\ posts'[i] = posts[i] \cup written
      /\ history'[i] = Append(history[i], row)
  BY <1>1 DEF Writes
<1>4. \A j \in Item \ {i} :
        item'[j] = item[j] /\ history'[j] = history[j] /\ posts'[j] = posts[j]
  BY <1>1 DEF Writes
<1>5. item' \in [Item -> ItemRow \cup {NoItem}] /\ history' \in [Item -> Seq(Row)]
  BY <1>1 DEF Writes
<1>6. log' \in Seq(Event)
  BY <1>1 DEF Writes
<1>7. posts' = [j \in Item |-> posts'[j]]
  <2>1. posts' = [posts EXCEPT ![i] = posts[i] \cup written] /\ DOMAIN posts = Item
    BY <1>1 DEF Writes
  <2>2. PICK f : f = posts'
    OBVIOUS
  <2>3. f = [j \in Item |-> f[j]]
    BY <2>1, <2>2
  <2> QED
    BY <2>2, <2>3
<1>8. receipt' = [b \in Actor |-> [l \in Operation |-> receipt'[b][l]]]
  <2>1. receipt' = [receipt EXCEPT ![a] = [receipt[a] EXCEPT ![k] = made]]
    BY <1>1 DEF Writes
  <2>2. DOMAIN receipt = Actor /\ \A b \in Actor : receipt[b] = [l \in Operation |-> receipt[b][l]]
    BY <1>1
  <2>3. PICK f : f = receipt'
    OBVIOUS
  <2>4. f = [b \in Actor |-> [l \in Operation |-> f[b][l]]]
    <3>1. DOMAIN f = Actor
      BY <2>1, <2>2, <2>3
    <3>2. ASSUME NEW b \in Actor PROVE f[b] = [l \in Operation |-> f[b][l]]
      BY <2>1, <2>2, <2>3
    <3> QED
      <4>1. f = [b \in Actor |-> f[b]]
        BY <2>1, <2>2, <2>3
      <4>2. [b \in Actor |-> f[b]] = [b \in Actor |-> [l \in Operation |-> f[b][l]]]
        BY <3>2
      <4> QED
        BY <4>1, <4>2
  <2> QED
    BY <2>3, <2>4
<1>9. ASSUME NEW j \in Item PROVE Len(history'[j]) = item'[j].version
  <2>1. CASE j = i
    BY <1>1, <1>2, <1>3, <2>1
  <2>2. CASE j # i
    BY <1>1, <1>4, <2>2
  <2> QED
    BY <2>1, <2>2
<1>10. ASSUME NEW j \in Item, NEW p \in posts'[j]
       PROVE  IsPost(p) /\ p.revision \in 1 .. item'[j].version
  <2>1. CASE j = i /\ p \in written
    BY <1>2, <1>3, <2>1 DEF Valid
  <2>2. CASE j = i /\ p \in posts[i]
    BY <1>1, <1>2, <1>3, <2>2
  <2>3. CASE j # i
    BY <1>1, <1>4, <2>3
  <2> QED
    BY <1>3, <2>1, <2>2, <2>3
<1>11. Tables'
  BY <1>5, <1>6, <1>7, <1>8, <1>9, <1>10 DEF Tables, IsPost
<1> QED
  BY <1>2, <1>3, <1>4, <1>11

-----------------------------------------------------------------------------
(* The invariant.                                                          *)

LEMMA WritesKeepSeen ==
  ASSUME Tables, SeenIsReplaced, NEW a \in Actor, NEW k \in Operation, NEW i \in Item, NEW seen,
         NEW new, NEW written, Valid(a, k, i, seen, new, written),
         NEW stored \in ItemRow, NEW row \in Row, NEW events \in Seq(Event), NEW made,
         stored.version = item[i].version + 1, row.seen = seen,
         Writes(a, k, i, written, stored, row, events, made)
  PROVE  SeenIsReplaced'
<1> SUFFICES ASSUME NEW j \in Item, NEW n \in DOMAIN history'[j]
             PROVE  history'[j][n].seen \in {0, n - 1}
  BY DEF SeenIsReplaced
<1>1. /\ \A l \in Item \ {i} : history'[l] = history[l]
      /\ history'[i] = Append(history[i], row)
      /\ item[i].version \in Nat
  BY WritesKeepTables
<1>2. history[i] \in Seq(Row) /\ Len(history[i]) = item[i].version
  BY DEF Tables
<1>3. CASE j # i
  BY <1>1, <1>3 DEF SeenIsReplaced
<1>4. CASE j = i /\ n \in DOMAIN history[i]
  <2>1. n \in 1 .. Len(history[i])
    BY <1>2, <1>4
  <2>2. history'[i][n] = history[i][n]
    BY <1>1, <1>2, <2>1
  <2> QED
    BY <1>4, <2>2 DEF SeenIsReplaced
<1>5. CASE j = i /\ n = item[i].version + 1
  <2>1. history'[j][n] = row
    BY <1>1, <1>2, <1>5
  <2>2. seen \in {0, item[i].version}
    BY DEF Valid
  <2>3. history'[j][n].seen = seen /\ item[i].version = n - 1
    BY <1>1, <1>5, <2>1
  <2> QED
    BY <2>2, <2>3
<1>6. ASSUME j = i PROVE n \in DOMAIN history[i] \/ n = item[i].version + 1
  <2>1. Len(history'[i]) = item[i].version + 1 /\ history'[i] \in Seq(Row)
    BY <1>1, <1>2
  <2>2. n \in 1 .. item[i].version + 1
    BY <1>6, <2>1
  <2> QED
    BY <1>1, <1>2, <2>2
<1> QED
  BY <1>3, <1>4, <1>5, <1>6

LEMMA WritesKeepClosed ==
  ASSUME Tables, ClosedKnowingly, NEW a \in Actor, NEW k \in Operation, NEW i \in Item, NEW seen,
         NEW new, NEW written, Valid(a, k, i, seen, new, written),
         NEW stored \in ItemRow, NEW row \in Row, NEW events \in Seq(Event), NEW made,
         stored.version = item[i].version + 1, row.seen = seen,
         Writes(a, k, i, written, stored, row, events, made)
  PROVE  ClosedKnowingly'
<1> SUFFICES ASSUME NEW j \in Item, NEW p \in posts'[j], p.kind = "resolved"
             PROVE  history'[j][p.revision].seen = p.revision - 1
  BY DEF ClosedKnowingly
<1>1. /\ \A l \in Item \ {i} : history'[l] = history[l] /\ posts'[l] = posts[l]
      /\ posts'[i] = posts[i] \cup written
      /\ history'[i] = Append(history[i], row)
      /\ item[i].version \in Nat
  BY WritesKeepTables
<1>2. /\ history[i] \in Seq(Row) /\ Len(history[i]) = item[i].version
      /\ \A q \in posts[i] : q.revision \in 1 .. item[i].version
  BY DEF Tables
<1>3. CASE j # i
  BY <1>1, <1>3 DEF ClosedKnowingly
<1>4. CASE j = i /\ p \in posts[i]
  <2>1. p.revision \in 1 .. Len(history[i])
    BY <1>2, <1>4
  <2>2. history'[i][p.revision] = history[i][p.revision]
    BY <1>1, <1>2, <2>1
  <2> QED
    BY <1>4, <2>2 DEF ClosedKnowingly
<1>5. CASE j = i /\ p \in written
  <2>1. p.revision = item[i].version + 1 /\ seen = item[i].version
    BY <1>5 DEF Valid
  <2>2. history'[j][p.revision] = row
    BY <1>1, <1>2, <1>5, <2>1
  <2>3. p.revision - 1 = seen
    BY <1>1, <2>1
  <2> QED
    BY <2>2, <2>3
<1> QED
  BY <1>1, <1>3, <1>4, <1>5

LEMMA ReceiptsAfter ==
  ASSUME Tables, NEW a \in Actor, NEW k \in Operation, NEW i \in Item, NEW seen,
         NEW new, NEW written, Valid(a, k, i, seen, new, written),
         NEW stored, NEW row, NEW events, NEW made, made.item = i,
         Writes(a, k, i, written, stored, row, events, made)
  PROVE  \E mine \in Actor \X Operation :
           /\ Receipts' = Receipts \cup {mine} /\ mine \notin Receipts
           /\ Of(mine)' = made
           /\ \A c \in Receipts : Of(c)' = Of(c)
<1>2. receipt = [b \in Actor |-> [l \in Operation |-> receipt[b][l]]]
  BY DEF Tables
<1>3. made # NoReceipt /\ receipt[a][k] = NoReceipt
  <2>1. NoReceipt.item = 0 /\ i # 0
    BY BoardAssumption DEF NoReceipt, Item
  <2> QED
    BY <2>1 DEF Valid
<1>4. PICK mine : mine = <<a, k>>
  OBVIOUS
<1>5. mine \in Actor \X Operation /\ mine[1] = a /\ mine[2] = k
  BY <1>4
<1>6. \A c \in Actor \X Operation :
        receipt'[c[1]][c[2]] = IF c = mine THEN made ELSE receipt[c[1]][c[2]]
  BY <1>2, <1>4 DEF Writes
<1>7. Receipts' = Receipts \cup {mine} /\ mine \notin Receipts
  BY <1>3, <1>5, <1>6 DEF Receipts
<1>8. Of(mine)' = made
  BY <1>5, <1>6 DEF Of
<1>9. \A c \in Receipts : Of(c)' = Of(c)
  BY <1>6, <1>7 DEF Of, Receipts
<1> QED
  BY <1>5, <1>7, <1>8, <1>9

\* The receipt that a transaction leaves is the one of its revision, and the
\* others are as they were.
LEMMA WritesKeepOnce ==
  ASSUME Tables, OncePerOperation, NEW a \in Actor, NEW k \in Operation, NEW i \in Item, NEW seen,
         NEW new, NEW written, Valid(a, k, i, seen, new, written),
         NEW stored \in ItemRow, NEW row \in Row, NEW events \in Seq(Event), NEW made,
         stored.version = item[i].version + 1, made.item = i, made.at = stored,
         Writes(a, k, i, written, stored, row, events, made)
  PROVE  OncePerOperation'
<1>1. /\ \A l \in Item \ {i} : item'[l] = item[l]
      /\ item'[i] = stored
      /\ item[i].version \in Nat
  BY WritesKeepTables
<1>2. PICK mine \in Actor \X Operation :
        /\ Receipts' = Receipts \cup {mine} /\ mine \notin Receipts
        /\ Of(mine)' = made
        /\ \A c \in Receipts : Of(c)' = Of(c)
  BY ReceiptsAfter
<1>7. Receipts' = Receipts \cup {mine} /\ mine \notin Receipts
  BY <1>2
<1>8. Of(mine)' = made
  BY <1>2
<1>9. \A c \in Receipts : Of(c)' = Of(c)
  BY <1>2
<1>10. ASSUME NEW c \in Receipts'
       PROVE  (Of(c).item \in Item /\ Of(c).at.version \in 1 .. item[Of(c).item].version)'
  <2>1. CASE c = mine
    BY <1>1, <1>8, <2>1
  <2>2. CASE c \in Receipts
    <3>1. Of(c).item \in Item /\ Of(c).at.version \in 1 .. item[Of(c).item].version
      BY <2>2 DEF OncePerOperation
    <3> QED
      BY <1>1, <1>9, <2>2, <3>1
  <2> QED
    BY <1>7, <2>1, <2>2
<1>11. \A c \in Receipts, j \in Item, n \in Nat : Made(c, j, n)' <=> Made(c, j, n)
  BY <1>9 DEF Made
<1>12. \A j \in Item, n \in Nat : Made(mine, j, n)' <=> j = i /\ n = item[i].version + 1
  BY <1>8 DEF Made
<1>13. ASSUME NEW j \in Item, NEW n \in 1 .. item'[j].version
       PROVE  \E c \in Receipts' : Made(c, j, n)' /\ \A d \in Receipts' : Made(d, j, n)' => d = c
  <2>1. CASE j = i /\ n = item[i].version + 1
    <3>1. ASSUME NEW d \in Receipts, Made(d, j, n) PROVE FALSE
      BY <1>1, <2>1, <3>1 DEF OncePerOperation, Made
    <3> QED
      BY <1>7, <1>11, <1>12, <2>1, <3>1
  <2>2. CASE ~ (j = i /\ n = item[i].version + 1)
    <3>1. n \in 1 .. item[j].version
      BY <1>1, <2>2
    <3>2. PICK c \in Receipts : Made(c, j, n) /\ \A d \in Receipts : Made(d, j, n) => d = c
      BY <3>1 DEF OncePerOperation
    <3> QED
      BY <1>7, <1>11, <1>12, <2>2, <3>1, <3>2
  <2> QED
    BY <2>1, <2>2
<1> QED
  BY <1>10, <1>13 DEF OncePerOperation

LEMMA MutationInvariant ==
  ASSUME IInv, NEW a, NEW k, NEW i, NEW seen, NEW new, NEW written, NEW published, NEW action,
         Mutation(a, k, i, seen, new, written, published, action)
  PROVE  IInv'
<1>1. Valid(a, k, i, seen, new, written) /\ a \in Actor /\ k \in Operation /\ i \in Item
  BY DEF Mutation, Valid
<1>a. PICK stored, row, events, made :
        Effect(a, k, i, seen, new, written, published, action, stored, row, events, made)
  BY MutationEffect DEF IInv
<1>2. /\ stored \in ItemRow /\ row \in Row /\ events \in Seq(Event)
      /\ stored.version = item[i].version + 1
      /\ row.seen = seen
      /\ made.item = i /\ made.at = stored
      /\ Writes(a, k, i, written, stored, row, events, made)
  BY <1>a DEF Effect
<1>3. Tables'
  BY <1>1, <1>2, WritesKeepTables DEF IInv
<1>4. SeenIsReplaced'
  BY <1>1, <1>2, WritesKeepSeen DEF IInv
<1>5. ClosedKnowingly'
  BY <1>1, <1>2, WritesKeepClosed DEF IInv
<1>6. OncePerOperation'
  BY <1>1, <1>2, WritesKeepOnce DEF IInv
<1> QED
  BY <1>3, <1>4, <1>5, <1>6 DEF IInv

LEMMA InitInvariant == Init => IInv
<1> SUFFICES ASSUME Init PROVE IInv
  OBVIOUS
<1>1. NoItem.version = 0
  BY DEF NoItem
<1>2. \A j \in Item : item[j] = NoItem /\ posts[j] = {} /\ history[j] = <<>>
  BY DEF Init
<1>3. Tables
  BY <1>1, <1>2 DEF Init, Tables
<1>4. Receipts = {}
  BY DEF Init, Receipts
<1>5. OncePerOperation
  BY <1>1, <1>2, <1>4 DEF OncePerOperation
<1>6. SeenIsReplaced /\ ClosedKnowingly
  BY <1>2 DEF SeenIsReplaced, ClosedKnowingly
<1> QED
  BY <1>3, <1>5, <1>6 DEF IInv

LEMMA NextInvariant == IInv /\ [Next]_vars => IInv'
<1> SUFFICES ASSUME IInv, [Next]_vars PROVE IInv'
  OBVIOUS
<1>0. Tables
  BY DEF IInv
<1>1. ASSUME UNCHANGED <<item, posts, history, log, receipt>> PROVE IInv'
  <2>1. Tables'
    BY <1>0, <1>1 DEF Tables, IsPost
  <2>2. Receipts' = Receipts /\ \A c : Of(c)' = Of(c)
    BY <1>1 DEF Receipts, Of
  <2>3. \A c, i, n : Made(c, i, n)' <=> Made(c, i, n)
    BY <2>2 DEF Made
  <2>4. OncePerOperation'
    BY <1>1, <2>2, <2>3 DEF IInv, OncePerOperation
  <2>5. SeenIsReplaced' /\ ClosedKnowingly'
    BY <1>1 DEF IInv, SeenIsReplaced, ClosedKnowingly
  <2> QED
    BY <2>1, <2>4, <2>5 DEF IInv
<1>2. CASE UNCHANGED vars \/ Archive \/ \E a \in Leaver : Join(a) \/ Leave(a)
  BY <1>1, <1>2 DEF vars, Archive, Join, Leave
<1>3. ASSUME NEW a \in Actor, NEW k \in Operation, NEW i \in Item,
             NEW w \in Actor, NEW s \in TaskStatus, Create(a, k, i, w, s)
      PROVE  IInv'
  <2>1. Mutation(a, k, i, 0, NewItem(a, "task", w, s), {}, FALSE, "create")
    BY <1>3, <1>0, CreateIsMutation
  <2> QED
    BY <2>1, MutationInvariant
<1>4. ASSUME NEW a \in Actor, NEW k \in Operation, NEW i \in Item,
             NEW s \in {"open", "resolved"}, Start(a, k, i, s)
      PROVE  IInv'
  <2>1. Mutation(a, k, i, 0, NewItem(a, "question", NoOne, s),
                 {FirstPost(a, "message", FALSE)}, TRUE, "start")
    BY <1>4, <1>0, StartIsMutation
  <2> QED
    BY <2>1, MutationInvariant
<1>5. ASSUME NEW a \in Actor, NEW k \in Operation, NEW i \in Item,
             NEW s \in {"open", "resolved"}, NEW h \in BOOLEAN, Raise(a, k, i, s, h)
      PROVE  IInv'
  <2>1. Mutation(a, k, i, 0, NewItem(a, "question", NoOne, s),
                 {FirstPost(a, "question", h /\ s # "resolved")}, TRUE, "ask")
    BY <1>5, <1>0, RaiseIsMutation
  <2> QED
    BY <2>1, MutationInvariant
<1>6. ASSUME NEW a \in Actor, NEW k \in Operation, NEW i \in Item, NEW v \in Nat,
             NEW w \in Actor, NEW s \in TaskStatus, UpdateTask(a, k, i, v, w, s)
      PROVE  IInv'
  <2>1. Mutation(a, k, i, v, [item[i] EXCEPT !.assignee = w, !.status = s], {}, FALSE, "update")
    BY <1>6, <1>0, UpdateTaskIsMutation
  <2> QED
    BY <2>1, MutationInvariant
<1>7. ASSUME NEW a \in Actor, NEW k \in Operation, NEW i \in Item, NEW v \in Nat,
             NEW b \in BOOLEAN, SetArchived(a, k, i, v, b)
      PROVE  IInv'
  <2>1. Mutation(a, k, i, v, [item[i] EXCEPT !.archived = b], {}, FALSE,
                 IF b THEN "archive" ELSE "restore")
    BY <1>7, <1>0, SetArchivedIsMutation
  <2> QED
    BY <2>1, MutationInvariant
<1>8. ASSUME NEW a \in Actor, NEW k \in Operation, NEW i \in Item, NEW v \in Nat,
             Resolve(a, k, i, v) \/ Reopen(a, k, i, v) \/ UpdateResolves(a, k, i, v)
      PROVE  IInv'
  <2>1. "resolve" \in Action /\ "reopen" \in Action /\ "update" \in Action
    BY DEF Action
  <2>2. Fresh(a, k) /\ IsThread(i) /\ Expected(i, v, FALSE)
    BY <1>8 DEF Resolve, Reopen, UpdateResolves
  <2>3. ASSUME NEW s \in {"open", "resolved"}, NEW action \in Action,
               SetStatus(a, k, i, v, s, action)
        PROVE  IInv'
    <3>1. Mutation(a, k, i, v, [item[i] EXCEPT !.status = s], {StatusPost(a, i, s)}, TRUE, action)
      BY <1>0, <2>2, <2>3, SetStatusIsMutation
    <3> QED
      BY <3>1, MutationInvariant
  <2>4. CASE Resolve(a, k, i, v)
    BY <2>1, <2>3, <2>4 DEF Resolve
  <2>5. CASE Reopen(a, k, i, v)
    BY <2>1, <2>3, <2>5 DEF Reopen
  <2>6. CASE UpdateResolves(a, k, i, v)
    BY <2>1, <2>3, <2>6 DEF UpdateResolves
  <2> QED
    BY <1>8, <2>4, <2>5, <2>6
<1>9. ASSUME NEW a \in Actor, NEW k \in Operation, NEW i \in Item, NEW v \in Nat,
             NEW e \in Edit, UpdateThread(a, k, i, v, e)
      PROVE  IInv'
  <2>1. Mutation(a, k, i, v, item[i], UpdateWrites(a, i, e),
                 "human" \in e /\ ~ HumanInput(item[i], Now(i)), "update")
    BY <1>9, <1>0, UpdateThreadIsMutation
  <2> QED
    BY <2>1, MutationInvariant
<1>10. ASSUME NEW a \in Actor, NEW k \in Operation, NEW i \in Item, NEW v \in Nat,
              NEW n, NEW b \in BOOLEAN, Answer(a, k, i, v, n, b)
       PROVE  IInv'
  <2>1. PICK new, written : Mutation(a, k, i, v, new, written, TRUE, "answer")
    BY <1>10, <1>0, AnswerIsMutation
  <2> QED
    BY <1>0, <2>1, MutationInvariant
<1>11. ASSUME NEW a \in Actor, NEW k \in Operation, NEW i \in Item, NEW v \in Nat,
              NEW n, Reply(a, k, i, v, n)
       PROVE  IInv'
  <2>1. PICK post : post = NewPost(a, i, IF n = 0 THEN "message" ELSE "answer", FALSE, n)
    OBVIOUS
  <2>2. PICK action : action = IF n = 0 THEN "reply" ELSE "answer"
    OBVIOUS
  <2>3. IsPost(post) /\ post.revision = item[i].version + 1 /\ post.kind # "resolved"
    BY <2>1 DEF NewPost, IsPost, Bump
  <2>4. action \in Action
    BY <2>2 DEF Action
  <2>5. Commit(a, k, i, v, item[i], {post}, TRUE, action)
    BY <1>11, <2>1, <2>2 DEF Reply
  <2>6. Fresh(a, k) /\ Changeable(i) /\ Expected(i, v, TRUE)
    BY <1>11 DEF Reply
  <2>7. Mutation(a, k, i, v, item[i], {post}, TRUE, action)
    BY <1>0, <2>3, <2>4, <2>5, <2>6, AppendIsMutation
  <2> QED
    BY <2>7, MutationInvariant
<1>12. ASSUME NEW a \in Actor, NEW k \in Operation, NEW i \in Item, NEW v \in Nat,
              NEW b \in BOOLEAN, AskPost(a, k, i, v, b)
       PROVE  IInv'
  <2>1. PICK post : post = NewPost(a, i, "question", b, 0)
    OBVIOUS
  <2>2. IsPost(post) /\ post.revision = item[i].version + 1 /\ post.kind # "resolved"
    BY <2>1 DEF NewPost, IsPost, Bump
  <2>3. "ask-post" \in Action
    BY DEF Action
  <2>4. Commit(a, k, i, v, item[i], {post}, TRUE, "ask-post")
    BY <1>12, <2>1 DEF AskPost
  <2>5. Fresh(a, k) /\ Changeable(i) /\ Expected(i, v, TRUE)
    BY <1>12 DEF AskPost
  <2>6. Mutation(a, k, i, v, item[i], {post}, TRUE, "ask-post")
    BY <1>0, <2>2, <2>3, <2>4, <2>5, AppendIsMutation
  <2> QED
    BY <2>6, MutationInvariant
<1>13. ASSUME NEW a \in Actor, NEW k \in Operation, NEW i \in Item, NEW v \in Nat,
              NEW n, NEW e, EditPost(a, k, i, v, n, e)
       PROVE  IInv'
  <2>1. PICK post : Mutation(a, k, i, v, item[i], {post}, TRUE, "edit-post")
    BY <1>13, <1>0, EditPostIsMutation
  <2> QED
    BY <2>1, MutationInvariant
<1>14. ASSUME NEW i \in Item, NEW v \in 0 .. item[i].version PROVE v \in Nat
  BY <1>0, <1>14, ItemIsRow
<1>15. ASSUME NEW a \in Actor, NEW k \in Operation, NEW i \in Item, NEW v \in 0 .. item[i].version,
              \/ \E w \in Actor, s \in TaskStatus : UpdateTask(a, k, i, v, w, s)
              \/ \E b \in BOOLEAN : SetArchived(a, k, i, v, b) \/ AskPost(a, k, i, v, b)
              \/ Resolve(a, k, i, v) \/ Reopen(a, k, i, v) \/ UpdateResolves(a, k, i, v)
              \/ \E e \in Edit : UpdateThread(a, k, i, v, e)
              \/ \E n \in {0} \cup {p.number : p \in posts[i]} :
                   \/ \E b \in BOOLEAN : Answer(a, k, i, v, n, b)
                   \/ Reply(a, k, i, v, n)
                   \/ \E e \in {{}, {"human"}, {"plain"}} : EditPost(a, k, i, v, n, e)
       PROVE  IInv'
  BY <1>6, <1>7, <1>8, <1>9, <1>10, <1>11, <1>12, <1>13, <1>14, <1>15, Zenon
<1>16. ASSUME NEW a \in Actor, NEW k \in Operation, NEW i \in Item,
              \/ \E w \in Actor, s \in TaskStatus : Create(a, k, i, w, s)
              \/ \E s \in {"open", "resolved"} :
                   Start(a, k, i, s) \/ \E h \in BOOLEAN : Raise(a, k, i, s, h)
       PROVE  IInv'
  BY <1>3, <1>4, <1>5, <1>16, Zenon
<1>17. CASE Next
  BY <1>2, <1>15, <1>16, <1>17 DEF Next
<1> QED
  BY <1>2, <1>17

\* IInv is an invariant of the board: each of its tables has its form, each
\* revision has its receipt, and who names a revision names the one replaced.
THEOREM Invariance == Spec => []IInv
  BY InitInvariant, NextInvariant, PTL DEF Spec

\* A retried or duplicated request never changes an item a second time, for any
\* number of actors, operations, items and revisions (board.go:426-455).
THEOREM MutationsHappenOnce == Spec => []OncePerOperation
<1>1. IInv => OncePerOperation
  BY DEF IInv
<1> QED
  BY <1>1, Invariance, PTL

\* Of two writers that name one revision at most one has written, and whoever
\* resolves a thread has named its latest (board.go:486-490).
THEOREM UpdatesAreNotLost == Spec => []NoLostUpdate
<1>1. ASSUME IInv PROVE NoLostUpdate
  <2>1. ASSUME NEW i \in Item, NEW m \in DOMAIN history[i], NEW n \in DOMAIN history[i],
               history[i][m].seen # 0, history[i][m].seen = history[i][n].seen
        PROVE  m = n
    <3>1. history[i] \in Seq(Row)
      BY <1>1 DEF IInv, Tables
    <3>2. m \in Nat /\ n \in Nat
      BY <3>1
    <3>3. history[i][m].seen = m - 1 /\ history[i][n].seen = n - 1
      <4>1. \A l \in DOMAIN history[i] : history[i][l].seen \in {0, l - 1}
        BY <1>1 DEF IInv, SeenIsReplaced
      <4> QED
        BY <2>1, <4>1
    <3>4. m - 1 = n - 1
      BY <2>1, <3>3
    <3> QED
      BY <3>2, <3>4
  <2>2. ClosedKnowingly
    BY <1>1 DEF IInv
  <2> QED
    BY <2>1, <2>2 DEF NoLostUpdate, ClosedKnowingly
<1> QED
  BY <1>1, Invariance, PTL
=============================================================================
