-------------------------------- MODULE Board --------------------------------
(***************************************************************************)
(* The board of one room: tasks, and threads of posts                      *)
(* (src/internal/room/board.go, board_entries.go, board_notifications.go). *)
(* Every mutation is one transaction (Store.Board): it looks for a receipt *)
(* of its operation ID, checks the revision that its author has read,      *)
(* changes the item, writes snapshots of posts, one history row and at     *)
(* most one event of the room, subscribes the agents that take part, and   *)
(* leaves its receipt. Commit is that transaction, and each operation says *)
(* what it does with it. A request that is refused, or that is answered    *)
(* from its receipt, changes nothing; a caller may therefore send the same *)
(* request at any time again.                                              *)
(*                                                                         *)
(* Texts are abstracted to the revision that wrote them, and numbers to    *)
(* one numbering of both kinds of items. Titles, notes, blockers and       *)
(* documents of an item change with its version and nothing else here      *)
(* depends on them. Legacy records, written before posts were kept, are    *)
(* not modelled.                                                           *)
(***************************************************************************)
EXTENDS Naturals, Sequences, FiniteSets, FiniteSetsExt

CONSTANTS
  Agent,       \* handles of agents that have a participant row in the room
  Human,       \* handles of the owner and of collaborators with an identity
  Operation,   \* operation IDs
  Kind,        \* the kinds of items that are created
  Leaver,      \* the agents that may leave the room and join again
  MaxItems,    \* bound on the number of items
  MaxVersion,  \* bound on the revisions of an item
  Edit,        \* the sets of fields that an update of a thread may carry
  NoOne        \* no assignee

ASSUME BoardAssumption ==
  /\ Agent \cap Human = {}
  /\ NoOne \notin Agent \cup Human
  /\ Kind \subseteq {"task", "question"}
  /\ Leaver \subseteq Agent
  /\ MaxItems \in Nat
  /\ MaxVersion \in Nat

\* "human" and "plain" set and clear human_input.
Field == {"title", "notes", "options", "human", "plain"}

ASSUME EditAssumption ==
  Edit \subseteq {e \in SUBSET Field : ~ {"human", "plain"} \subseteq e}

VARIABLES
  open,     \* rooms.status = 'open'
  joined,   \* the agents that are joined
  item,     \* board_items; version 0 is no item
  posts,    \* board_entries: the snapshots of each item's posts
  history,  \* board_history of each item, by revision
  log,      \* the events of the room that the board has published
  receipt   \* board_operations, by actor and operation ID

vars == <<open, joined, item, posts, history, log, receipt>>

Item == 1 .. MaxItems
Actor == Agent \cup Human
Status == {"backlog", "in-progress", "done", "open", "resolved"}
Discussion == {"message", "question", "answer"}

ItemRow == [kind : {"task", "question"}, creator : Actor, assignee : Actor \cup {NoOne},
            status : Status, archived : BOOLEAN, version : Nat, subscribers : SUBSET Agent]
NoItem == [version |-> 0]

Post == [number : Nat, revision : Nat, kind : Discussion \cup {"resolved", "reopened"},
         by : Actor, asks : BOOLEAN, to : Nat, text : Nat]

Action == {"create", "start", "ask", "update", "archive", "restore", "resolve", "reopen",
           "answer", "reply", "ask-post", "edit-post"}

\* A row has the version that its author submitted, 0 for none, and the
\* position of its event, 0 for none.
Row == [by : Actor, action : Action, seen : Nat, event : Nat]

Event == [by : Actor, for : SUBSET Agent]

NoReceipt == [item |-> 0]

-----------------------------------------------------------------------------
(* What is derived from the snapshots of the posts of an item.             *)

\* Mutant: the posts as they are now.
EntriesNow(E, v) ==
  {p \in E : \A o \in E : o.number = p.number => o.revision <= p.revision}

\* boardEntriesTx: the posts as they were at revision v.
Entries(E, v) ==
  {p \in E : /\ p.revision <= v
             /\ \A o \in E : o.number = p.number /\ o.revision <= v => o.revision <= p.revision}

\* Mutant: any answer settles a request for human input.
AnsweredByAnyone(p, E) == \E a \in E : a.kind = "answer" /\ a.to = p.number

Answered(p, E) ==
  \E a \in E : /\ a.kind = "answer"
               /\ a.to = p.number
               /\ p.asks => a.by \in Human

Unanswered(E) == {p \in E : p.kind = "question" /\ ~ Answered(p, E)}

\* boardEntryStateTx
HumanInput(it, E) == it.status # "resolved" /\ \E p \in Unanswered(E) : p.asks

Replied(n, E) == \E a \in E : a.to = n
NextNumber(E) == 1 + Max({p.number : p \in E} \cup {0})

\* boardDetailTx: what a caller is shown of an item as of its version, `it' as
\* it was stored then: which snapshots of its posts, which of them answered, and
\* whether human input is pending. A row of the history or of the posts does not
\* change, so that its place stands for it.
Detail(it, E) ==
  LET now == Entries(E, it.version)
  IN  [posts |-> {<<p.number, p.revision, Answered(p, now)>> : p \in now},
       human |-> HumanInput(it, now)]

-----------------------------------------------------------------------------
(* The transaction.                                                        *)

\* Mutant: the receipt is not looked for.
FreshAgain(a, k) == open /\ (a \in Human \/ a \in joined)

\* The room is open, the actor is known, and the operation ID is new to it.
Fresh(a, k) ==
  /\ open
  /\ a \in Human \/ a \in joined
  /\ receipt[a][k] = NoReceipt

\* Mutant: the poster is not subscribed.
SubscribersQuiet(a, new, written) == new.subscribers \cup ({new.creator, new.assignee} \cap Agent)

\* addBoardSubscribersTx, before and after the posts are written.
Subscribers(a, new, written) ==
  new.subscribers \cup ({new.creator, new.assignee} \cap Agent)
    \cup {b \in {a} \cap Agent : \E p \in written : p.kind \in Discussion}

\* Mutant: the mentions are an event of their own.
EventsTwice(a, mentions, published) ==
  (IF published THEN <<[by |-> a, for |-> {}]>> ELSE <<>>)
    \o (IF mentions # {} THEN <<[by |-> a, for |-> mentions]>> ELSE <<>>)

\* insertMessage and notifyBoardSubscribersTx, which appends the mentions to
\* the event that there is and publishes one when there is none.
Events(a, mentions, published) ==
  IF published \/ mentions # {} THEN <<[by |-> a, for |-> mentions]>> ELSE <<>>

Bump(it) == it.version + 1

\* The item `new' replaces item i as its next revision; `written' are the
\* snapshots of its posts, and `published' says that the operation has an event
\* of its own.
Commit(a, k, i, seen, new, written, published, action) ==
  LET subscribers == Subscribers(a, new, written)
      events == Events(a, subscribers \ {a}, published)
      stored == [new EXCEPT !.version = Bump(new), !.subscribers = subscribers]
      row == [by |-> a, action |-> action, seen |-> seen,
              event |-> IF events = <<>> THEN 0 ELSE Len(log) + Len(events)]
  IN  /\ new.version < MaxVersion
      /\ item' = [item EXCEPT ![i] = stored]
      /\ posts' = [posts EXCEPT ![i] = @ \cup written]
      /\ history' = [history EXCEPT ![i] = Append(@, row)]
      /\ log' = log \o events
      /\ receipt' = [receipt EXCEPT ![a][k] =
           [item |-> i, at |-> stored,
            told |-> Detail(stored, posts[i] \cup written)]]
      /\ UNCHANGED <<open, joined>>

\* The posts of an item as of its version, and a new one among them.
Now(i) == Entries(posts[i], item[i].version)

NewPost(a, i, kind, asks, to) ==
  [number |-> NextNumber(Now(i)), revision |-> Bump(item[i]), kind |-> kind, by |-> a,
   asks |-> asks, to |-> to, text |-> Bump(item[i])]

\* Mutant: a revision that has been replaced will do.
ExpectedStale(i, v, appends) == v <= item[i].version

\* An operation that only appends need not name the revision it has seen.
Expected(i, v, appends) ==
  \/ appends /\ v = 0
  \/ v > 0 /\ v = item[i].version

\* Mutant: a resolved thread takes posts.
ChangeableResolved(i) == item[i].version > 0

\* There is such an item, and a resolved thread is read-only.
Changeable(i) == item[i].version > 0 /\ item[i].status # "resolved"

-----------------------------------------------------------------------------
(* Tasks.                                                                  *)

TaskStatus == {"backlog", "in-progress", "done"}

\* The first number that has no item.
Free(i, kind) ==
  kind \in Kind /\ item[i].version = 0 /\ \A j \in 1 .. i - 1 : item[j].version > 0

\* Mutant: a task without an assignee.
NewItemUnassigned(a, kind, w, s) ==
  [kind |-> kind, creator |-> a, assignee |-> NoOne, status |-> s,
   archived |-> FALSE, version |-> 0, subscribers |-> {}]

NewItem(a, kind, w, s) ==
  [kind |-> kind, creator |-> a, assignee |-> w, status |-> s,
   archived |-> FALSE, version |-> 0, subscribers |-> {}]

\* Without an assignee in the request w is the creator.
Create(a, k, i, w, s) ==
  /\ Fresh(a, k) /\ Free(i, "task")
  /\ Commit(a, k, i, 0, NewItem(a, "task", w, s), {}, FALSE, "create")

IsTask(i) == item[i].version > 0 /\ item[i].kind = "task"

UpdateTask(a, k, i, v, w, s) ==
  /\ Fresh(a, k) /\ IsTask(i) /\ Expected(i, v, FALSE)
  /\ Commit(a, k, i, v, [item[i] EXCEPT !.assignee = w, !.status = s], {}, FALSE, "update")

SetArchived(a, k, i, v, archived) ==
  /\ Fresh(a, k) /\ IsTask(i) /\ Expected(i, v, FALSE)
  /\ Commit(a, k, i, v, [item[i] EXCEPT !.archived = archived], {}, FALSE,
            IF archived THEN "archive" ELSE "restore")

-----------------------------------------------------------------------------
(* Threads.                                                                *)

FirstPost(a, kind, asks) ==
  [number |-> 1, revision |-> 1, kind |-> kind, by |-> a, asks |-> asks,
   to |-> 0, text |-> 1]

\* thread.create; the request may name the status.
Start(a, k, i, s) ==
  /\ Fresh(a, k) /\ Free(i, "question")
  /\ Commit(a, k, i, 0, NewItem(a, "question", NoOne, s),
            {FirstPost(a, "message", FALSE)}, TRUE, "start")

\* question.ask
Raise(a, k, i, s, human) ==
  /\ Fresh(a, k) /\ Free(i, "question")
  /\ Commit(a, k, i, 0, NewItem(a, "question", NoOne, s),
            {FirstPost(a, "question", human /\ s # "resolved")}, TRUE, "ask")

IsThread(i) == item[i].version > 0 /\ item[i].kind = "question"

StatusPost(a, i, s) ==
  NewPost(a, i, IF s = "resolved" THEN "resolved" ELSE "reopened", FALSE, 0)

SetStatus(a, k, i, v, s, action) ==
  Commit(a, k, i, v, [item[i] EXCEPT !.status = s], {StatusPost(a, i, s)}, TRUE, action)

Resolve(a, k, i, v) ==
  /\ Fresh(a, k) /\ IsThread(i) /\ Expected(i, v, FALSE)
  /\ SetStatus(a, k, i, v, "resolved", "resolve")

Reopen(a, k, i, v) ==
  /\ Fresh(a, k) /\ IsThread(i) /\ Expected(i, v, FALSE)
  /\ SetStatus(a, k, i, v, "open", "reopen")

\* question.update that marks an open thread resolved, whatever else it carries.
UpdateResolves(a, k, i, v) ==
  /\ Fresh(a, k) /\ IsThread(i) /\ Changeable(i) /\ Expected(i, v, FALSE)
  /\ SetStatus(a, k, i, v, "resolved", "update")

Asks(was, edit) == IF "human" \in edit THEN TRUE ELSE was /\ "plain" \notin edit

Edited(p, i, edit) ==
  [p EXCEPT !.revision = Bump(item[i]), !.asks = Asks(@, edit),
            !.text = IF edit \cap {"notes", "options"} # {} THEN Bump(item[i]) ELSE @]

\* What an update writes: the one pending question again, or a new question
\* when input or options are asked for and none is pending.
UpdateWrites(a, i, edit) ==
  LET pending == Unanswered(Now(i))
  IN  CASE edit \cap (Field \ {"title"}) = {} -> {}
        [] pending # {} -> {Edited(p, i, edit) : p \in pending}
        [] edit \cap {"options", "human"} # {} ->
             {NewPost(a, i, "question", "human" \in edit, 0)}
        [] OTHER -> {}

\* question.update of the other fields.
UpdateThread(a, k, i, v, edit) ==
  LET pending == Unanswered(Now(i))
  IN  /\ Fresh(a, k) /\ IsThread(i) /\ Changeable(i) /\ Expected(i, v, FALSE)
      /\ edit \cap (Field \ {"title"}) # {} => Cardinality(pending) <= 1
      /\ edit \cap {"notes", "options"} # {} => \A p \in pending : ~ Replied(p.number, Now(i))
      /\ Commit(a, k, i, v, item[i], UpdateWrites(a, i, edit),
                "human" \in edit /\ ~ HumanInput(item[i], Now(i)), "update")

-----------------------------------------------------------------------------
(* Posts, of threads and of tasks.                                         *)

Questions(E) == {p.number : p \in {q \in E : q.kind = "question"}}

\* The question that an answer is for: the one it names; or, on a thread, the
\* one that is pending, or else the last one. 0 is none.
Targets(i, to) ==
  LET pending == Unanswered(Now(i))
  IN  CASE to # 0 -> {to} \cap Questions(Now(i))
        [] to = 0 /\ item[i].kind = "task" -> {}
        [] to = 0 /\ Cardinality(pending) > 1 -> {}
        [] to = 0 /\ Cardinality(pending) = 1 -> {p.number : p \in pending}
        [] OTHER -> {Max(Questions(Now(i)) \cup {0})}

Answer(a, k, i, v, to, resolve) ==
  /\ Fresh(a, k) /\ Changeable(i) /\ Expected(i, v, ~ resolve)
  /\ resolve => item[i].kind = "question"
  /\ \E n \in Targets(i, to) :
       LET post == NewPost(a, i, IF n = 0 THEN "message" ELSE "answer", FALSE, n)
           end == [post EXCEPT !.number = @ + 1, !.kind = "resolved", !.to = 0]
       IN  IF resolve
             THEN Commit(a, k, i, v, [item[i] EXCEPT !.status = "resolved"],
                         {post, end}, TRUE, "answer")
             ELSE Commit(a, k, i, v, item[i], {post}, TRUE, "answer")

Reply(a, k, i, v, to) ==
  /\ Fresh(a, k) /\ Changeable(i) /\ Expected(i, v, TRUE)
  /\ to # 0 => to \in Questions(Now(i))
  /\ Commit(a, k, i, v, item[i],
            {NewPost(a, i, IF to = 0 THEN "message" ELSE "answer", FALSE, to)}, TRUE,
            IF to = 0 THEN "reply" ELSE "answer")

AskPost(a, k, i, v, human) ==
  /\ Fresh(a, k) /\ Changeable(i) /\ Expected(i, v, TRUE)
  /\ Commit(a, k, i, v, item[i], {NewPost(a, i, "question", human, 0)}, TRUE, "ask-post")

\* Mutant: a question that has answers is edited like one that has none.
EditableAnswered(p, E) == p.kind = "question"

Editable(p, E) == p.kind = "question" /\ ~ Replied(p.number, E)

EditPost(a, k, i, v, n, edit) ==
  /\ Fresh(a, k) /\ Changeable(i) /\ Expected(i, v, FALSE)
  /\ \E p \in Now(i) :
       /\ p.number = n
       /\ Editable(p, Now(i))
       /\ Commit(a, k, i, v, item[i], {Edited(p, i, {"notes"} \cup edit)}, TRUE, "edit-post")

-----------------------------------------------------------------------------
(* The room.                                                               *)

Join(a) == open /\ a \notin joined /\ joined' = joined \cup {a}
           /\ UNCHANGED <<open, item, posts, history, log, receipt>>

Leave(a) == joined' = joined \ {a} /\ a \in joined
            /\ UNCHANGED <<open, item, posts, history, log, receipt>>

Archive == open /\ open' = FALSE
           /\ UNCHANGED <<joined, item, posts, history, log, receipt>>

Init ==
  /\ open = TRUE
  /\ joined = Agent
  /\ item = [i \in Item |-> NoItem]
  /\ posts = [i \in Item |-> {}]
  /\ history = [i \in Item |-> <<>>]
  /\ log = <<>>
  /\ receipt = [a \in Actor |-> [k \in Operation |-> NoReceipt]]

\* A caller may have read any revision that has been, or none, and names a post
\* of it, or none.
Next ==
  \/ \E a \in Actor, k \in Operation, i \in Item :
       \/ \E w \in Actor, s \in TaskStatus : Create(a, k, i, w, s)
       \/ \E s \in {"open", "resolved"} : Start(a, k, i, s) \/ \E h \in BOOLEAN : Raise(a, k, i, s, h)
       \/ \E v \in 0 .. item[i].version :
            \/ \E w \in Actor, s \in TaskStatus : UpdateTask(a, k, i, v, w, s)
            \/ \E b \in BOOLEAN : SetArchived(a, k, i, v, b) \/ AskPost(a, k, i, v, b)
            \/ Resolve(a, k, i, v) \/ Reopen(a, k, i, v) \/ UpdateResolves(a, k, i, v)
            \/ \E e \in Edit : UpdateThread(a, k, i, v, e)
            \/ \E n \in {0} \cup {p.number : p \in posts[i]} :
                 \/ \E b \in BOOLEAN : Answer(a, k, i, v, n, b)
                 \/ Reply(a, k, i, v, n)
                 \/ \E e \in {{}, {"human"}, {"plain"}} : EditPost(a, k, i, v, n, e)
  \/ \E a \in Leaver : Join(a) \/ Leave(a)
  \/ Archive

Spec == Init /\ [][Next]_vars

-----------------------------------------------------------------------------
(* What holds of the board.                                                *)

Receipt == [item : Item, at : ItemRow,
            told : [posts : SUBSET (Nat \X Nat \X BOOLEAN), human : BOOLEAN]]

TypeOK ==
  /\ open \in BOOLEAN
  /\ joined \in SUBSET Agent
  /\ item \in [Item -> ItemRow \cup {NoItem}]
  /\ posts \in [Item -> SUBSET Post]
  /\ history \in [Item -> Seq(Row)]
  /\ log \in Seq(Event)
  /\ receipt \in [Actor -> [Operation -> Receipt \cup {NoReceipt}]]
  /\ \A i \in Item : Len(history[i]) = item[i].version
  /\ \A i \in Item : \A p \in posts[i] : p.revision \in DOMAIN history[i]
  /\ \A i \in Item : item[i].version > 0 =>
       IF item[i].kind = "task" THEN item[i].status \in TaskStatus /\ item[i].assignee # NoOne
                                ELSE item[i].status \notin TaskStatus /\ item[i].assignee = NoOne

Receipts == {c \in Actor \X Operation : receipt[c[1]][c[2]] # NoReceipt}
Of(c) == receipt[c[1]][c[2]]
Made(c, i, n) == Of(c).item = i /\ Of(c).at.version = n

\* A mutation takes effect once, however often and however late its request
\* arrives: every revision of an item is the work of one operation, and every
\* receipt stands for one revision (board.go:426-455, 800-815).
OncePerOperation ==
  /\ \A c \in Receipts :
       Of(c).item \in Item /\ Of(c).at.version \in 1 .. item[Of(c).item].version
  /\ \A i \in Item : \A n \in 1 .. item[i].version :
       \E c \in Receipts : Made(c, i, n) /\ \A d \in Receipts : Made(d, i, n) => d = c

\* "Operation replays derive post/answer state at the receipt's revision, not
\* the current one" (docs/architecture.md:78-79): a retry is told what the
\* first call was told, though posts have been added, answered and edited since.
ReplayIsFirstAnswer ==
  \A c \in Receipts : Of(c).told = Detail(Of(c).at, posts[Of(c).item])

\* Of two writers that have read the same revision one is refused, and nobody
\* resolves a thread without having read its latest post: appended answers do
\* not slip between (board.go:486-490).
NoLostUpdate ==
  \A i \in Item :
    /\ \A m, n \in DOMAIN history[i] :
         history[i][m].seen # 0 /\ history[i][m].seen = history[i][n].seen => m = n
    /\ \A p \in posts[i] : p.kind = "resolved" => history[i][p.revision].seen = p.revision - 1

Settled(i, v) == LET E == Entries(posts[i], v) IN Questions({p \in E : Answered(p, E)})

\* What has been answered is not rewritten under its answers, by an edit of the
\* post or by an update of the record, and is not unanswered again
\* (board_entries.go:347-371, 387-405).
AnswersStand ==
  \A i \in Item :
    /\ \A q, a \in posts[i] : a.to = q.number => q.text < a.revision
    /\ \A v \in 2 .. item[i].version : Settled(i, v - 1) \subseteq Settled(i, v)

\* "Human answers settle human requests; agent contributions do not silently
\* clear them" (docs/architecture.md:70): a request for human input that is no
\* longer pending was answered by a human at that revision, or its author's
\* question was itself edited then.
HumanRequestStands ==
  \A i \in Item : \A v \in 2 .. item[i].version :
    LET Requests(w) == Questions({p \in Unanswered(Entries(posts[i], w)) : p.asks})
    IN  \A n \in Requests(v - 1) \ Requests(v) :
          \E p \in posts[i] :
            /\ p.revision = v
            /\ p.number = n \/ (p.to = n /\ p.by \in Human)

\* A thread reads as resolved exactly when the last of its status posts says
\* so, whichever of the four ways resolved it, and nothing is posted or edited
\* between that post and a reopening (board.go:483, 655-665).
ResolvedIsReadOnly ==
  \A i \in Item :
    LET ends == {p \in posts[i] : p.kind \notin Discussion}
    IN  /\ \A p \in ends : (\A o \in ends : o.number <= p.number) =>
             (item[i].status = "resolved" <=> p.kind = "resolved")
        /\ \A e \in ends, p \in posts[i] \ ends :
             e.kind = "resolved" /\ e.revision < p.revision =>
               \E o \in ends : o.kind = "reopened" /\ o.revision \in e.revision + 1 .. p.revision - 1

\* The agents that take part in item i as of revision n: its creator, all its
\* assignees, and everybody who has posted or edited a post.
Parties(i, n) ==
  LET made == {c \in Receipts : Of(c).item = i /\ Of(c).at.version <= n}
  IN  Agent \cap ({Of(c).at.creator : c \in made} \cup {Of(c).at.assignee : c \in made} \cup
        {history[i][p.revision].by : p \in {q \in posts[i] : q.revision <= n /\ q.kind \in Discussion}})

\* "Every activity mentions subscribers except its author" and "previous
\* assignees remain subscribed" (docs/cli.md:149-155): each revision has told
\* every agent that had taken part in the item by then.
PartiesTold ==
  \A i \in Item : \A n \in DOMAIN history[i] :
    LET row == history[i][n]
        due == Parties(i, n) \ {row.by}
    IN  due # {} => row.event # 0 /\ log[row.event].for = due

\* "One canonical event per activity" (docs/testing.md:29): every event of the
\* board is the event of one revision, in its order, under its author; and every
\* answer has the event and the history row that a detail shows it by.
OneEvent ==
  /\ \A e \in DOMAIN log : \E i \in Item : \E n \in DOMAIN history[i] :
       /\ history[i][n].event = e
       /\ history[i][n].by = log[e].by
       /\ \A j \in Item : \A m \in DOMAIN history[j] :
            history[j][m].event = e => j = i /\ m = n
  /\ \A i \in Item : \A p \in posts[i] : p.kind = "answer" =>
       history[i][p.revision].event # 0 /\ history[i][p.revision].action = "answer"
=============================================================================
