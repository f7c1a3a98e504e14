-------------------------------- MODULE Desk --------------------------------
(***************************************************************************)
(* What people do at the web UI (web/routes.py) while an agent corrects    *)
(* transactions with update_transaction (mcp_server/server.py): pages are  *)
(* opened, lie there and are posted later, and the handlers of what is     *)
(* posted overlap.                                                         *)
(*                                                                         *)
(* A handler that changes a row is two steps: it reads the row, and it     *)
(* writes the columns it found changed over the row as committed by then,  *)
(* and commits (Ledger has the locks and the audit log in between).        *)
(***************************************************************************)
EXTENDS Naturals, FiniteSets

CONSTANTS
    Users,      \* people at the UI, each with one page
    Agents,     \* callers of update_transaction
    TxIds,      \* primary keys of `transactions`
    BudgetIds,  \* primary keys of `budgets`
    Limits,     \* monthly limits
    NoRow,
    NoId,
    MaxPosts    \* bound on requests that change something

ASSUME IdsAssumption == TxIds \cap BudgetIds = {} /\ NoId \notin TxIds
ASSUME ActorsAssumption == Users \cap Agents = {}
ASSUME LimitsAssumption == Limits \subseteq Nat \ {0} /\ MaxPosts \in Nat

CategoriesOf == [expense |-> {"cogs", "rd"}, income |-> {"subscription"}]
Types == DOMAIN CategoriesOf
Categories == {"cogs", "rd", "subscription"}

(* The columns of a transaction that a form shows.  currency stands also for the *)
(* amount, the date and the description: validated each by itself.               *)
Form == [type : Types, category : Categories, currency : {"COP", "USD"}]
TxRow == [type : Types, category : Categories, currency : {"COP", "USD"}, deleted : BOOLEAN]
FormColumns == {"type", "category", "currency"}
BudgetRow == [limit : Limits, active : BOOLEAN]
ASSUME NoRowAssumption == NoRow \notin TxRow \cup BudgetRow
Ids == TxIds \cup BudgetIds
Actors == Users \cup Agents

VARIABLES
    rows,      \* primary key -> row, or NoRow: both tables as committed
    page,      \* user -> the page in front of them
    call,      \* actor -> the handler between its read and its write
    posts,
    given,     \* primary key -> each column as it was last given on purpose
    blurred,   \* <<id, column>> that an old page or an overlap may have changed
    hands,     \* transaction -> what has changed it since it was last whole
    origin     \* transaction -> the transaction whose edit page it was made on

vars == <<rows, page, call, posts, given, blurred, hands, origin>>

List == [on |-> "list"]
Idle == [by |-> "nobody"]
NewPage(was) == [on |-> "new", was |-> was]
EditPage(i, shown, asOf) == [on |-> "edit", id |-> i, shown |-> shown, asOf |-> asOf]

(* The fields edit_transaction_form fills in.                                    *)
FormOf(row) == [type |-> row.type, category |-> row.category, currency |-> row.currency]
Live(i) == rows[i] # NoRow /\ ~rows[i].deleted

Init ==
    /\ rows = [i \in Ids |-> NoRow]
    /\ page = [u \in Users |-> List] /\ call = [a \in Actors |-> Idle]
    /\ posts = 0
    /\ given = rows /\ blurred = {}
    /\ hands = [i \in TxIds |-> {}] /\ origin = [i \in TxIds |-> NoId]

Posts == posts < MaxPosts /\ posts' = posts + 1
----------------------------------------------------------------------------
(* Mutant: any category that exists.                                             *)
InTaxonomy(form) == form.category \in Categories

(* validate_transaction.                                                         *)
Valid(form) == form.category \in CategoriesOf[form.type]

(* create_transaction of what convert_to_cop returns.                            *)
NewRow(form) ==
    [type |-> form.type, category |-> form.category, currency |-> "COP", deleted |-> FALSE]

OpenNew(u) ==
    /\ page' = [page EXCEPT ![u] = NewPage(NoId)]
    /\ UNCHANGED <<rows, call, posts, given, blurred, hands, origin>>

OpenEdit(u, i) ==
    /\ Live(i)
    /\ page' = [page EXCEPT ![u] = EditPage(i, FormOf(rows[i]), given[i])]
    /\ UNCHANGED <<rows, call, posts, given, blurred, hands, origin>>

(* create_transaction_submit, which commits the new row.  A form that is not     *)
(* valid, or has no rate, is shown again: no step.                               *)
PostNew(u, i, form) ==
    /\ page[u].on = "new" /\ Valid(form)
    /\ rows[i] = NoRow
    /\ Posts
    /\ rows' = [rows EXCEPT ![i] = NewRow(form)]
    /\ given' = [given EXCEPT ![i] = NewRow(form)]
    /\ origin' = [origin EXCEPT ![i] = page[u].was]
    /\ page' = [page EXCEPT ![u] = List]
    /\ UNCHANGED <<call, blurred, hands>>

(* Mutant: the form comes back as the one for new transactions.                  *)
AlwaysNew(edit) == NewPage(edit.id)

(* The template's form goes to the row's edit page if the row is still there,    *)
(* and else, under the title of a new transaction, to /transactions/new.         *)
ShownAgain(edit) == IF Live(edit.id) THEN edit ELSE NewPage(edit.id)

(* edit_transaction_submit of a form that is not valid.                          *)
PostInvalid(u) ==
    /\ page[u].on = "edit"
    /\ page' = [page EXCEPT ![u] = ShownAgain(page[u])]
    /\ UNCHANGED <<rows, call, posts, given, blurred, hands, origin>>

(* A handler has read row i and goes on to write `after`: the columns `means` on *)
(* purpose, the others as they were when their values were given as in `asOf`.   *)
Reads(a, by, i, after, means, asOf) ==
    /\ call[a] = Idle /\ Posts
    /\ call' = [call EXCEPT ![a] = [by |-> by, id |-> i, before |-> rows[i], after |-> after,
                                    means |-> means, asOf |-> asOf]]
    /\ UNCHANGED <<rows, given, blurred, hands, origin>>

Over(row, cells) == [c \in DOMAIN row |-> IF c \in DOMAIN cells THEN cells[c] ELSE row[c]]

(* edit_transaction_submit of a valid form.  Every field is posted, also those   *)
(* the user has not touched since the page was opened, and dollars stay dollars. *)
PostEdit(u, form) ==
    /\ page[u].on = "edit" /\ Valid(form) /\ Live(page[u].id)
    /\ LET touched == {c \in DOMAIN form : form[c] # page[u].shown[c]}
       IN  Reads(u, "form", page[u].id, Over(rows[page[u].id], form), touched, page[u].asOf)
    /\ page' = [page EXCEPT ![u] = List]

(* The same of a row that is gone: nothing is written, and the answer does not   *)
(* say so.                                                                       *)
PostEditOfDeleted(u) ==
    /\ page[u].on = "edit" /\ ~Live(page[u].id)
    /\ page' = [page EXCEPT ![u] = List]
    /\ UNCHANGED <<rows, call, posts, given, blurred, hands, origin>>

(* delete_transaction, a button of the list.                                     *)
PostDelete(u, i) ==
    /\ Live(i)
    /\ Reads(u, "delete", i, [rows[i] EXCEPT !.deleted = TRUE], {"deleted"}, given[i])
    /\ UNCHANGED page

(* update_transaction of the MCP server: the fields that are passed, unvalidated *)
(* but for the foreign key, and never the type.                                  *)
Correct(a, i, cells) ==
    /\ Live(i)
    /\ Reads(a, "chat", i, Over(rows[i], cells), DOMAIN cells, given[i])
    /\ UNCHANGED page
----------------------------------------------------------------------------
(* /budgets.  A limit that float() does not read, or that is not positive, stores *)
(* nothing: no step.                                                             *)

(* Mutant: a limit that rounds to nothing is stored.                             *)
PostAnyBudget(b, limit) ==
    /\ given[b] = NoRow
    /\ Posts
    /\ rows' = [rows EXCEPT ![b] = [limit |-> 0, active |-> TRUE]]
    /\ given' = [given EXCEPT ![b] = [limit |-> 0, active |-> TRUE]]
    /\ UNCHANGED <<page, call, blurred, hands, origin>>

PostBudget(b, limit) ==
    /\ given[b] = NoRow
    /\ Posts
    /\ rows' = [rows EXCEPT ![b] = [limit |-> limit, active |-> TRUE]]
    /\ given' = [given EXCEPT ![b] = [limit |-> limit, active |-> TRUE]]
    /\ UNCHANGED <<page, call, blurred, hands, origin>>

Toggle(u, b) ==
    /\ rows[b] # NoRow
    /\ Reads(u, "toggle", b, [rows[b] EXCEPT !.active = ~@], {"active"}, given[b])
    /\ UNCHANGED page

EditLimit(u, b, limit) ==
    /\ rows[b] # NoRow
    /\ Reads(u, "limit", b, [rows[b] EXCEPT !.limit = limit], {"limit"}, given[b])
    /\ UNCHANGED page

DeleteBudget(b) ==
    /\ rows[b] # NoRow
    /\ Posts
    /\ rows' = [rows EXCEPT ![b] = NoRow]
    /\ UNCHANGED <<page, call, given, blurred, hands, origin>>
----------------------------------------------------------------------------
(* Mutant: the whole copy is written.                                            *)
WholeCopy(row, before, after) == after

(* The UPDATE: the columns that the handler changed.                             *)
Written(row, before, after) ==
    [c \in DOMAIN row |-> IF before[c] # after[c] THEN after[c] ELSE row[c]]

HandsAfter(c) ==
    IF c.by = "form" /\ c.before = rows[c.id] THEN {"form"}
    ELSE hands[c.id] \cup {c.by} \cup (IF c.before = rows[c.id] THEN {} ELSE {"overlap"})

(* UPDATE and COMMIT.  A budget that is gone by now makes the UPDATE fail.       *)
Writes(a) ==
    LET c == call[a]
        i == c.id
        reposted == IF c.by = "form" THEN FormColumns \ c.means ELSE {}
    IN  /\ c # Idle
        /\ call' = [call EXCEPT ![a] = Idle]
        /\ IF rows[i] = NoRow THEN UNCHANGED <<rows, given, blurred, hands>>
           ELSE /\ rows' = [rows EXCEPT ![i] = Written(rows[i], c.before, c.after)]
                /\ given' = [given EXCEPT ![i] = Over(@, [k \in c.means |-> c.after[k]])]
                /\ blurred' = blurred
                     \cup {<<i, k>> : k \in {k \in c.means : c.before[k] # rows[i][k]}}
                     \cup {<<i, k>> : k \in {k \in reposted : given[i][k] # c.asOf[k]}}
                /\ hands' = IF i \in TxIds THEN [hands EXCEPT ![i] = HandsAfter(c)] ELSE hands
        /\ UNCHANGED <<page, posts, origin>>

(* The process, the connection or the commit fails: nothing is written.          *)
Fails(a) ==
    /\ call[a] # Idle
    /\ call' = [call EXCEPT ![a] = Idle]
    /\ UNCHANGED <<rows, page, posts, given, blurred, hands, origin>>

Cells == [category : Categories] \cup [currency : {"COP", "USD"}]
           \cup [category : Categories, currency : {"COP", "USD"}]

UserStep(u) ==
    \/ OpenNew(u)
    \/ \E i \in TxIds : OpenEdit(u, i) \/ PostDelete(u, i)
    \/ \E form \in Form : PostEdit(u, form) \/ \E i \in TxIds : PostNew(u, i, form)
    \/ PostInvalid(u) \/ PostEditOfDeleted(u)
    \/ \E b \in BudgetIds : Toggle(u, b) \/ \E limit \in Limits : EditLimit(u, b, limit)

Next ==
    \/ \E u \in Users : UserStep(u)
    \/ \E a \in Agents, i \in TxIds, cells \in Cells : Correct(a, i, cells)
    \/ \E b \in BudgetIds : DeleteBudget(b) \/ \E limit \in Limits : PostBudget(b, limit)
    \/ \E a \in Actors : Writes(a) \/ Fails(a)

Spec == Init /\ [][Next]_vars
----------------------------------------------------------------------------
Page == {List} \cup [on : {"new"}, was : TxIds \cup {NoId}]
          \cup [on : {"edit"}, id : TxIds, shown : Form, asOf : TxRow]
Call == {Idle}
          \cup [by : {"form", "delete", "chat"}, id : TxIds, before : TxRow, after : TxRow,
                means : SUBSET (FormColumns \cup {"deleted"}), asOf : TxRow]
          \cup [by : {"toggle", "limit"}, id : BudgetIds, before : BudgetRow, after : BudgetRow,
                means : SUBSET {"limit", "active"}, asOf : BudgetRow]

TypeOK ==
    /\ \A i \in TxIds : rows[i] \in TxRow \cup {NoRow} /\ given[i] \in TxRow \cup {NoRow}
    /\ \A b \in BudgetIds : rows[b] \in BudgetRow \cup {NoRow}
                            /\ given[b] \in BudgetRow \cup {NoRow}
    /\ DOMAIN rows = Ids /\ DOMAIN given = Ids
    /\ page \in [Users -> Page] /\ call \in [Actors -> Call]
    /\ posts \in 0 .. MaxPosts
    /\ hands \in [TxIds -> SUBSET {"form", "delete", "chat", "overlap"}]
    /\ origin \in [TxIds -> TxIds \cup {NoId}]

(* A column keeps what somebody last gave it, whatever else is posted, toggled or *)
(* corrected, overlapping or not: only a form that posts the column back can     *)
(* change it, and only if its page was opened before that value was given; or    *)
(* two handlers that overlapped both gave it one (routes.py:264-275, 383-408).   *)
GivenValuesSurvive ==
    \A i \in Ids : rows[i] # NoRow =>
        \A c \in DOMAIN rows[i] : <<i, c>> \notin blurred => rows[i][c] = given[i][c]

Fits(row) == row.category \in CategoriesOf[row.type]

(* What gets past the door is a correction: a row whose category is not one of   *)
(* its type was corrected by the agent or by two handlers that overlapped since  *)
(* a form last wrote it as a whole, and a row in dollars was not left as it was  *)
(* recorded (routes.py:1-5, server.py:160-176).                                  *)
OnlyCorrectionsPassTheDoor ==
    \A i \in TxIds : Live(i) =>
        /\ ~Fits(rows[i]) => hands[i] \cap {"chat", "overlap"} # {}
        /\ rows[i].currency = "USD" => hands[i] # {}

(* Saving an edit page never records a second transaction beside the one it was  *)
(* opened for; only one that was deleted meanwhile can come back as a new row    *)
(* (routes.py:249-262 and the action of the form in transaction_form.html).      *)
EditsNeverDuplicate == \A i \in TxIds : origin[i] # NoId => rows[origin[i]].deleted

(* "MCP tools and the internal UI go through the same core/ validation and        *)
(* storage layer, so a transaction created by chat and one entered by hand follow *)
(* identical rules" (README.md:51): whoever wrote a row last, its category is one *)
(* of its type, as the validation has it.  The agent's corrections do not go      *)
(* through the validation.                                                        *)
LedgerFitsTheDoor == \A i \in TxIds : Live(i) => Fits(rows[i])
=============================================================================
