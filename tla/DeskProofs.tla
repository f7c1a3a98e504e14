----------------------------- MODULE DeskProofs -----------------------------
(***************************************************************************)
(* Theorems about Desk, for any people, agents, rows, limits and bound on  *)
(* posts: types; that no edit makes a second transaction; what can leave a *)
(* row outside the taxonomy; and that values given survive what else is    *)
(* posted.                                                                 *)
(***************************************************************************)
EXTENDS Desk, TLAPS

TxColumns == {"type", "category", "currency", "deleted"}
BudgetColumns == {"limit", "active"}
TxCalls == [by : {"form", "delete", "chat"}, id : TxIds, before : TxRow, after : TxRow,
            means : SUBSET (FormColumns \cup {"deleted"}), asOf : TxRow]
BudgetCalls == [by : {"toggle", "limit"}, id : BudgetIds, before : BudgetRow, after : BudgetRow,
                means : SUBSET {"limit", "active"}, asOf : BudgetRow]

LEMMA Facts ==
    /\ MaxPosts \in Nat /\ TxIds \cap BudgetIds = {} /\ NoId \notin TxIds
    /\ NoRow \notin TxRow /\ NoRow \notin BudgetRow
BY IdsAssumption, LimitsAssumption, NoRowAssumption

(* Rows as functions of their columns.                                           *)
LEMMA TxColumnsOf ==
    ASSUME NEW r \in TxRow
    PROVE  /\ DOMAIN r = TxColumns
           /\ r["type"] = r.type /\ r["category"] = r.category
           /\ r["currency"] = r.currency /\ r["deleted"] = r.deleted
BY DEF TxRow, TxColumns

LEMMA BudgetColumnsOf ==
    ASSUME NEW r \in BudgetRow
    PROVE  /\ DOMAIN r = BudgetColumns
           /\ r["limit"] = r.limit /\ r["active"] = r.active
BY DEF BudgetRow, BudgetColumns

(* Rows by their columns: what has values of the right kind in them is a row.    *)
LEMMA TxRowOf ==
    ASSUME NEW f, f = [c \in TxColumns |-> f[c]],
           f["type"] \in Types, f["category"] \in Categories,
           f["currency"] \in {"COP", "USD"}, f["deleted"] \in BOOLEAN
    PROVE  f \in TxRow
BY DEF TxRow, TxColumns

LEMMA BudgetRowOf ==
    ASSUME NEW f, f = [c \in BudgetColumns |-> f[c]],
           f["limit"] \in Limits, f["active"] \in BOOLEAN
    PROVE  f \in BudgetRow
BY DEF BudgetRow, BudgetColumns

LEMMA FormForm ==
    ASSUME NEW form \in Form
    PROVE  /\ DOMAIN form = FormColumns
           /\ form["type"] \in Types /\ form["category"] \in Categories
           /\ form["currency"] \in {"COP", "USD"}
           /\ form["type"] = form.type /\ form["category"] = form.category
BY DEF Form, FormColumns

LEMMA CellsForm ==
    ASSUME NEW cells \in Cells
    PROVE  /\ DOMAIN cells \subseteq {"category", "currency"}
           /\ "category" \in DOMAIN cells => cells["category"] \in Categories
           /\ "currency" \in DOMAIN cells => cells["currency"] \in {"COP", "USD"}
BY DEF Cells

(* Writing some columns over a row makes a row.                                  *)
LEMMA OverTx ==
    ASSUME NEW row \in TxRow, NEW cells,
           "type" \in DOMAIN cells => cells["type"] \in Types,
           "category" \in DOMAIN cells => cells["category"] \in Categories,
           "currency" \in DOMAIN cells => cells["currency"] \in {"COP", "USD"},
           "deleted" \in DOMAIN cells => cells["deleted"] \in BOOLEAN
    PROVE  /\ Over(row, cells) \in TxRow
           /\ \A c \in TxColumns :
                 Over(row, cells)[c] = IF c \in DOMAIN cells THEN cells[c] ELSE row[c]
<1>1. DOMAIN row = TxColumns
    BY TxColumnsOf
<1>2. DEFINE f == Over(row, cells)
<1>3. f = [c \in TxColumns |-> IF c \in DOMAIN cells THEN cells[c] ELSE row[c]]
    BY <1>1 DEF Over
<1>4. /\ f["type"] \in Types /\ f["category"] \in Categories
      /\ f["currency"] \in {"COP", "USD"} /\ f["deleted"] \in BOOLEAN
    BY <1>3, TxColumnsOf DEF TxColumns, TxRow
<1>5. f = [c \in TxColumns |-> f[c]]
    BY <1>3
<1>6. f \in TxRow
    BY <1>4, <1>5, TxRowOf
<1>7. QED BY <1>3, <1>6

LEMMA OverBudget ==
    ASSUME NEW row \in BudgetRow, NEW cells,
           "limit" \in DOMAIN cells => cells["limit"] \in Limits,
           "active" \in DOMAIN cells => cells["active"] \in BOOLEAN
    PROVE  /\ Over(row, cells) \in BudgetRow
           /\ \A c \in BudgetColumns :
                 Over(row, cells)[c] = IF c \in DOMAIN cells THEN cells[c] ELSE row[c]
<1>1. DOMAIN row = BudgetColumns
    BY BudgetColumnsOf
<1>2. DEFINE f == Over(row, cells)
<1>3. f = [c \in BudgetColumns |-> IF c \in DOMAIN cells THEN cells[c] ELSE row[c]]
    BY <1>1 DEF Over
<1>4. f["limit"] \in Limits /\ f["active"] \in BOOLEAN
    BY <1>3, BudgetColumnsOf DEF BudgetColumns, BudgetRow
<1>5. f = [c \in BudgetColumns |-> f[c]]
    BY <1>3
<1>6. f \in BudgetRow
    BY <1>4, <1>5, BudgetRowOf
<1>7. QED BY <1>3, <1>6

LEMMA WrittenTx ==
    ASSUME NEW row \in TxRow, NEW before \in TxRow, NEW after \in TxRow
    PROVE  /\ Written(row, before, after) \in TxRow
           /\ \A c \in TxColumns :
                 Written(row, before, after)[c] = IF before[c] # after[c] THEN after[c] ELSE row[c]
<1>1. DEFINE f == Written(row, before, after)
<1>2. f = [c \in TxColumns |-> IF before[c] # after[c] THEN after[c] ELSE row[c]]
    BY TxColumnsOf DEF Written
<1>3. /\ f["type"] \in Types /\ f["category"] \in Categories
      /\ f["currency"] \in {"COP", "USD"} /\ f["deleted"] \in BOOLEAN
    BY <1>2, TxColumnsOf DEF TxColumns, TxRow
<1>4. f = [c \in TxColumns |-> f[c]]
    BY <1>2
<1>5. f \in TxRow
    BY <1>3, <1>4, TxRowOf
<1>6. QED BY <1>2, <1>5

LEMMA WrittenBudget ==
    ASSUME NEW row \in BudgetRow, NEW before \in BudgetRow, NEW after \in BudgetRow
    PROVE  /\ Written(row, before, after) \in BudgetRow
           /\ \A c \in BudgetColumns :
                 Written(row, before, after)[c] = IF before[c] # after[c] THEN after[c] ELSE row[c]
<1>1. DEFINE f == Written(row, before, after)
<1>2. f = [c \in BudgetColumns |-> IF before[c] # after[c] THEN after[c] ELSE row[c]]
    BY BudgetColumnsOf DEF Written
<1>3. f["limit"] \in Limits /\ f["active"] \in BOOLEAN
    BY <1>2, BudgetColumnsOf DEF BudgetColumns, BudgetRow
<1>4. f = [c \in BudgetColumns |-> f[c]]
    BY <1>2
<1>5. f \in BudgetRow
    BY <1>3, <1>4, BudgetRowOf
<1>6. QED BY <1>2, <1>5
----------------------------------------------------------------------------
(* What holds of a page that was opened, of a handler that has read, and of the   *)
(* rows, beside the properties.                                                  *)
PageFits(p) ==
    /\ p.on = "new" /\ p.was # NoId => rows[p.was] \in TxRow /\ rows[p.was].deleted
    /\ p.on = "edit" =>
         /\ rows[p.id] \in TxRow
         /\ \A c \in FormColumns : <<p.id, c>> \notin blurred => p.shown[c] = p.asOf[c]

(* What a form posts and its user did not touch is as the page had it; what       *)
(* another handler does not mean to change it does not change.                   *)
Unmeant(c, k) ==
    IF c.by = "form" /\ k \in FormColumns
    THEN <<c.id, k>> \notin blurred => c.after[k] = c.asOf[k]
    ELSE c.after[k] = c.before[k]

CallFits(c) ==
    /\ c \in TxCalls =>
         /\ rows[c.id] \in TxRow
         /\ ~c.before.deleted
         /\ c.by = "form" => Fits(c.after)
         /\ c.by = "delete" => c.after.deleted
         /\ \A k \in TxColumns \ c.means : Unmeant(c, k)
    /\ c \in BudgetCalls => \A k \in BudgetColumns \ c.means : c.after[k] = c.before[k]

RowsFit ==
    /\ \A i \in TxIds : rows[i] # NoRow => rows[i] \in TxRow /\ given[i] \in TxRow
    /\ \A b \in BudgetIds : rows[b] # NoRow => rows[b] \in BudgetRow /\ given[b] \in BudgetRow

OriginFits ==
    \A i \in TxIds : origin[i] # NoId => rows[origin[i]] \in TxRow /\ rows[origin[i]].deleted

(* The invariant.                                                                *)
DeskInv ==
    /\ TypeOK /\ RowsFit /\ OriginFits
    /\ GivenValuesSurvive /\ OnlyCorrectionsPassTheDoor
    /\ \A u \in Users : PageFits(page[u])
    /\ \A a \in Actors : CallFits(call[a])

LEMMA PageForm ==
    ASSUME TypeOK, NEW u \in Users
    PROVE  /\ page[u].on = "new" => page[u].was \in TxIds \cup {NoId}
           /\ page[u].on = "edit" =>
                page[u].id \in TxIds /\ page[u].shown \in Form /\ page[u].asOf \in TxRow
BY DEF TypeOK, Page, List

LEMMA CallForm ==
    ASSUME TypeOK, NEW a \in Actors, call[a] # Idle
    PROVE  call[a] \in TxCalls \/ call[a] \in BudgetCalls
BY DEF TypeOK, Call, TxCalls, BudgetCalls

LEMMA IdleFits == CallFits(Idle)
BY DEF CallFits, Idle, TxCalls, BudgetCalls

LEMMA Init0 == ASSUME Init PROVE DeskInv
<1>1. /\ \A i \in Ids : rows[i] = NoRow /\ given[i] = NoRow
      /\ DOMAIN rows = Ids /\ DOMAIN given = Ids
    BY DEF Init
<1>2. TypeOK
    BY <1>1, Facts DEF Init, TypeOK, Ids, Page, Call
<1>3. RowsFit /\ GivenValuesSurvive /\ OnlyCorrectionsPassTheDoor
    BY <1>1 DEF RowsFit, GivenValuesSurvive, OnlyCorrectionsPassTheDoor, Live, Ids
<1>4. OriginFits
    BY DEF Init, OriginFits
<1>5. \A u \in Users : PageFits(page[u])
    BY DEF Init, PageFits, List
<1>6. \A a \in Actors : CallFits(call[a])
    BY IdleFits DEF Init
<1>7. QED BY <1>2, <1>3, <1>4, <1>5, <1>6 DEF DeskInv
----------------------------------------------------------------------------
(* Steps that only turn a page.                                                  *)
LEMMA Turned ==
    ASSUME DeskInv, NEW u \in Users, NEW p \in Page, PageFits(p),
           page' = [page EXCEPT ![u] = p],
           UNCHANGED <<rows, call, posts, given, blurred, hands, origin>>
    PROVE  DeskInv'
<1>1. TypeOK'
    BY DEF DeskInv, TypeOK
<1>2. \A v \in Users : PageFits(page[v])'
    BY DEF DeskInv, TypeOK, PageFits
<1>3. \A a \in Actors : CallFits(call[a])'
    BY DEF DeskInv, CallFits, Unmeant
<1>4. (RowsFit /\ OriginFits /\ GivenValuesSurvive /\ OnlyCorrectionsPassTheDoor)'
    BY DEF DeskInv, RowsFit, OriginFits, GivenValuesSurvive, OnlyCorrectionsPassTheDoor, Live
<1>5. QED BY <1>1, <1>2, <1>3, <1>4 DEF DeskInv

LEMMA ListFits == List \in Page /\ PageFits(List)
BY DEF List, Page, PageFits

LEMMA PageSteps ==
    ASSUME DeskInv, NEW u \in Users,
           \/ OpenNew(u) \/ PostInvalid(u) \/ PostEditOfDeleted(u)
           \/ \E i \in TxIds : OpenEdit(u, i)
    PROVE  DeskInv'
<1>1. CASE OpenNew(u)
    <2>1. NewPage(NoId) \in Page /\ PageFits(NewPage(NoId))
        BY DEF NewPage, Page, PageFits
    <2>2. QED BY <1>1, <2>1, Turned DEF OpenNew
<1>2. ASSUME NEW i \in TxIds, OpenEdit(u, i) PROVE DeskInv'
    <2>1. rows[i] \in TxRow /\ given[i] \in TxRow /\ i \in Ids
        BY <1>2 DEF OpenEdit, Live, DeskInv, RowsFit, Ids
    <2>2. DEFINE p == EditPage(i, FormOf(rows[i]), given[i])
    <2>3. FormOf(rows[i]) \in Form
        BY <2>1 DEF FormOf, Form, TxRow
    <2>4. p \in Page
        BY <2>1, <2>3 DEF EditPage, Page
    <2>5. \A c \in FormColumns : FormOf(rows[i])[c] = rows[i][c]
        BY <2>1, TxColumnsOf DEF FormOf, FormColumns
    <2>6. \A c \in FormColumns : <<i, c>> \notin blurred => rows[i][c] = given[i][c]
        BY <2>1, TxColumnsOf, Facts
           DEF DeskInv, GivenValuesSurvive, FormColumns, TxColumns
    <2>7. PageFits(p)
        BY <2>1, <2>5, <2>6 DEF PageFits, EditPage
    <2>8. QED BY <1>2, <2>4, <2>7, Turned DEF OpenEdit
<1>3. CASE PostInvalid(u)
    <2>1. page[u] \in Page /\ PageFits(page[u]) /\ page[u].id \in TxIds /\ rows[page[u].id] \in TxRow
        BY <1>3, PageForm DEF PostInvalid, DeskInv, TypeOK, PageFits
    <2>2. CASE Live(page[u].id)
        BY <1>3, <2>1, <2>2, Turned DEF PostInvalid, ShownAgain
    <2>3. CASE ~Live(page[u].id)
        <3>1. rows[page[u].id].deleted
            BY <2>1, <2>3, Facts DEF Live, TxRow
        <3>2. NewPage(page[u].id) \in Page /\ PageFits(NewPage(page[u].id))
            BY <2>1, <3>1 DEF NewPage, Page, PageFits
        <3>3. QED BY <1>3, <2>3, <3>2, Turned DEF PostInvalid, ShownAgain
    <2>4. QED BY <2>2, <2>3
<1>4. CASE PostEditOfDeleted(u)
    BY <1>4, ListFits, Turned DEF PostEditOfDeleted
<1>5. QED BY <1>1, <1>2, <1>3, <1>4
----------------------------------------------------------------------------
(* Handlers that read a row, and those that come to nothing.                     *)
LEMMA Called ==
    ASSUME DeskInv, NEW a \in Actors, NEW c \in Call, CallFits(c),
           call' = [call EXCEPT ![a] = c],
           page' = page \/ \E u \in Users : page' = [page EXCEPT ![u] = List],
           posts' \in 0 .. MaxPosts,
           UNCHANGED <<rows, given, blurred, hands, origin>>
    PROVE  DeskInv'
<1>1. page' \in [Users -> Page]
    BY ListFits DEF DeskInv, TypeOK
<1>2. TypeOK'
    BY <1>1 DEF DeskInv, TypeOK
<1>3. \A v \in Users : PageFits(page'[v])
    BY ListFits DEF DeskInv, TypeOK
<1>4. \A v \in Users : PageFits(page[v])'
    BY <1>3 DEF PageFits
<1>5. \A b \in Actors : CallFits(call'[b])
    BY DEF DeskInv, TypeOK
<1>6. \A b \in Actors : CallFits(call[b])'
    BY <1>5 DEF CallFits, Unmeant
<1>7. (RowsFit /\ OriginFits /\ GivenValuesSurvive /\ OnlyCorrectionsPassTheDoor)'
    BY DEF DeskInv, RowsFit, OriginFits, GivenValuesSurvive, OnlyCorrectionsPassTheDoor, Live
<1>8. QED BY <1>2, <1>4, <1>6, <1>7 DEF DeskInv

LEMMA CallsAreApart == TxCalls \cap BudgetCalls = {} /\ TxCalls \cup BudgetCalls \subseteq Call
BY Facts DEF TxCalls, BudgetCalls, Call

LEMMA ReadTx ==
    ASSUME DeskInv, NEW a \in Actors, NEW by \in {"form", "delete", "chat"}, NEW i \in TxIds,
           Live(i), NEW after \in TxRow, NEW means \in SUBSET (FormColumns \cup {"deleted"}),
           NEW asOf \in TxRow, Reads(a, by, i, after, means, asOf),
           page' = page \/ \E u \in Users : page' = [page EXCEPT ![u] = List],
           by = "form" => Fits(after),
           by = "delete" => after.deleted,
           \A k \in TxColumns \ means :
              IF by = "form" /\ k \in FormColumns
              THEN <<i, k>> \notin blurred => after[k] = asOf[k]
              ELSE after[k] = rows[i][k]
    PROVE  DeskInv'
<1>1. rows[i] \in TxRow /\ ~rows[i].deleted
    BY DEF DeskInv, RowsFit, Live
<1>2. DEFINE c == [by |-> by, id |-> i, before |-> rows[i], after |-> after,
                   means |-> means, asOf |-> asOf]
<1>3. c \in TxCalls
    BY <1>1 DEF TxCalls
<1>4. CallFits(c)
    BY <1>1, <1>3, CallsAreApart DEF CallFits, Unmeant
<1>5. posts' \in 0 .. MaxPosts
    BY Facts DEF Reads, Posts, DeskInv, TypeOK
<1>6. QED BY <1>3, <1>4, <1>5, CallsAreApart, Called DEF Reads

LEMMA ReadBudget ==
    ASSUME DeskInv, NEW a \in Actors, NEW by \in {"toggle", "limit"}, NEW b \in BudgetIds,
           rows[b] # NoRow, NEW after \in BudgetRow, NEW means \in SUBSET BudgetColumns,
           Reads(a, by, b, after, means, given[b]),
           page' = page,
           \A k \in BudgetColumns \ means : after[k] = rows[b][k]
    PROVE  DeskInv'
<1>1. rows[b] \in BudgetRow /\ given[b] \in BudgetRow
    BY DEF DeskInv, RowsFit
<1>2. DEFINE c == [by |-> by, id |-> b, before |-> rows[b], after |-> after,
                   means |-> means, asOf |-> given[b]]
<1>3. c \in BudgetCalls
    BY <1>1 DEF BudgetCalls, BudgetColumns
<1>4. CallFits(c)
    BY <1>3, CallsAreApart DEF CallFits
<1>5. posts' \in 0 .. MaxPosts
    BY Facts DEF Reads, Posts, DeskInv, TypeOK
<1>6. QED BY <1>3, <1>4, <1>5, CallsAreApart, Called DEF Reads

LEMMA ReadsOfEdit ==
    ASSUME DeskInv, NEW u \in Users, NEW form \in Form, PostEdit(u, form)
    PROVE  DeskInv'
<1>1. DEFINE i == page[u].id
             after == Over(rows[i], form)
             means == {c \in DOMAIN form : form[c] # page[u].shown[c]}
<1>2. /\ i \in TxIds /\ rows[i] \in TxRow /\ page[u].shown \in Form /\ page[u].asOf \in TxRow
      /\ \A c \in FormColumns : <<i, c>> \notin blurred => page[u].shown[c] = page[u].asOf[c]
    BY PageForm DEF PostEdit, DeskInv, PageFits
<1>3. /\ after \in TxRow
      /\ \A c \in TxColumns : after[c] = IF c \in FormColumns THEN form[c] ELSE rows[i][c]
    BY <1>2, FormForm, OverTx DEF FormColumns
<1>4. Fits(after)
    <2>1. after["type"] = form["type"] /\ after["category"] = form["category"]
        BY <1>3 DEF FormColumns, TxColumns
    <2>2. after.type = form.type /\ after.category = form.category
        BY <1>3, <2>1, FormForm, TxColumnsOf
    <2>3. QED BY <2>2 DEF PostEdit, Valid, Fits
<1>5. means \in SUBSET (FormColumns \cup {"deleted"}) /\ DOMAIN form = FormColumns
    BY FormForm
<1>6. \A k \in TxColumns \ means :
         IF "form" = "form" /\ k \in FormColumns
         THEN <<i, k>> \notin blurred => after[k] = page[u].asOf[k]
         ELSE after[k] = rows[i][k]
    BY <1>2, <1>3, <1>5
<1>7. u \in Actors
    BY DEF Actors
<1>8. /\ Reads(u, "form", i, after, means, page[u].asOf) /\ Live(i)
      /\ page' = page \/ \E v \in Users : page' = [page EXCEPT ![v] = List]
    BY DEF PostEdit
<1>9. HIDE DEF i, after, means
<1>10. QED BY <1>2, <1>3, <1>4, <1>5, <1>6, <1>7, <1>8, ReadTx

LEMMA ReadsOfDelete ==
    ASSUME DeskInv, NEW u \in Users, NEW i \in TxIds, PostDelete(u, i)
    PROVE  DeskInv'
<1>1. DEFINE after == [rows[i] EXCEPT !.deleted = TRUE]
<1>2. rows[i] \in TxRow /\ given[i] \in TxRow /\ u \in Actors
    BY DEF PostDelete, Live, DeskInv, RowsFit, Actors
<1>3. /\ after \in TxRow /\ after.deleted
      /\ \A k \in TxColumns \ {"deleted"} : after[k] = rows[i][k]
    BY <1>2 DEF TxRow, TxColumns
<1>4. {"deleted"} \in SUBSET (FormColumns \cup {"deleted"})
    OBVIOUS
<1>5. /\ Live(i) /\ Reads(u, "delete", i, after, {"deleted"}, given[i])
      /\ page' = page
    BY DEF PostDelete
<1>6. HIDE DEF after
<1>7. QED BY <1>2, <1>3, <1>4, <1>5, ReadTx

LEMMA ReadsOfCorrect ==
    ASSUME DeskInv, NEW a \in Agents, NEW i \in TxIds, NEW cells \in Cells, Correct(a, i, cells)
    PROVE  DeskInv'
<1>1. rows[i] \in TxRow /\ given[i] \in TxRow /\ a \in Actors
    BY DEF Correct, Live, DeskInv, RowsFit, Actors
<1>2. /\ Over(rows[i], cells) \in TxRow
      /\ \A c \in TxColumns :
            Over(rows[i], cells)[c] = IF c \in DOMAIN cells THEN cells[c] ELSE rows[i][c]
    BY <1>1, CellsForm, OverTx
<1>3. DOMAIN cells \in SUBSET (FormColumns \cup {"deleted"})
    BY CellsForm DEF FormColumns
<1>4. QED BY <1>1, <1>2, <1>3, ReadTx DEF Correct

LEMMA ReadsOfBudget ==
    ASSUME DeskInv, NEW u \in Users, NEW b \in BudgetIds,
           Toggle(u, b) \/ \E limit \in Limits : EditLimit(u, b, limit)
    PROVE  DeskInv'
<1>1. rows[b] \in BudgetRow /\ u \in Actors /\ rows[b] # NoRow
    BY DEF Toggle, EditLimit, DeskInv, RowsFit, Actors
<1>2. CASE Toggle(u, b)
    <2>1. DEFINE after == [rows[b] EXCEPT !.active = ~@]
    <2>2. /\ after \in BudgetRow
          /\ \A k \in BudgetColumns \ {"active"} : after[k] = rows[b][k]
        BY <1>1 DEF BudgetRow, BudgetColumns
    <2>3. {"active"} \in SUBSET BudgetColumns
        BY DEF BudgetColumns
    <2>4. QED BY <1>1, <1>2, <2>2, <2>3, ReadBudget DEF Toggle
<1>3. ASSUME NEW limit \in Limits, EditLimit(u, b, limit) PROVE DeskInv'
    <2>1. DEFINE after == [rows[b] EXCEPT !.limit = limit]
    <2>2. /\ after \in BudgetRow
          /\ \A k \in BudgetColumns \ {"limit"} : after[k] = rows[b][k]
        BY <1>1 DEF BudgetRow, BudgetColumns
    <2>3. {"limit"} \in SUBSET BudgetColumns
        BY DEF BudgetColumns
    <2>4. QED BY <1>1, <1>3, <2>2, <2>3, ReadBudget DEF EditLimit
<1>4. QED BY <1>2, <1>3

LEMMA ReadsFail ==
    ASSUME DeskInv, NEW a \in Actors, Fails(a)
    PROVE  DeskInv'
<1>1. Idle \in Call /\ CallFits(Idle)
    BY IdleFits DEF Call
<1>2. posts' \in 0 .. MaxPosts
    BY DEF Fails, DeskInv, TypeOK
<1>3. QED BY <1>1, <1>2, Called DEF Fails
----------------------------------------------------------------------------
(* Handlers that write at once.                                                  *)
LEMMA NewRowForm ==
    ASSUME NEW form \in Form, Valid(form)
    PROVE  NewRow(form) \in TxRow /\ Fits(NewRow(form)) /\ NewRow(form).currency = "COP"
BY DEF Form, Valid, NewRow, TxRow, Fits

LEMMA RecordsNew ==
    ASSUME DeskInv, NEW u \in Users, NEW i \in TxIds, NEW form \in Form, PostNew(u, i, form)
    PROVE  DeskInv'
<1>1. /\ rows' = [rows EXCEPT ![i] = NewRow(form)]
      /\ given' = [given EXCEPT ![i] = NewRow(form)]
      /\ DOMAIN rows = Ids /\ DOMAIN given = Ids /\ i \in Ids
    BY DEF PostNew, DeskInv, TypeOK, Ids
<1>2. NewRow(form) \in TxRow /\ Fits(NewRow(form)) /\ NewRow(form).currency = "COP"
    BY NewRowForm DEF PostNew
<1>3. page[u].was \in TxIds \cup {NoId}
    BY PageForm DEF PostNew, DeskInv
<1>4. /\ rows'[i] = NewRow(form) /\ given'[i] = NewRow(form)
      /\ \A j \in Ids \ {i} : rows'[j] = rows[j] /\ given'[j] = given[j]
    BY <1>1
<1>5. \A j \in TxIds : rows[j] \in TxRow => j # i
    BY Facts DEF PostNew
<1>6. TypeOK'
    <2>1. posts' \in 0 .. MaxPosts
        BY Facts DEF PostNew, Posts, DeskInv, TypeOK
    <2>2. /\ \A j \in TxIds : rows'[j] \in TxRow \cup {NoRow} /\ given'[j] \in TxRow \cup {NoRow}
          /\ \A b \in BudgetIds : /\ rows'[b] \in BudgetRow \cup {NoRow}
                                  /\ given'[b] \in BudgetRow \cup {NoRow}
        BY <1>2, <1>4, Facts DEF DeskInv, TypeOK, Ids
    <2>3. DOMAIN rows' = Ids /\ DOMAIN given' = Ids
        BY <1>1
    <2>4. page' \in [Users -> Page] /\ origin' \in [TxIds -> TxIds \cup {NoId}]
        BY <1>3, ListFits DEF PostNew, DeskInv, TypeOK
    <2>5. UNCHANGED <<call, hands>>
        BY DEF PostNew
    <2>6. QED BY <2>1, <2>2, <2>3, <2>4, <2>5 DEF DeskInv, TypeOK
<1>7. RowsFit'
    BY <1>2, <1>4, Facts DEF DeskInv, RowsFit, Ids
<1>8. OriginFits'
    <2>1. page[u].was # NoId => rows[page[u].was] \in TxRow /\ rows[page[u].was].deleted
        BY DEF PostNew, DeskInv, PageFits
    <2>2. \A j \in TxIds : origin'[j] = IF j = i THEN page[u].was ELSE origin[j]
        BY DEF PostNew, DeskInv, TypeOK
    <2>3. \A j \in TxIds : rows[j] \in TxRow => rows'[j] = rows[j]
        BY <1>4, <1>5 DEF Ids
    <2>4. \A j \in TxIds : origin[j] \in TxIds \cup {NoId}
        BY DEF DeskInv, TypeOK
    <2>5. QED BY <1>3, <2>1, <2>2, <2>3, <2>4 DEF DeskInv, OriginFits
<1>9. GivenValuesSurvive'
    BY <1>4 DEF PostNew, DeskInv, GivenValuesSurvive
<1>10. OnlyCorrectionsPassTheDoor'
    BY <1>2, <1>4 DEF PostNew, DeskInv, OnlyCorrectionsPassTheDoor, Live, Ids
<1>11. \A v \in Users : PageFits(page[v])'
    <2>1. \A v \in Users : PageFits(page'[v])
        BY ListFits DEF PostNew, DeskInv, TypeOK
    <2>2. \A v \in Users : page'[v] \in Page
        BY <1>6 DEF TypeOK
    <2>3. \A j \in TxIds : rows[j] \in TxRow => rows'[j] = rows[j]
        BY <1>4, <1>5 DEF Ids
    <2>4. ASSUME NEW v \in Users PROVE PageFits(page[v])'
        <3>1. /\ page'[v].on = "new" => page'[v].was \in TxIds \cup {NoId}
              /\ page'[v].on = "edit" => page'[v].id \in TxIds
            BY <2>2 DEF Page, List
        <3>2. QED BY <2>1, <2>3, <3>1 DEF PageFits, PostNew
    <2>5. QED BY <2>4
<1>12. \A a \in Actors : CallFits(call[a])'
    <2>1. ASSUME NEW a \in Actors, call[a] \in TxCalls PROVE rows'[call[a].id] = rows[call[a].id]
        <3>1. call[a].id \in TxIds
            BY <2>1 DEF TxCalls
        <3>2. QED BY <1>4, <1>5, <2>1, <3>1 DEF DeskInv, CallFits, Ids
    <2>2. QED BY <2>1 DEF PostNew, DeskInv, CallFits, Unmeant
<1>13. QED BY <1>6, <1>7, <1>8, <1>9, <1>10, <1>11, <1>12 DEF DeskInv

LEMMA WritesBudget ==
    ASSUME DeskInv, NEW b \in BudgetIds,
           DeleteBudget(b) \/ \E limit \in Limits : PostBudget(b, limit)
    PROVE  DeskInv'
<1>1. \A limit \in Limits : [limit |-> limit, active |-> TRUE] \in BudgetRow
    BY DEF BudgetRow
<1>2. \/ rows' = [rows EXCEPT ![b] = NoRow] /\ given' = given
      \/ \E row \in BudgetRow : /\ rows' = [rows EXCEPT ![b] = row]
                               /\ given' = [given EXCEPT ![b] = row]
    BY <1>1 DEF PostBudget, DeleteBudget
<1>3. /\ DOMAIN rows' = Ids /\ DOMAIN given' = Ids
      /\ \A j \in Ids \ {b} : rows'[j] = rows[j] /\ given'[j] = given[j]
      /\ \/ rows'[b] = NoRow /\ given'[b] = given[b]
         \/ rows'[b] \in BudgetRow /\ given'[b] = rows'[b]
    BY <1>2 DEF DeskInv, TypeOK, Ids
<1>4. \A i \in TxIds : rows'[i] = rows[i] /\ given'[i] = given[i]
    BY <1>3, Facts DEF Ids
<1>5. UNCHANGED <<page, call, blurred, hands, origin>> /\ posts' \in 0 .. MaxPosts
    BY Facts DEF PostBudget, DeleteBudget, Posts, DeskInv, TypeOK
<1>6. TypeOK'
    BY <1>3, <1>4, <1>5 DEF DeskInv, TypeOK, Ids
<1>7. RowsFit'
    BY <1>3, <1>4 DEF DeskInv, RowsFit, Ids
<1>8. OriginFits' /\ OnlyCorrectionsPassTheDoor'
    BY <1>4, <1>5 DEF DeskInv, TypeOK, OriginFits, OnlyCorrectionsPassTheDoor, Live
<1>9. GivenValuesSurvive'
    BY <1>3, <1>5 DEF DeskInv, GivenValuesSurvive
<1>10. \A v \in Users : PageFits(page[v])'
    BY <1>4, <1>5, PageForm DEF DeskInv, PageFits
<1>11. \A a \in Actors : CallFits(call[a])'
    <2>1. ASSUME NEW a \in Actors, call[a] \in TxCalls PROVE rows'[call[a].id] = rows[call[a].id]
        BY <1>4, <2>1 DEF TxCalls
    <2>2. QED BY <1>5, <2>1 DEF DeskInv, CallFits, Unmeant
<1>12. QED BY <1>6, <1>7, <1>8, <1>9, <1>10, <1>11 DEF DeskInv
----------------------------------------------------------------------------
(* Writes.                                                                       *)

(* What is written over a transaction: a row again, still deleted if it was, and *)
(* as given wherever nothing is blurred.                                         *)
LEMMA WrittenFits ==
    ASSUME DeskInv, NEW a \in Actors, NEW c \in TxCalls, c = call[a],
           rows[c.id] # NoRow, Writes(a)
    PROVE  /\ rows' = [rows EXCEPT ![c.id] = Written(rows[c.id], c.before, c.after)]
           /\ rows'[c.id] \in TxRow /\ given'[c.id] \in TxRow
           /\ given' = [given EXCEPT ![c.id] = given'[c.id]]
           /\ rows[c.id].deleted => rows'[c.id].deleted
           /\ blurred \subseteq blurred'
           /\ \A k \in TxColumns : <<c.id, k>> \notin blurred' => rows'[c.id][k] = given'[c.id][k]
<1>1. DEFINE i == c.id
             new == Written(rows[i], c.before, c.after)
             meant == [k \in c.means |-> c.after[k]]
             reposted == IF c.by = "form" THEN FormColumns \ c.means ELSE {}
<1>2. /\ i \in TxIds /\ c.before \in TxRow /\ c.after \in TxRow /\ c.asOf \in TxRow
      /\ c.means \subseteq TxColumns
    BY DEF TxCalls, FormColumns, TxColumns
<1>3. rows[i] \in TxRow /\ given[i] \in TxRow /\ i \in Ids /\ DOMAIN rows = Ids /\ DOMAIN given = Ids
    BY <1>2 DEF DeskInv, RowsFit, TypeOK, Ids
<1>4. /\ rows' = [rows EXCEPT ![i] = new]
      /\ given' = [given EXCEPT ![i] = Over(given[i], meant)]
      /\ blurred' = blurred
           \cup {<<i, k>> : k \in {k \in c.means : c.before[k] # rows[i][k]}}
           \cup {<<i, k>> : k \in {k \in reposted : given[i][k] # c.asOf[k]}}
    BY DEF Writes
<1>5. /\ new \in TxRow
      /\ \A k \in TxColumns : new[k] = IF c.before[k] # c.after[k] THEN c.after[k] ELSE rows[i][k]
    BY <1>2, <1>3, WrittenTx
<1>6. /\ Over(given[i], meant) \in TxRow
      /\ \A k \in TxColumns :
            Over(given[i], meant)[k] = IF k \in c.means THEN c.after[k] ELSE given[i][k]
    <2>1. /\ DOMAIN meant = c.means
          /\ \A k \in c.means : meant[k] = c.after[k]
        OBVIOUS
    <2>2. /\ c.after["type"] \in Types /\ c.after["category"] \in Categories
          /\ c.after["currency"] \in {"COP", "USD"} /\ c.after["deleted"] \in BOOLEAN
        BY <1>2, TxColumnsOf DEF TxRow
    <2>3. /\ "type" \in DOMAIN meant => meant["type"] \in Types
          /\ "category" \in DOMAIN meant => meant["category"] \in Categories
          /\ "currency" \in DOMAIN meant => meant["currency"] \in {"COP", "USD"}
          /\ "deleted" \in DOMAIN meant => meant["deleted"] \in BOOLEAN
        BY <2>1, <2>2
    <2>4. HIDE DEF meant
    <2>5. /\ Over(given[i], meant) \in TxRow
          /\ \A k \in TxColumns : Over(given[i], meant)[k]
                                = IF k \in DOMAIN meant THEN meant[k] ELSE given[i][k]
        BY <1>3, <2>3, OverTx
    <2>6. QED BY <2>1, <2>5
<1>7. rows'[i] = new /\ given'[i] = Over(given[i], meant)
    BY <1>3, <1>4
<1>8. rows[i].deleted => new.deleted
    <2>1. ~c.before.deleted
        BY DEF DeskInv, CallFits
    <2>2. new["deleted"] = IF c.before["deleted"] # c.after["deleted"]
                           THEN c.after["deleted"] ELSE rows[i]["deleted"]
        BY <1>5 DEF TxColumns
    <2>3. new.deleted = IF c.before.deleted # c.after.deleted THEN c.after.deleted ELSE rows[i].deleted
        BY <1>2, <1>3, <1>5, <2>2, TxColumnsOf
    <2>4. c.after.deleted \in BOOLEAN /\ c.before.deleted \in BOOLEAN
        BY <1>2 DEF TxRow
    <2>5. QED BY <2>1, <2>3, <2>4
<1>9. ASSUME NEW k \in TxColumns, <<i, k>> \notin blurred'
      PROVE  new[k] = Over(given[i], meant)[k]
    <2>1. <<i, k>> \notin blurred /\ rows[i][k] = given[i][k]
        <3>1. <<i, k>> \notin blurred
            BY <1>4, <1>9
        <3>2. k \in DOMAIN rows[i]
            BY <1>3, TxColumnsOf
        <3>3. QED BY <1>3, <3>1, <3>2, Facts DEF DeskInv, GivenValuesSurvive
    <2>2. CASE k \in c.means
        <3>1. c.before[k] = rows[i][k]
            BY <1>4, <1>9, <2>2
        <3>2. QED BY <1>5, <1>6, <2>2, <3>1
    <2>3. CASE k \notin c.means
        <3>1. Unmeant(c, k)
            BY <2>3 DEF DeskInv, CallFits
        <3>2. CASE c.by = "form" /\ k \in FormColumns
            <4>1. k \in reposted
                BY <2>3, <3>2
            <4>2. given[i][k] = c.asOf[k] /\ c.after[k] = c.asOf[k]
                BY <1>4, <1>9, <2>1, <3>1, <3>2, <4>1 DEF Unmeant
            <4>3. QED BY <1>5, <1>6, <2>1, <2>3, <4>2
        <3>3. CASE ~(c.by = "form" /\ k \in FormColumns)
            <4>1. c.after[k] = c.before[k]
                BY <3>1, <3>3 DEF Unmeant
            <4>2. QED BY <1>5, <1>6, <2>1, <2>3, <4>1
        <3>4. QED BY <3>2, <3>3
    <2>4. QED BY <2>2, <2>3
<1>10. QED BY <1>4, <1>5, <1>6, <1>7, <1>8, <1>9

(* The same of a budget, where nothing is posted back.                           *)
LEMMA WrittenBudgetFits ==
    ASSUME DeskInv, NEW a \in Actors, NEW c \in BudgetCalls, c = call[a],
           rows[c.id] # NoRow, Writes(a)
    PROVE  /\ rows' = [rows EXCEPT ![c.id] = Written(rows[c.id], c.before, c.after)]
           /\ rows'[c.id] \in BudgetRow /\ given'[c.id] \in BudgetRow
           /\ given' = [given EXCEPT ![c.id] = given'[c.id]]
           /\ blurred \subseteq blurred'
           /\ \A k \in BudgetColumns :
                 <<c.id, k>> \notin blurred' => rows'[c.id][k] = given'[c.id][k]
<1>1. DEFINE b == c.id
             new == Written(rows[b], c.before, c.after)
             meant == [k \in c.means |-> c.after[k]]
<1>2. /\ b \in BudgetIds /\ c.before \in BudgetRow /\ c.after \in BudgetRow /\ c.by # "form"
      /\ c.means \subseteq BudgetColumns
    BY DEF BudgetCalls, BudgetColumns
<1>3. rows[b] \in BudgetRow /\ given[b] \in BudgetRow /\ b \in Ids /\ DOMAIN rows = Ids /\ DOMAIN given = Ids
    BY <1>2 DEF DeskInv, RowsFit, TypeOK, Ids
<1>4. /\ rows' = [rows EXCEPT ![b] = new]
      /\ given' = [given EXCEPT ![b] = Over(given[b], meant)]
      /\ blurred \subseteq blurred'
      /\ {<<b, k>> : k \in {k \in c.means : c.before[k] # rows[b][k]}} \subseteq blurred'
    BY DEF Writes
<1>5. /\ new \in BudgetRow
      /\ \A k \in BudgetColumns :
            new[k] = IF c.before[k] # c.after[k] THEN c.after[k] ELSE rows[b][k]
    BY <1>2, <1>3, WrittenBudget
<1>6. /\ Over(given[b], meant) \in BudgetRow
      /\ \A k \in BudgetColumns :
            Over(given[b], meant)[k] = IF k \in c.means THEN c.after[k] ELSE given[b][k]
    <2>1. /\ DOMAIN meant = c.means
          /\ \A k \in c.means : meant[k] = c.after[k]
        OBVIOUS
    <2>2. c.after["limit"] \in Limits /\ c.after["active"] \in BOOLEAN
        BY <1>2, BudgetColumnsOf DEF BudgetRow
    <2>3. /\ "limit" \in DOMAIN meant => meant["limit"] \in Limits
          /\ "active" \in DOMAIN meant => meant["active"] \in BOOLEAN
        BY <2>1, <2>2
    <2>4. HIDE DEF meant
    <2>5. /\ Over(given[b], meant) \in BudgetRow
          /\ \A k \in BudgetColumns : Over(given[b], meant)[k]
                                = IF k \in DOMAIN meant THEN meant[k] ELSE given[b][k]
        BY <1>3, <2>3, OverBudget
    <2>6. QED BY <2>1, <2>5
<1>7. rows'[b] = new /\ given'[b] = Over(given[b], meant)
    BY <1>3, <1>4
<1>8. ASSUME NEW k \in BudgetColumns, <<b, k>> \notin blurred'
      PROVE  new[k] = Over(given[b], meant)[k]
    <2>1. rows[b][k] = given[b][k]
        <3>1. <<b, k>> \notin blurred /\ k \in DOMAIN rows[b]
            BY <1>3, <1>4, <1>8, BudgetColumnsOf
        <3>2. QED BY <1>3, <3>1, Facts DEF DeskInv, GivenValuesSurvive
    <2>2. CASE k \in c.means
        <3>1. c.before[k] = rows[b][k]
            BY <1>4, <1>8, <2>2
        <3>2. QED BY <1>5, <1>6, <2>2, <3>1
    <2>3. CASE k \notin c.means
        <3>1. c.after[k] = c.before[k]
            BY <2>3 DEF DeskInv, CallFits
        <3>2. QED BY <1>5, <1>6, <2>1, <2>3, <3>1
    <2>4. QED BY <2>2, <2>3
<1>9. QED BY <1>4, <1>5, <1>6, <1>7, <1>8

(* What the write of a transaction leaves in `hands`.                            *)
LEMMA HandsFit ==
    ASSUME DeskInv, NEW a \in Actors, NEW c \in TxCalls, c = call[a],
           rows[c.id] # NoRow, Writes(a)
    PROVE  /\ hands' = [hands EXCEPT ![c.id] = HandsAfter(c)]
           /\ HandsAfter(c) \subseteq {"form", "delete", "chat", "overlap"}
           /\ HandsAfter(c) # {}
           /\ ~rows'[c.id].deleted /\ ~Fits(rows'[c.id])
                => HandsAfter(c) \cap {"chat", "overlap"} # {}
<1>1. DEFINE i == c.id
<1>2. /\ i \in TxIds /\ c.before \in TxRow /\ c.after \in TxRow
      /\ c.by \in {"form", "delete", "chat"}
    BY DEF TxCalls
<1>3. rows[i] \in TxRow /\ hands[i] \subseteq {"form", "delete", "chat", "overlap"}
    BY <1>2 DEF DeskInv, RowsFit, TypeOK
<1>4. hands' = [hands EXCEPT ![i] = HandsAfter(c)]
    BY <1>2 DEF Writes
<1>5. HandsAfter(c) \subseteq {"form", "delete", "chat", "overlap"} /\ HandsAfter(c) # {}
    BY <1>2, <1>3 DEF HandsAfter
<1>6. ASSUME HandsAfter(c) \cap {"chat", "overlap"} = {}
      PROVE  rows'[i].deleted \/ Fits(rows'[i])
    <2>1. c.before = rows[i] /\ c.by \in {"form", "delete"}
        BY <1>2, <1>6 DEF HandsAfter
    <2>2. /\ rows'[i] = Written(rows[i], c.before, c.after)
          /\ rows'[i] \in TxRow
        BY WrittenFits, <1>2 DEF DeskInv, TypeOK, Ids
    <2>3. \A k \in TxColumns : rows'[i][k] = c.after[k]
        BY <1>2, <1>3, <2>1, <2>2, WrittenTx
    <2>4. /\ rows'[i].type = c.after.type /\ rows'[i].category = c.after.category
          /\ rows'[i].deleted = c.after.deleted
        BY <1>2, <2>2, <2>3, TxColumnsOf DEF TxColumns
    <2>5. (c.by = "form" => Fits(c.after)) /\ (c.by = "delete" => c.after.deleted)
        BY DEF DeskInv, CallFits
    <2>6. QED BY <2>1, <2>4, <2>5 DEF Fits
<1>7. QED BY <1>4, <1>5, <1>6

LEMMA WritesOverTx ==
    ASSUME DeskInv, NEW a \in Actors, NEW c \in TxCalls, c = call[a],
           rows[c.id] # NoRow, Writes(a)
    PROVE  DeskInv'
<1>1. DEFINE i == c.id
<1>2. /\ i \in TxIds /\ i \in Ids /\ DOMAIN rows = Ids /\ DOMAIN given = Ids
      /\ UNCHANGED <<page, posts, origin>> /\ call' = [call EXCEPT ![a] = Idle]
    BY DEF TxCalls, DeskInv, TypeOK, Ids, Writes
<1>3. /\ rows'[i] \in TxRow /\ given'[i] \in TxRow
      /\ DOMAIN rows' = Ids /\ DOMAIN given' = Ids
      /\ \A j \in Ids \ {i} : rows'[j] = rows[j] /\ given'[j] = given[j]
      /\ rows[i].deleted => rows'[i].deleted
      /\ blurred \subseteq blurred'
      /\ \A k \in TxColumns : <<i, k>> \notin blurred' => rows'[i][k] = given'[i][k]
    BY <1>2, WrittenFits
<1>4. TypeOK'
    <2>1. /\ \A j \in TxIds : rows'[j] \in TxRow \cup {NoRow} /\ given'[j] \in TxRow \cup {NoRow}
          /\ \A b \in BudgetIds : /\ rows'[b] \in BudgetRow \cup {NoRow}
                                  /\ given'[b] \in BudgetRow \cup {NoRow}
        BY <1>2, <1>3, Facts DEF DeskInv, TypeOK, Ids
    <2>2. call' \in [Actors -> Call]
        BY <1>2 DEF DeskInv, TypeOK, Call
    <2>3. hands' \in [TxIds -> SUBSET {"form", "delete", "chat", "overlap"}]
        BY <1>2, HandsFit DEF DeskInv, TypeOK
    <2>4. QED BY <1>2, <1>3, <2>1, <2>2, <2>3 DEF DeskInv, TypeOK
<1>5. RowsFit'
    BY <1>3, <1>2, Facts DEF DeskInv, RowsFit, Ids
<1>6. \A j \in TxIds : rows[j] \in TxRow =>
         rows'[j] \in TxRow /\ (rows[j].deleted => rows'[j].deleted)
    BY <1>3 DEF Ids
<1>7. OriginFits'
    BY <1>2, <1>6 DEF DeskInv, TypeOK, OriginFits
<1>8. GivenValuesSurvive'
    <2>1. ASSUME NEW j \in Ids, rows'[j] # NoRow, NEW k \in DOMAIN rows'[j], <<j, k>> \notin blurred'
          PROVE  rows'[j][k] = given'[j][k]
        <3>1. CASE j = i
            BY <1>3, <2>1, <3>1, TxColumnsOf
        <3>2. CASE j # i
            BY <1>3, <2>1, <3>2 DEF DeskInv, GivenValuesSurvive
        <3>3. QED BY <3>1, <3>2
    <2>2. QED BY <2>1 DEF GivenValuesSurvive
<1>9. OnlyCorrectionsPassTheDoor'
    <2>1. ASSUME NEW j \in TxIds, Live(j)'
          PROVE  /\ ~Fits(rows'[j]) => hands'[j] \cap {"chat", "overlap"} # {}
                 /\ rows'[j].currency = "USD" => hands'[j] # {}
        <3>1. CASE j = i
            <4>1. hands'[i] = HandsAfter(c)
                BY <1>2, HandsFit DEF DeskInv, TypeOK
            <4>2. QED BY <2>1, <3>1, <4>1, HandsFit DEF Live
        <3>2. CASE j # i
            <4>1. hands'[j] = hands[j] /\ rows'[j] = rows[j]
                BY <1>2, <1>3, <3>2, HandsFit DEF DeskInv, TypeOK, Ids
            <4>2. QED BY <2>1, <4>1 DEF Live, DeskInv, OnlyCorrectionsPassTheDoor
        <3>3. QED BY <3>1, <3>2
    <2>2. QED BY <2>1 DEF OnlyCorrectionsPassTheDoor, Fits
<1>10. \A v \in Users : PageFits(page[v])'
    BY <1>2, <1>3, <1>6, PageForm DEF DeskInv, PageFits
<1>11. \A d \in Actors : CallFits(call[d])'
    <2>1. ASSUME NEW d \in Actors, call'[d] = call[d] PROVE CallFits(call[d])'
        <3>1. call[d] \in TxCalls => call[d].id \in TxIds
            BY DEF TxCalls
        <3>2. QED BY <1>3, <1>6, <2>1, <3>1 DEF DeskInv, CallFits, Unmeant
    <2>2. \A d \in Actors : call'[d] = IF d = a THEN Idle ELSE call[d]
        BY <1>2 DEF DeskInv, TypeOK
    <2>3. CallFits(call[a])'
        BY <2>2 DEF CallFits, Idle, TxCalls, BudgetCalls
    <2>4. QED BY <2>1, <2>2, <2>3
<1>12. QED BY <1>4, <1>5, <1>7, <1>8, <1>9, <1>10, <1>11 DEF DeskInv

LEMMA WritesOverBudget ==
    ASSUME DeskInv, NEW a \in Actors, NEW c \in BudgetCalls, c = call[a],
           rows[c.id] # NoRow, Writes(a)
    PROVE  DeskInv'
<1>1. DEFINE b == c.id
<1>2. /\ b \in BudgetIds /\ b \in Ids /\ b \notin TxIds /\ DOMAIN rows = Ids /\ DOMAIN given = Ids
      /\ UNCHANGED <<page, posts, origin, hands>> /\ call' = [call EXCEPT ![a] = Idle]
    BY Facts DEF BudgetCalls, DeskInv, TypeOK, Ids, Writes
<1>3. /\ rows'[b] \in BudgetRow /\ given'[b] \in BudgetRow
      /\ DOMAIN rows' = Ids /\ DOMAIN given' = Ids
      /\ \A j \in Ids \ {b} : rows'[j] = rows[j] /\ given'[j] = given[j]
      /\ blurred \subseteq blurred'
      /\ \A k \in BudgetColumns : <<b, k>> \notin blurred' => rows'[b][k] = given'[b][k]
    BY <1>2, WrittenBudgetFits
<1>4. \A j \in TxIds : rows'[j] = rows[j] /\ given'[j] = given[j]
    BY <1>2, <1>3 DEF Ids
<1>5. TypeOK'
    <2>1. call' \in [Actors -> Call]
        BY <1>2 DEF DeskInv, TypeOK, Call
    <2>2. QED BY <1>2, <1>3, <1>4, <2>1 DEF DeskInv, TypeOK, Ids
<1>6. RowsFit'
    BY <1>3, <1>4 DEF DeskInv, RowsFit, Ids
<1>7. OriginFits' /\ OnlyCorrectionsPassTheDoor'
    BY <1>2, <1>4 DEF DeskInv, TypeOK, OriginFits, OnlyCorrectionsPassTheDoor, Live
<1>8. GivenValuesSurvive'
    <2>1. ASSUME NEW j \in Ids, rows'[j] # NoRow, NEW k \in DOMAIN rows'[j], <<j, k>> \notin blurred'
          PROVE  rows'[j][k] = given'[j][k]
        <3>1. CASE j = b
            BY <1>3, <2>1, <3>1, BudgetColumnsOf
        <3>2. CASE j # b
            BY <1>3, <2>1, <3>2 DEF DeskInv, GivenValuesSurvive
        <3>3. QED BY <3>1, <3>2
    <2>2. QED BY <2>1 DEF GivenValuesSurvive
<1>9. \A v \in Users : PageFits(page[v])'
    BY <1>2, <1>3, <1>4, PageForm DEF DeskInv, PageFits
<1>10. \A d \in Actors : CallFits(call[d])'
    <2>1. ASSUME NEW d \in Actors, call'[d] = call[d] PROVE CallFits(call[d])'
        <3>1. call[d] \in TxCalls => call[d].id \in TxIds
            BY DEF TxCalls
        <3>2. QED BY <1>3, <1>4, <2>1, <3>1 DEF DeskInv, CallFits, Unmeant
    <2>2. \A d \in Actors : call'[d] = IF d = a THEN Idle ELSE call[d]
        BY <1>2 DEF DeskInv, TypeOK
    <2>3. CallFits(call[a])'
        BY <2>2 DEF CallFits, Idle, TxCalls, BudgetCalls
    <2>4. QED BY <2>1, <2>2, <2>3
<1>11. QED BY <1>5, <1>6, <1>7, <1>8, <1>9, <1>10 DEF DeskInv

LEMMA WritesStep == ASSUME DeskInv, NEW a \in Actors, Writes(a) PROVE DeskInv'
<1>1. call[a] \in TxCalls \/ call[a] \in BudgetCalls
    BY CallForm DEF Writes, DeskInv
<1>2. CASE rows[call[a].id] = NoRow
    <2>1. Idle \in Call /\ CallFits(Idle)
        BY IdleFits DEF Call
    <2>2. posts' \in 0 .. MaxPosts
        BY DEF Writes, DeskInv, TypeOK
    <2>3. UNCHANGED <<rows, given, blurred, hands, origin, page>> /\ call' = [call EXCEPT ![a] = Idle]
        BY <1>2 DEF Writes
    <2>4. QED BY <2>1, <2>2, <2>3, Called
<1>3. CASE rows[call[a].id] # NoRow
    BY <1>1, <1>3, WritesOverTx, WritesOverBudget
<1>4. QED BY <1>2, <1>3
----------------------------------------------------------------------------
LEMMA DeskStep == ASSUME DeskInv, [Next]_vars PROVE DeskInv'
<1>1. CASE UNCHANGED vars
    BY <1>1 DEF vars, DeskInv, TypeOK, RowsFit, OriginFits, GivenValuesSurvive,
                OnlyCorrectionsPassTheDoor, Live, PageFits, CallFits, Unmeant
<1>2. ASSUME NEW u \in Users, UserStep(u) PROVE DeskInv'
    BY <1>2, PageSteps, ReadsOfDelete, ReadsOfEdit, RecordsNew, ReadsOfBudget DEF UserStep
<1>3. CASE Next
    BY <1>2, <1>3, ReadsOfCorrect, WritesBudget, WritesStep, ReadsFail DEF Next
<1>4. QED BY <1>1, <1>3

LEMMA DeskAlways == Spec => []DeskInv
BY Init0, DeskStep, PTL DEF Spec

(* Types, for any constants that meet the assumptions.                           *)
THEOREM TypeCorrect == Spec => []TypeOK
<1>1. DeskInv => TypeOK
    BY DEF DeskInv
<1>2. QED BY <1>1, DeskAlways, PTL

(* For any number of people and agents: what is posted, toggled or corrected      *)
(* beside it leaves a value as it was given, but for old pages and overlaps.      *)
THEOREM GivenValuesKept == Spec => []GivenValuesSurvive
<1>1. DeskInv => GivenValuesSurvive
    BY DEF DeskInv
<1>2. QED BY <1>1, DeskAlways, PTL

(* Only the agent's corrections, and overlaps, get past the validation.          *)
THEOREM DoorHolds == Spec => []OnlyCorrectionsPassTheDoor
<1>1. DeskInv => OnlyCorrectionsPassTheDoor
    BY DEF DeskInv
<1>2. QED BY <1>1, DeskAlways, PTL

(* A page opened for a transaction records another only after it was deleted.    *)
THEOREM NoSecondTransaction == Spec => []EditsNeverDuplicate
<1>1. DeskInv => EditsNeverDuplicate
    BY DEF DeskInv, OriginFits, EditsNeverDuplicate
<1>2. QED BY <1>1, DeskAlways, PTL
=============================================================================
