---------------------------- MODULE StockReports ----------------------------
(***************************************************************************)
(* What the reports say of the stocked tags, read off the tables of        *)
(* EpcStock: the inbound and the outbound report of a day, the older       *)
(* inbound report, and the stock of a month.                               *)
(*                                                                         *)
(* A row here is one that a report does not filter out for its station,    *)
(* its date, the prefix of its tag or its order.  No row has an            *)
(* mo_no_actual: nothing in this program writes it.                        *)
(***************************************************************************)
EXTENDS EpcStock

\* rfid_status: "A" inbound, "B" outbound.
Statuses == {"A", "B"}

CONSTANTS
  Line,    \* what a report groups by within an order and a day
  Columns  \* what rows may hold in the columns that no step reads

\* The status is the request's, and so is the department of a line; its
\* station is the document's; its material and style are those of the tag in
\* dv_rfidmatchmst_cust: several, when it has several rows there.
ASSUME ReportsAssumption ==
  /\ IsFiniteSet(Epc)
  /\ Columns \subseteq [status : [Request -> Statuses],
                       lines  : [Epc \X Request -> (SUBSET Line) \ {{}}]]

OrderOf(row) == order[row[2]]
Tags(R)      == {row[1] : row \in R}

\* Mutant: the report reads the current table only.
CurrentOnly == inv

\* datalist, the UNION ALL of the current rows and of those moved away.
Datalist == inv \cup archive

\* The tags that count on a line of an order, in the inbound report (A) or in
\* the outbound one (B).
Counted(c, o, s, l) ==
  Tags({row \in Datalist : OrderOf(row) = o /\ c.status[row[2]] = s /\ l \in c.lines[row]})

InboundQty(c, o, l)  == Cardinality(Counted(c, o, "A", l))
OutboundQty(c, o, l) == Cardinality(Counted(c, o, "B", l))

\* GROUP BY: an order has a line for each group that has rows.
Report(c, s) ==
  {[order |-> g[1], line |-> g[2], qty |-> Cardinality(Counted(c, g[1], s, g[2]))] :
     g \in {h \in Order \X Line : Counted(c, h[1], s, h[2]) # {}}}
InboundReport(c)  == Report(c, "A")
OutboundReport(c) == Report(c, "B")

\* getDailyInboundReport and findByMonth read the current table, and rows of
\* both kinds, and count all tags of an order: the lines of a month that an
\* order has for its details in the ERP show the same quantity.
Current          == [o \in Order |-> Cardinality(Tags({row \in inv : OrderOf(row) = o}))]
PerOrder         == {[order |-> o, qty |-> Current[o]] : o \in {p \in Order : Current[p] > 0}}
DailyInbound     == PerOrder
MonthlyInventory == PerOrder

-----------------------------------------------------------------------------
(* What holds.                                                             *)

\* The tags that requests of R with a status have read for a line of an order.
Read(c, R, o, s, l) ==
  {e \in Epc : \E r \in R :
     order[r] = o /\ c.status[r] = s /\ e \in payload[r] /\ l \in c.lines[<<e, r>>]}

Started    == {r \in Request : pc[r] # "idle"}
Acked      == {r \in Request : pc[r] = "ok"}
Foreign(e) == \E q \in Request \ Acked : <<e, q>> \in Datalist

Between(qty, c, o, s, l) ==
  /\ qty >= Cardinality({e \in Read(c, Acked, o, s, l) : ~Foreign(e)})
  /\ qty <= Cardinality(Read(c, Started, o, s, l))

\* Two requests recorded the tag: they overlapped, or one came after the row
\* of the other had been archived.
Together(e, r, q) == q \in overlapped[r] \/ {<<e, r>>, <<e, q>>} \cap archive # {}

CountedTwice(c, o, s, l, k) == Counted(c, o, s, l) \cap Counted(c, o, s, k)
Explained(c, e, l, k) ==
  \E r, q \in Request :
    /\ <<e, r>> \in Datalist /\ l \in c.lines[<<e, r>>]
    /\ <<e, q>> \in Datalist /\ k \in c.lines[<<e, q>>]
    /\ r = q \/ Together(e, r, q)

\* Whatever the rows hold, what a report counts on a line is at least what
\* was acknowledged for it, tags that an unanswered or refused request had
\* recorded before apart, and at most what requests for it have read,
\* although a tag may have several rows, here and in the archive.  A tag adds
\* to two lines of an order only if its row is on both (the tag is registered
\* twice), or if two requests recorded it together.
ReportedQuantity ==
  \A c \in Columns, o \in Order, l \in Line :
    /\ Between(InboundQty(c, o, l), c, o, "A", l)
    /\ Between(OutboundQty(c, o, l), c, o, "B", l)
    /\ \A s \in Statuses, k \in Line :
         \A e \in CountedTwice(c, o, s, l, k) : Explained(c, e, l, k)

\* What a report has counted it goes on counting: neither a later request
\* nor the archiving of the rows takes a tag off its lines (a change of its
\* style in dv_rfidmatchmst_cust moves it to another one; no step here does).
ReportsNeverShrink ==
  [][\A c \in Columns, o \in Order, s \in Statuses, l \in Line :
       Counted(c, o, s, l) \subseteq Counted(c, o, s, l)']_vars
=============================================================================
