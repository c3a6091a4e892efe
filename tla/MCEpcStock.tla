----------------------------- MODULE MCEpcStock -----------------------------
(* EpcStock and StockReports for TLC: requests, tags and orders are        *)
(* interchangeable.                                                        *)
EXTENDS StockReports, TLC

\* Every status of the requests and every lines of the rows, up to the names
\* of requests, lines and the two statuses.
ColumnsUpToNames ==
  LET first == CHOOSE r \in Request : TRUE
      line  == CHOOSE l \in Line : TRUE
  IN  {c \in [status : [Request -> Statuses], lines : [Epc \X Request -> (SUBSET Line) \ {{}}]] :
         c.status[first] = "A" /\ \A e \in Epc : line \in c.lines[<<e, first>>]}

Symmetry == Permutations(Epc) \cup Permutations(Order) \cup Permutations(Request)
=============================================================================
