----------------------------- MODULE PosLoader ------------------------------
(***************************************************************************)
(* load_pos (pipeline/pos_loader.py) as a client of POST /pos/load: it     *)
(* reads a CSV file, keeps the first row of every transaction and posts    *)
(* the rows in slices, each once.  A slice may fail, be refused, or be     *)
(* given up after 30 seconds while the API goes on with it.                *)
(***************************************************************************)
EXTENDS Api

CONSTANTS
    Loaders,        \* runs of load_pos
    Files,          \* the CSV files there may be
    Slice,          \* 500
    MaxSlices       \* bound on the slices of a file

\* A row that does not parse has no transaction of interest; one may parse and
\* still be refused by the API, for a negative basket_value.
CsvRow == [txn : Transactions, parses : BOOLEAN, payable : BOOLEAN]

ASSUME LoaderAssumption ==
    /\ IsFiniteSet(Loaders)
    /\ Loads = Loaders \X (1..MaxSlices)
    /\ Files \subseteq Seq(CsvRow)
    /\ Slice \in Nat \ {0}
    /\ MaxSlices \in Nat

VARIABLES
    loader,         \* where each run is
    rows,           \* its rows
    slice,          \* the slice it is at
    tally           \* what it returns

loaderVars == <<loader, rows, slice, tally>>

LoaderStates == {"off", "ready", "waiting", "done"}
Tally == [parsed : Nat, skipped : Nat, duplicates : Nat, loaded : Nat]
NoTally == [parsed |-> 0, skipped |-> 0, duplicates |-> 0, loaded |-> 0]

LoadersInit ==
    /\ loader = [p \in Loaders |-> "off"]
    /\ rows = [p \in Loaders |-> << >>]
    /\ slice = [p \in Loaders |-> 1]
    /\ tally = [p \in Loaders |-> NoTally]

-----------------------------------------------------------------------------
\* parse_pos_row makes nothing of some rows; of the others, the first of each id
\* counts.
Parsing(file) == {i \in DOMAIN file : file[i].parses}

FirstRows(file) ==
    {i \in Parsing(file) : \A j \in Parsing(file) : j < i => file[j].txn # file[i].txn}

\* The number with k - 1 lower ones in a set.
Nth(S, k) == CHOOSE i \in S : Cardinality({j \in S : j <= i}) = k

RowsOf(file) ==
    [k \in 1..Cardinality(FirstRows(file)) |-> file[Nth(FirstRows(file), k)]]

\* rows[i:i + 500]
SliceOf(rs, k) ==
    LET from == (k - 1) * Slice IN
    SubSeq(rs, from + 1, IF from + Slice < Len(rs) THEN from + Slice ELSE Len(rs))

Posted(rs) == [i \in DOMAIN rs |-> rs[i].txn]

\* There is a load for every slice, and what is posted is something to post.
ASSUME SlicesAssumption ==
    \A f \in Files :
        /\ Len(RowsOf(f)) <= Slice * MaxSlices
        /\ \A k \in 1..MaxSlices : Posted(SliceOf(RowsOf(f), k)) \in Payloads

\* Mutant: slices are counted from zero.
SliceAtZero(p) ==
    LET from == slice[p] * Slice IN
    SubSeq(rows[p], from + 1, IF from + Slice < Len(rows[p]) THEN from + Slice ELSE Len(rows[p]))

SliceAt(p) == SliceOf(rows[p], slice[p])

LoadOf(p) == <<p, slice[p]>>

\* A file that is not there is read like an empty one.
ReadCsv(p, file) ==
    /\ loader[p] = "off"
    /\ loader' = [loader EXCEPT ![p] = "ready"]
    /\ rows' = [rows EXCEPT ![p] = RowsOf(file)]
    /\ tally' = [tally EXCEPT ![p] =
         [parsed |-> Len(RowsOf(file)),
          skipped |-> Len(file) - Cardinality(Parsing(file)),
          duplicates |-> Cardinality(Parsing(file) \ FirstRows(file)), loaded |-> 0]]
    /\ UNCHANGED <<slice, apiVars>>

\* The API refuses the whole slice for one row that it does not like.
PostSlice(p) ==
    /\ loader[p] = "ready"
    /\ SliceAt(p) # << >>
    /\ loader' = [loader EXCEPT ![p] = "waiting"]
    /\ IF \A i \in DOMAIN SliceAt(p) : SliceAt(p)[i].payable
       THEN ReceiveLoad(LoadOf(p), Posted(SliceAt(p)))
       ELSE LoadNothing(LoadOf(p))
    /\ UNCHANGED <<rows, slice, tally, ingestionVars, now>>

NextSlice(p) ==
    /\ loader' = [loader EXCEPT ![p] = "ready"]
    /\ slice' = [slice EXCEPT ![p] = @ + 1]
    /\ UNCHANGED <<rows, apiVars>>

\* The request did not get through.
SliceLost(p) ==
    /\ loader[p] = "ready"
    /\ SliceAt(p) # << >>
    /\ NextSlice(p)
    /\ UNCHANGED tally

\* Mutant: what is posted counts as loaded.
SliceAnsweredAsPosted(p) ==
    /\ loader[p] = "waiting"
    /\ lpc[LoadOf(p)] = "done"
    /\ NextSlice(p)
    /\ tally' = [tally EXCEPT ![p].loaded =
         @ + (IF loadAnswer[LoadOf(p)] = ServerError THEN 0 ELSE Len(SliceAt(p)))]

SliceAnswered(p) ==
    LET reply == loadAnswer[LoadOf(p)] IN
    /\ loader[p] = "waiting"
    /\ lpc[LoadOf(p)] = "done"
    /\ NextSlice(p)
    /\ tally' = [tally EXCEPT ![p].loaded = @ + (IF reply = ServerError THEN 0 ELSE reply.loaded)]

\* A timeout, or a response that is not the expected JSON.
SliceGivenUp(p) ==
    /\ loader[p] = "waiting"
    /\ NextSlice(p)
    /\ UNCHANGED tally

LoaderReturns(p) ==
    /\ loader[p] = "ready"
    /\ SliceAt(p) = << >>
    /\ loader' = [loader EXCEPT ![p] = "done"]
    /\ UNCHANGED <<rows, slice, tally, apiVars>>

LoaderStep(p) ==
    \/ \E file \in Files : ReadCsv(p, file)
    \/ PostSlice(p)
    \/ SliceLost(p)
    \/ SliceAnswered(p)
    \/ SliceGivenUp(p)
    \/ LoaderReturns(p)

=============================================================================
