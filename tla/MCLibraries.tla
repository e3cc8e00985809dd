------------------------------ MODULE MCLibraries ------------------------------
(***************************************************************************)
(* The packages that keep little or no state, in one run: the rate         *)
(* limiter, the key ring and the HTTP client step through their actions,   *)
(* and so do the algorithms that page, schedule and evaluate, on every     *)
(* case of a bounded set.  They share nothing, so each behaviour is about  *)
(* one subject.                                                            *)
(***************************************************************************)
EXTENDS MemoryLimiter, KeyRing, SafeClient, Expression, Pagination, Scheduling, TLC

VARIABLE subject

Symmetry == Permutations(Caller)

Answers1 == {{}, Public, Addresses \ Loopback, Loopback}
-----------------------------------------------------------------------------
(* Decimals: ties, carries and overflows at precisions of one and two      *)
(* digits, an operand with an exponent, and scales the conversion to int32 *)
(* wraps around.                                                           *)
Calculations1 ==
  [x : {Number(n, p) : n \in {-100, -99, -95, -25, -15, -14, -6, -5, -4, -1, 0,
                              1, 3, 5, 6, 10, 15, 25, 95, 99}, p \in 0..1}
         \cup {Number(3, -1)},
   y : {Number(n, p) : n \in {-100, -15, -4, 0, 2, 3, 25, 95}, p \in 0..1},
   raw : [precision : 0..2, scale : {0, 1, 17, -1},
          mode : RoundingModes \cup {"nearest"}]]

(* Expressions: all operations over leaves of every kind, with nulls and   *)
(* bad references among them, and all operations over accepted ones.       *)
ReferenceTypes ==
  [flag |-> Plain("boolean"), price |-> Plain("decimal"),
   due |-> Plain("date"), tags |-> Type("list", "text"),
   count |-> Plain("integer"), note |-> Plain("text")]

AnyText == {"text", "relation"}

SourceValues ==
  [flag |-> Scalar({"boolean"}, 1, 0),
   price |-> Scalar({"integer", "decimal"} \cup AnyText, 5, 0),
   due |-> Instant(30),
   tags |-> List(<<Scalar(AnyText, 1, 0)>>),
   count |-> Nil,
   note |-> Scalar({"integer"}, 1, 0)]

Ninety == Literal(Plain("duration"), Scalar({"duration"} \cup AnyText, 90, 0))
NoFlag == Literal(Plain("boolean"), Nil)
Flag   == Reference("flag", TRUE, FALSE, "boolean")

Leaves ==
  {NoFlag, Flag, Ninety,
   Literal(Plain("boolean"), Scalar({"boolean"}, 0, 0)),
   Literal(Plain("integer"), Scalar({"integer"}, 3, 0)),
   Literal(Plain("integer"), Scalar({"integer", "decimal"} \cup AnyText, 7, 0)),
   Literal(Plain("decimal"), Scalar({"decimal"} \cup AnyText, 999, 1)),
   Literal(Plain("decimal"), Scalar({"decimal"} \cup AnyText, 9999, 1)),
   Literal(Plain("decimal"), Scalar({"decimal"} \cup AnyText, 0, 0)),
   Literal(Plain("date"), Scalar({"date"} \cup AnyText, 48, 0)),
   Literal(Plain("datetime"), Scalar({"datetime"} \cup AnyText, 50, 0)),
   Literal(Plain("text"), Scalar(AnyText, 9000, 0)),
   Literal(Type("list", "text"), List(<<Scalar(AnyText, 9000, 0), Nil>>)),
   Reference("flag", TRUE, TRUE, "boolean"),
   Reference("price", TRUE, FALSE, "decimal"),
   Reference("price", TRUE, FALSE, ""),
   Reference("due", TRUE, FALSE, "date"),
   Reference("tags", TRUE, FALSE, "list"),
   Reference("count", TRUE, FALSE, "integer"),
   Reference("note", TRUE, FALSE, "text"),
   Reference("gone", TRUE, FALSE, "text")}

\* Leaves that are refused whatever is around them.
Refused ==
  {Literal(Type("list", "list"), List(<<>>)), Literal(Plain("money"), Nil),
   Literal(Plain("text"), Scalar({"integer"}, 1, 0)),
   Literal(Plain("date"), Instant(30)),
   Reference("flag", FALSE, FALSE, ""), Reference("flag", TRUE, FALSE, "text"),
   [kind |-> "macro"]}

\* Operations over expressions of a set of node sequences: the nodes of the
\* arguments, one after the other, and the operation.
Moved(nodes, by) ==
  [i \in DOMAIN nodes |->
     IF nodes[i].kind # "operation" THEN nodes[i]
     ELSE Operation(nodes[i].operator,
                    [j \in DOMAIN nodes[i].arguments |->
                       nodes[i].arguments[j] + by])]

Over(S) ==
  {<<Operation(op, <<>>)>> : op \in Operators \cup {"xor"}}
    \cup {Append(a, Operation(op, <<Len(a)>>)) : op \in Operators, a \in S}
    \cup {a \o Append(Moved(b, Len(a)), Operation(op, <<Len(a), Len(a) + Len(b)>>)) :
            op \in Operators, a \in S, b \in S}

Simple == {<<leaf>> : leaf \in Leaves}

\* An operation over leaves is accepted.
Accepts(nodes) ==
  LET last == nodes[Len(nodes)]
      leaves == [i \in 1..(Len(nodes) - 1) |->
                   expressionValidateAt(nodes[i], <<>>, ReferenceTypes)]
  IN  /\ \A i \in DOMAIN leaves : ~Failed(leaves[i])
      /\ ~Failed(expressionValidateAt(last,
                   [i \in DOMAIN leaves |-> leaves[i].value], ReferenceTypes))

\* An accepted operation for each operator.
Chosen ==
  LET accepted == {nodes \in Over(Simple) : Accepts(nodes)} IN
  {CHOOSE nodes \in accepted : nodes[Len(nodes)].operator = op : op \in Operators}

Expressions1 ==
  [nodes : Simple \cup {<<leaf>> : leaf \in Refused} \cup Over(Simple)
             \cup Over(Chosen \cup {<<NoFlag>>, <<Flag>>}),
   types : {ReferenceTypes}, sources : {SourceValues}, clock : {60}]

(* Pages over up to five items, with and without defaults and maxima.      *)
Walks1 ==
  [kind : {"numbered", "cursor"},
   items : {[i \in 1..count |-> i] : count \in 0..5}, requested : -1..6,
   options : [default : {0, 2}, maximum : {0, 3}]]

(* Up to four items of two tenants, one of them blank, in three classes,   *)
(* one of which is not listed; quotas below, at and above the limit.       *)
Identified(items) ==
  [i \in DOMAIN items |->
     [id |-> i, key |-> items[i].key, class |-> items[i].class]]

Calls1 ==
  LET of(items, limits) ==
        [items : {Identified(i) : i \in items}, limit : limits,
         order : {<<"new", "retry">>, <<"retry">>},
         quotas : {[new |-> 1, retry |-> 2], [new |-> -1, retry |-> 5],
                   [retry |-> 1]}]
      item(classes) == [key : {"", "hot"}, class : classes]
  IN  of(UNION {[1..n -> item({"new", "retry", "own"})] : n \in 0..3}, {0, 1, 5})
        \cup of([1..4 -> item({"new", "own"})], {3})

(* Delays at the width of a duration.                                      *)
Policies1 ==
  [baseDelay : {-1, 0, 1, 3, DurationMax},
   maxDelay : {0, 1, 4, DurationMax - 1, DurationMax},
   backoff : {"fixed", "exponential"}, jitterMax : {0}, maxAttempts : {8}]
-----------------------------------------------------------------------------
\* The key ring while another subject runs.
RingAtRest ==
  /\ activeID = CHOOSE id \in KeyIds : TRUE
  /\ keys = [id \in KeyIds |-> NoKey]
  /\ inHand = [e \in Encryptors |-> {}] /\ envelopes = {} /\ reused = {}

\* The machines that are not the subject stand still.
IdleWalk == CHOOSE w \in Walks : TRUE
IdleCall == CHOOSE c \in Calls : TRUE
IdlePolicy == CHOOSE p \in Policies : TRUE
WalkAtRest ==
  /\ expression =
       [nodes |-> <<NoFlag>>, types |-> <<>>, sources |-> <<>>, clock |-> 0]
  /\ typed = <<>> /\ evaluated = <<>> /\ diagnostic = "ok"
IdleCalculation == CHOOSE c \in Calculations : TRUE

LibrariesInit ==
  /\ subject \in {"limiter", "keys", "client", "pages", "schedule", "backoff",
                  "decimal", "expression"}
  /\ LimiterInit
  /\ IF subject = "keys" THEN KeyRingInit ELSE RingAtRest
  /\ ClientInit
  /\ subject # "client" => ~allowLiteralLoopback
  /\ IF subject = "pages" THEN TRUE ELSE walk = IdleWalk
  /\ IF subject = "schedule" THEN TRUE ELSE call = IdleCall
  /\ IF subject = "backoff" THEN TRUE ELSE policy = IdlePolicy
  /\ IF subject = "decimal" THEN TRUE ELSE calculation = IdleCalculation
  /\ IF subject = "expression" THEN ExpressionInit ELSE WalkAtRest
  /\ PageInit /\ FairInit /\ RetryInit /\ DecimalInit

\* The step of one machine, and a machine that has nothing left to do.
LibrariesNext ==
  /\ UNCHANGED <<subject, calculation>>
  /\ IF subject = "limiter" THEN LimiterNext ELSE UNCHANGED limiterVars
  /\ IF subject = "keys" THEN KeyRingNext ELSE UNCHANGED ringVars
  /\ IF subject = "client" THEN ClientNext ELSE UNCHANGED clientVars
  /\ IF subject = "pages" /\ more /\ Fits THEN FetchPage ELSE UNCHANGED pageVars
  /\ IF subject = "schedule" /\ ~returned THEN FairNext ELSE UNCHANGED fairVars
  /\ IF subject = "backoff" /\ Allows THEN TryAgain ELSE UNCHANGED retryVars
  /\ IF subject = "expression" /\ diagnostic = "ok" /\ ~Evaluated THEN ExpressionNext
     ELSE UNCHANGED expressionVars

LibrariesSpec ==
  LibrariesInit
    /\ [][LibrariesNext]_<<subject, calculation, limiterVars, ringVars, clientVars,
                           pageVars, fairVars, retryVars, expressionVars>>
=============================================================================
