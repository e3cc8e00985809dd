------------------------------ MODULE Expression ------------------------------
(***************************************************************************)
(* Business expressions (expression/contract): ExpressionValidate decides  *)
(* when an expression is saved, ExpressionEvaluate runs it later on data.  *)
(* Both walk the same tree and type operations with the same table, but    *)
(* learn the types of literals and references in different ways.           *)
(*                                                                         *)
(* An expression is the sequence of its nodes in the order in which both   *)
(* walks are done with them: an operation after its arguments, which it    *)
(* names by their places, and the root last.  Each walk ends at the first  *)
(* node that fails, so a step of a walk is one node.                       *)
(*                                                                         *)
(* A value, as JSON or the caller gives it, is a record of the kinds that  *)
(* read its text and what it stands for: an integer, or a decimal for the  *)
(* numeric kinds; a list holds its items.  Nil is the JSON null; a         *)
(* time.Time is an "instant", which no text is.  A type is a kind and, for *)
(* lists, the kind of the elements ("" otherwise).                         *)
(* A failure is a diagnostic code; "panic" is a failed type assertion.     *)
(***************************************************************************)
EXTENDS Decimal

CONSTANTS
  DayLength,       (* 24: times are counted in hours                       *)
  NilText,         (* where the text "<nil>" is among the texts of values  *)
  Expressions      (* expressions, each with the declared types of its     *)
                   (* references, the data and the clock it will meet      *)

VARIABLES
  expression,      (* nodes, types, sources and clock                      *)
  typed,           (* the types of the nodes validated so far              *)
  evaluated,       (* the values of the nodes evaluated so far             *)
  diagnostic       (* "ok", or the code that ended the walk                *)

expressionVars == <<expression, typed, evaluated, diagnostic>>

Nil == [reads |-> {}]
Scalar(kinds, n, places) == [reads |-> kinds, number |-> Number(n, places)]
Instant(n) == Scalar({"instant"}, n, 0)
List(items) == [reads |-> {"list"}, items |-> items]

ExpressionValueTypes ==
  {"boolean", "integer", "decimal", "date", "datetime", "duration", "text",
   "relation", "list"}

Type(kind, element) == [kind |-> kind, element |-> element]
Plain(kind) == Type(kind, "")

Literal(type, value) == [kind |-> "literal", type |-> type, value |-> value]
\* The arguments of an operation are the places of their nodes.
Operation(op, arguments) ==
  [kind |-> "operation", operator |-> op, arguments |-> arguments]
\* A reference has a well-formed source and path or not; its source may be
\* written with blanks around it; declared is its value_type, "" if unset.
Reference(key, wellFormed, padded, declared) ==
  [kind |-> "reference", key |-> key, wellFormed |-> wellFormed,
   padded |-> padded, declared |-> declared]

IsValue(v) ==
  v = Nil \/ v.reads = {"list"} \/ v.number \in [int : Int, places : Int]
IsType(type) == type.kind # "list" => type = Plain(type.kind)

ASSUME ExpressionAssumption ==
  \A e \in Expressions :
    /\ Len(e.nodes) \in Nat /\ DOMAIN e.nodes = 1..Len(e.nodes)
    /\ \A i \in DOMAIN e.nodes :
         LET n == e.nodes[i] IN
         /\ n.kind = "literal" => IsValue(n.value) /\ IsType(n.type)
         /\ n.kind = "operation" => n.arguments \in Seq(1..(i - 1))
    /\ \A key \in DOMAIN e.types : IsType(e.types[key])
    /\ \A key \in DOMAIN e.sources : IsValue(e.sources[key])
-----------------------------------------------------------------------------
(* The table of operations, used by both sides.                            *)

\* A value that is not null is read as a kind that is not a list.
Readable(v, kind) ==
  /\ kind \in v.reads
  /\ kind = "decimal" => ~Failed(NormalizeDecimal(v.number, DefaultConfig))

expressionLiteralValid(v, type) ==
  \/ v = Nil
  \/ type.kind # "list" /\ Readable(v, type.kind)
  \/ /\ type.kind = "list" /\ "list" \in v.reads
     /\ \A i \in DOMAIN v.items :
          v.items[i] = Nil \/ Readable(v.items[i], type.element)

expressionAllType(types, kinds) ==
  \A i \in DOMAIN types : types[i].kind \in kinds

expressionAllSameType(types) == \A i \in DOMAIN types : types[i] = types[1]

\* A bug to tell apart: values of different kinds may be compared.
ComparableIfOrdered(left, right, operator) ==
  operator \in {"eq", "ne"} \/ left.kind \notin {"boolean", "list"}

expressionComparable(left, right, operator) ==
  /\ left = right
  /\ operator \in {"eq", "ne"} \/ left.kind \notin {"boolean", "list"}

Comparisons == {"eq", "ne", "gt", "gte", "lt", "lte"}
Arithmetic  == {"add", "subtract", "multiply", "divide", "percentage"}
Operators   == {"and", "or", "not", "date_add", "date_diff", "now", "coalesce"}
                 \cup Comparisons \cup Arithmetic

ArgumentsOK(op, types) ==
  CASE op \in {"and", "or"} ->
         Len(types) >= 2 /\ expressionAllType(types, {"boolean"})
    [] op = "not" -> Len(types) = 1 /\ types[1].kind = "boolean"
    [] op \in Comparisons ->
         Len(types) = 2 /\ expressionComparable(types[1], types[2], op)
    [] op \in Arithmetic ->
         Len(types) = 2 /\ expressionAllType(types, {"integer", "decimal"})
    [] op = "date_add" -> /\ Len(types) = 2 /\ types[2].kind = "duration"
                          /\ types[1].kind \in {"date", "datetime"}
    [] op = "date_diff" -> /\ Len(types) = 2 /\ types[1].kind = types[2].kind
                           /\ types[1].kind \in {"date", "datetime"}
    [] op = "now" -> Len(types) = 0
    [] op = "coalesce" -> Len(types) >= 1 /\ expressionAllSameType(types)

ExpressionOperationType(op, types) ==
  IF op \notin Operators THEN Error("operator_invalid")
  ELSE IF ~ArgumentsOK(op, types)
  THEN Error(IF op \in {"and", "or", "not", "now"} THEN "arguments_invalid"
             ELSE "type_mismatch")
  ELSE Ok(CASE op \in Arithmetic -> Plain("decimal")
            [] op \in {"date_add", "coalesce"} -> types[1]
            [] op = "date_diff" -> Plain("duration")
            [] op = "now" -> Plain("datetime")
            [] OTHER -> Plain("boolean"))
-----------------------------------------------------------------------------
(* Validation.  types gives the declared type of every known reference.    *)

expressionValidateLiteral(e) ==
  IF \/ e.type.kind \notin ExpressionValueTypes
     \/ /\ e.type.kind = "list"
        /\ e.type.element \notin ExpressionValueTypes \ {"list"}
  THEN Error("type_invalid")
  ELSE IF expressionLiteralValid(e.value, e.type) THEN Ok(e.type)
  ELSE Error("literal_invalid")

expressionValidateReference(e, types) ==
  IF ~e.wellFormed THEN Error("reference_invalid")
  ELSE IF e.key \notin DOMAIN types THEN Error("reference_unresolved")
  ELSE IF e.declared \notin {"", types[e.key].kind} THEN Error("type_mismatch")
  ELSE Ok(types[e.key])

\* before holds the types of the nodes before e.
expressionValidateAt(e, before, types) ==
  CASE e.kind = "literal" -> expressionValidateLiteral(e)
    [] e.kind = "reference" -> expressionValidateReference(e, types)
    [] e.kind = "operation" ->
         ExpressionOperationType(e.operator,
           [i \in DOMAIN e.arguments |-> before[e.arguments[i]]])
    [] OTHER -> Error("kind_invalid")
-----------------------------------------------------------------------------
(* Evaluation.  sources holds the value of every reference that has one.   *)

Value(type, v) == [type |-> type, v |-> v]

\* The first hour of the day of an hour.
DayOf(n) == n - (n % DayLength)

\* What a kind reads: decimals in the default configuration, dates without
\* their time of day.
Read(v, kind) ==
  IF v = Nil THEN Nil
  ELSE [reads |-> {kind},
        number |->
          CASE kind = "decimal" ->
                 Parsed(NormalizeDecimal(v.number, DefaultConfig).value,
                        DefaultConfig)
            [] kind = "date" -> Number(DayOf(v.number.int), 0)
            [] OTHER -> v.number]

\* Evaluation takes a time.Time for a date, validation does not.
IsInstant(v, kind) == kind \in {"date", "datetime"} /\ "instant" \in v.reads

Normalizable(v, kind) ==
  CASE kind \in {"date", "datetime"} -> IsInstant(v, kind) \/ kind \in v.reads
    [] kind = "decimal" ->
         kind \in v.reads /\ ~Failed(NormalizeDecimal(v.number, DefaultConfig))
    [] OTHER -> kind \in v.reads

\* A second switch over the kinds, and not the one of expressionLiteralValid.
Normalizes(v, type) ==
  \/ v = Nil
  \/ type.kind # "list" /\ Normalizable(v, type.kind)
  \/ /\ type.kind = "list" /\ "list" \in v.reads
     /\ \A i \in DOMAIN v.items :
          v.items[i] = Nil \/ Normalizable(v.items[i], type.element)

expressionNormalizeValue(v, type) ==
  IF ~Normalizes(v, type) THEN Error("invalid")
  ELSE IF v = Nil THEN Ok(Nil)
  ELSE IF type.kind # "list" THEN Ok(Read(v, type.kind))
  ELSE Ok(List([i \in DOMAIN v.items |-> Read(v.items[i], type.element)]))

Typed(v, type, code) ==
  LET normal == expressionNormalizeValue(v, type) IN
  IF Failed(normal) THEN Error(code) ELSE Ok(Value(type, normal.value))

\* The source is looked up as written, and lists have no element type here.
expressionEvaluateReference(e, sources) ==
  IF e.padded \/ e.key \notin DOMAIN sources
  THEN Error("reference_value_missing")
  ELSE Typed(sources[e.key], Plain(e.declared), "reference_value_invalid")

IsNil(x) == x.v = Nil
Amount(x) == IF IsNil(x) THEN NaN ELSE x.v.number
Truth(x) == ~IsNil(x) /\ x.v.number.int = 1
Boolean(b) == Ok(Value(Plain("boolean"), Scalar({"boolean"}, IF b THEN 1 ELSE 0, 0)))

\* The order of the text of a duration of n hours ("10h" is before "2h", and
\* "-" before digits) and of a value; the text of nil is "<nil>".
DurationText(n) ==
  LET m == Magnitude(n)
      first == IF m >= 10 THEN 100 * (m \div 10) + (m % 10) ELSE 100 * m + 99
  IN  IF n < 0 THEN first - 1000 ELSE first

TextRank(x) ==
  IF IsNil(x) THEN NilText
  ELSE IF x.type.kind = "duration" THEN DurationText(x.v.number.int)
  ELSE x.v.number.int

Order(m, n) == IF m < n THEN -1 ELSE IF m > n THEN 1 ELSE 0

\* expressionCompare: decimals by the sign of their difference, for which a
\* failed subtraction counts as positive; integers and times by value; all
\* other kinds by their texts.
Comparison(x, y) ==
  CASE x.type.kind = "decimal" ->
         LET difference == calculateDecimal(Amount(x), Amount(y), DefaultConfig,
                                            "subtract")
         IN  IF Failed(difference) THEN 1 ELSE Order(difference.value, 0)
    [] x.type.kind \in {"integer", "date", "datetime"} ->
         Order(x.v.number.int, y.v.number.int)
    [] x.type.kind = "list" -> IF x.v = y.v THEN 0 ELSE 1
    [] OTHER -> Order(TextRank(x), TextRank(y))

Holds(op, comparison) ==
  CASE op = "eq" -> comparison = 0   [] op = "ne" -> comparison # 0
    [] op = "gt" -> comparison > 0   [] op = "gte" -> comparison >= 0
    [] op = "lt" -> comparison < 0   [] op = "lte" -> comparison <= 0

\* The type assertions of an operation: the kinds its values must really be.
Asserted(op, values) ==
  CASE op \in {"and", "or", "not", "date_add", "date_diff"} -> DOMAIN values
    [] op \in Comparisons /\ values[1].type.kind \in
         {"integer", "date", "datetime"} -> DOMAIN values
    [] OTHER -> {}

\* and and or stop asserting at the argument that decides them.
Reached(op, values, i) ==
  op \in {"and", "or"} =>
    \A j \in 1..(i - 1) : IsNil(values[j]) \/ (Truth(values[j]) = (op = "and"))

Panics(op, values) ==
  \E i \in Asserted(op, values) :
    /\ Reached(op, values, i)
    /\ \/ IsNil(values[i])
       \/ op \in Comparisons /\ values[i].type.kind # values[1].type.kind

Hours(kind, n) == [reads |-> {kind}, number |-> Number(n, 0)]

\* date_add keeps hours past the last whole day, also for a date; date_diff
\* of two dates counts days.
DateAdd(x, y) == Hours(x.type.kind, x.v.number.int + y.v.number.int)
DateDiff(x, y) ==
  Hours("duration",
        IF x.type.kind = "date"
        THEN DayOf(x.v.number.int) - DayOf(y.v.number.int)
        ELSE x.v.number.int - y.v.number.int)

expressionApplyOperation(op, values, type, clock) ==
  IF Panics(op, values) THEN Error("panic")
  ELSE CASE
     op = "and" -> Boolean(\A i \in DOMAIN values : Truth(values[i]))
  [] op = "or" -> Boolean(\E i \in DOMAIN values : Truth(values[i]))
  [] op = "not" -> Boolean(~Truth(values[1]))
  [] op \in Comparisons ->
       Boolean(Holds(op, Comparison(values[1], values[2])))
  [] op \in Arithmetic ->
       LET result == calculateDecimal(Amount(values[1]), Amount(values[2]),
                                      DefaultConfig, op)
       IN  IF Failed(result) THEN result
           ELSE Ok(Value(type, [reads |-> {"decimal"},
                                number |-> Parsed(result.value, DefaultConfig)]))
  [] op = "date_add" -> Ok(Value(type, DateAdd(values[1], values[2])))
  [] op = "date_diff" -> Ok(Value(type, DateDiff(values[1], values[2])))
  [] op = "now" -> Ok(Value(type, Hours("datetime", clock)))
  [] op = "coalesce" ->
       LET given == {i \in DOMAIN values : ~IsNil(values[i])} IN
       Ok(Value(type, IF given = {} THEN Nil
                      ELSE values[CHOOSE i \in given :
                                    \A j \in given : i <= j].v))

\* before holds the values of the nodes before e.
expressionEvaluateAt(e, before, sources, clock) ==
  CASE e.kind = "literal" -> Typed(e.value, e.type, "literal_invalid")
    [] e.kind = "reference" -> expressionEvaluateReference(e, sources)
    [] e.kind = "operation" ->
         LET values == [i \in DOMAIN e.arguments |-> before[e.arguments[i]]]
             type == ExpressionOperationType(e.operator,
                       [i \in DOMAIN values |-> values[i].type])
         IN  IF Failed(type) THEN type
             ELSE expressionApplyOperation(e.operator, values, type.value, clock)
    [] OTHER -> Error("kind_invalid")
-----------------------------------------------------------------------------
(* The two walks over an expression.                                       *)

ExpressionInit ==
  /\ expression \in Expressions
  /\ typed = <<>> /\ evaluated = <<>> /\ diagnostic = "ok"

Accepted == Len(typed) = Len(expression.nodes)
Evaluated == Len(evaluated) = Len(expression.nodes)

Validate ==
  /\ diagnostic = "ok" /\ ~Accepted
  /\ LET type == expressionValidateAt(expression.nodes[Len(typed) + 1], typed,
                                      expression.types)
     IN  /\ diagnostic' = type.code
         /\ typed' = IF Failed(type) THEN typed ELSE Append(typed, type.value)
  /\ UNCHANGED <<expression, evaluated>>

Evaluate ==
  /\ diagnostic = "ok" /\ Accepted /\ ~Evaluated
  /\ LET value == expressionEvaluateAt(expression.nodes[Len(evaluated) + 1],
                     evaluated, expression.sources, expression.clock)
     IN  /\ diagnostic' = value.code
         /\ evaluated' = IF Failed(value) THEN evaluated
                         ELSE Append(evaluated, value.value)
  /\ UNCHANGED <<expression, typed>>

ExpressionNext == Validate \/ Evaluate
ExpressionSpec == ExpressionInit /\ [][ExpressionNext]_expressionVars
-----------------------------------------------------------------------------
(* What the two walks disagree about, as the code is: null values, which   *)
(* every kind accepts and operations assert; references that do not say    *)
(* their type, or are lists; sources written with blanks; and data that is *)
(* missing or is not what the environment declared.                        *)

\* A null value or an untyped reference is among the nodes up to i.
HasNil(i) ==
  \E n \in {expression.nodes[j] : j \in 1..i} :
    \/ n.kind = "literal" /\ n.value = Nil
    \/ /\ n.kind = "reference" /\ n.key \in DOMAIN expression.sources
       /\ expression.sources[n.key] = Nil

Unknown(n) ==
  /\ n.kind = "reference"
  /\ n.declared = "" \/ expression.types[n.key].kind = "list"

Untyped(i) == \E n \in {expression.nodes[j] : j \in 1..i} : Unknown(n)

Missing(n) == n.padded \/ n.key \notin DOMAIN expression.sources

Mistyped(n) ==
  LET v == expression.sources[n.key]
      type == expression.types[n.key]
  IN  ~expressionLiteralValid(v, type) /\ ~IsInstant(v, type.kind)

\* Why the walk may end at node n, after i nodes: the reason is in the node
\* itself or in what it is given.
Excused(code, n, i) ==
  CASE code \in {"panic", "value_invalid"} -> HasNil(i)
    [] code = "reference_value_missing" -> Missing(n)
    [] code = "reference_value_invalid" -> Unknown(n) \/ Mistyped(n)
    [] code \in {"arguments_invalid", "type_mismatch"} -> Untyped(i)
    [] code \in {"precision_overflow", "divide_by_zero"} ->
         n.operator \in Arithmetic
    [] OTHER -> FALSE

\* Evaluation agrees with validation: every node of an accepted expression
\* gives a value of the type it was accepted with, or the walk ends for a
\* reason that lies in null values, in references and their data, or in
\* decimal arithmetic (expression_evaluation_contract.go:84).
AcceptedEvaluates ==
  LET done == Len(evaluated) IN
  /\ \A i \in 1..done : evaluated[i].type = typed[i] \/ Untyped(i)
  /\ Accepted /\ diagnostic # "ok" =>
       Excused(diagnostic, expression.nodes[done + 1], done)
=============================================================================
