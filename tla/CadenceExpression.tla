-------------------------- MODULE CadenceExpression --------------------------
(***************************************************************************)
(* AGENT_MIN_POLL_SECONDS and AGENT_MAX_POLL_SECONDS: the bounds of an     *)
(* agent on the cadence it accepts, an expression each (common/cadence.ts) *)
(* that is tried once at the start, with a refresh time made up for that   *)
(* (agent/config.ts), and evaluated again with every refresh time observed *)
(* (reporter.ts).                                                          *)
(*                                                                         *)
(* An expression is a sequence of characters, in which one character is    *)
(* the placeholder; a refresh time is the characters it is written with,   *)
(* in hundreds of seconds.  A number is a fraction <<numerator,            *)
(* denominator>>: floating point's rounding and overflow are left out.     *)
(***************************************************************************)
EXTENDS Integers, Sequences, TLC

LOCAL INSTANCE SequencesExt

CONSTANTS
  Wordings,        \* what the variable may be set to
  RefreshTexts     \* the refresh times the game service may show, as written

Space == " "
Placeholder == "%"    \* %refreshTime%, or its alias %auto%
Disabled == <<"o", "f", "f">>

\* AGENT_MIN_POLL_SECONDS when it is not set.
DefaultBound == <<Placeholder>>

\* What resolvePollBound tries an expression with: 300 seconds.
TriedWith == <<"3">>

Unknown == <<>>       \* no refresh time

Digits == {ToString(i) : i \in 0 .. 9}
Numeric == Digits \cup {"."}

Expression(text) == text # Disabled

\* Digits with at most one dot: a number as it is written.
Numeral(chars) ==
  /\ \A i \in 1 .. Len(chars) : chars[i] \in Numeric
  /\ \E i \in 1 .. Len(chars) : chars[i] # "."
  /\ \A i, j \in 1 .. Len(chars) : chars[i] = "." /\ chars[j] = "." => i = j

ASSUME WordingAssumptions ==
  /\ Disabled \in Wordings
  /\ \A refresh \in RefreshTexts : Numeral(refresh)

VARIABLES
  text,      \* the bound as main keeps it
  stage,     \* "unset"; "refused", by a ConfigError; "off"; or "accepted"
  observed,  \* the refresh time it was last evaluated with
  answer     \* what came of it: a set of the number, empty for a CadenceError, or Null

boundVars == <<text, stage, observed, answer>>

Null == {<<0, 0>>}    \* a placeholder and no refresh time

-----------------------------------------------------------------------------
(* The evaluator: a position in the text, and what was read before it.      *)

NoNumber == [value |-> <<0, 1>>, pos |-> 0]
IsError(result) == result.pos = 0

CharAt(src, pos) == IF pos <= Len(src) THEN src[pos] ELSE "end"

\* skipSpace.
SkipSpace(src, pos) ==
  CHOOSE p \in pos .. Len(src) + 1 :
    /\ CharAt(src, p) # Space
    /\ \A q \in pos .. p - 1 : src[q] = Space

Apply(op, x, y) ==
  CASE op = "+" -> <<x[1] * y[2] + y[1] * x[2], x[2] * y[2]>>
    [] op = "-" -> <<x[1] * y[2] - y[1] * x[2], x[2] * y[2]>>
    [] op = "*" -> <<x[1] * y[1], x[2] * y[2]>>
    [] op = "/" -> IF y[1] > 0 THEN <<x[1] * y[2], x[2] * y[1]>>
                   ELSE <<-(x[1] * y[2]), -(x[2] * y[1])>>

RECURSIVE Power(_)
Power(n) == IF n = 0 THEN 1 ELSE 10 * Power(n - 1)

DigitOf(char) == CHOOSE i \in 0 .. 9 : ToString(i) = char

\* The number a numeral stands for.
Decimal(chars) ==
  LET digits == SelectSeq(chars, LAMBDA c : c # ".")
      dots == {i \in 1 .. Len(chars) : chars[i] = "."}
      places == IF dots = {} THEN 0 ELSE Len(chars) - CHOOSE i \in dots : TRUE
  IN  <<FoldLeft(LAMBDA n, c : 10 * n + DigitOf(c), 0, digits), Power(places)>>

\* Number.parseFloat: the longest number the characters begin with.
ParseFloat(chars) ==
  LET lengths == {n \in 1 .. Len(chars) : Numeral(SubSeq(chars, 1, n))}
  IN  IF lengths = {} THEN {}
      ELSE {Decimal(SubSeq(chars, 1, CHOOSE n \in lengths : \A m \in lengths : m <= n))}

\* number: everything that may belong to one is taken.
NumberFrom(src, pos) ==
  LET start == SkipSpace(src, pos)
      end == CHOOSE p \in start .. Len(src) + 1 :
               /\ CharAt(src, p) \notin Numeric
               /\ \A q \in start .. p - 1 : src[q] \in Numeric
      number == ParseFloat(SubSeq(src, start, end - 1))
  IN  IF number = {} THEN NoNumber
      ELSE [value |-> CHOOSE x \in number : TRUE, pos |-> end]

RECURSIVE ExprFrom(_, _), ExprRest(_, _), TermFrom(_, _), TermRest(_, _),
          FactorFrom(_, _)

FactorFrom(src, pos) ==
  LET p == SkipSpace(src, pos)
      inner == ExprFrom(src, p + 1)
      end == SkipSpace(src, inner.pos)
      negated == FactorFrom(src, p + 1)
  IN  CASE CharAt(src, p) = "-" ->
             [negated EXCEPT !.value = <<-@[1], @[2]>>]
        [] CharAt(src, p) = "(" ->
             IF IsError(inner) \/ CharAt(src, end) # ")" THEN NoNumber
             ELSE [inner EXCEPT !.pos = end + 1]
        [] OTHER -> NumberFrom(src, p)

\* The loop of term, once it has a left operand.
TermRest(src, left) ==
  LET p == SkipSpace(src, left.pos)
      op == CharAt(src, p)
      right == FactorFrom(src, p + 1)
  IN  IF op \notin {"*", "/"} THEN [left EXCEPT !.pos = p]
      ELSE IF IsError(right) \/ (op = "/" /\ right.value[1] = 0) THEN NoNumber
      ELSE TermRest(src, [value |-> Apply(op, left.value, right.value), pos |-> right.pos])

TermFrom(src, pos) ==
  LET left == FactorFrom(src, pos)
  IN  IF IsError(left) THEN NoNumber ELSE TermRest(src, left)

\* The loop of expr.
ExprRest(src, left) ==
  LET p == SkipSpace(src, left.pos)
      op == CharAt(src, p)
      right == TermFrom(src, p + 1)
  IN  IF op \notin {"+", "-"} THEN [left EXCEPT !.pos = p]
      ELSE IF IsError(right) THEN NoNumber
      ELSE ExprRest(src, [value |-> Apply(op, left.value, right.value), pos |-> right.pos])

ExprFrom(src, pos) ==
  LET left == TermFrom(src, pos)
  IN  IF IsError(left) THEN NoNumber ELSE ExprRest(src, left)

\* Mutant: what follows the expression is not looked at.
EvaluatePrefix(src) ==
  LET result == ExprFrom(src, 1)
  IN  IF IsError(result) THEN {} ELSE {result.value}

\* evaluate.
Evaluate(src) ==
  LET result == ExprFrom(src, 1)
  IN  IF IsError(result) \/ result.pos <= Len(src) THEN {} ELSE {result.value}

-----------------------------------------------------------------------------
NeedsRefreshTime(expr) == \E i \in 1 .. Len(expr) : expr[i] = Placeholder

\* The placeholder's characters are replaced, whatever stands next to them.
Substituted(expr, refresh) ==
  FlattenSeq([i \in 1 .. Len(expr) |->
                IF expr[i] = Placeholder THEN refresh ELSE <<expr[i]>>])

\* resolveCadence.
Resolve(expr, refresh) ==
  IF NeedsRefreshTime(expr) /\ refresh = Unknown THEN Null
  ELSE Evaluate(Substituted(expr, refresh))

\* String.trim.
Trimmed(src) ==
  LET kept == {i \in 1 .. Len(src) : src[i] # Space}
  IN  IF kept = {} THEN <<>>
      ELSE SubSeq(src, CHOOSE i \in kept : \A j \in kept : i <= j,
                       CHOOSE i \in kept : \A j \in kept : j <= i)

\* readString; what is empty is as good as not set.
Read(raw) == IF Trimmed(raw) = <<>> THEN DefaultBound ELSE Trimmed(raw)

BoundInit ==
  /\ text = <<>>
  /\ stage = "unset"
  /\ observed = Unknown
  /\ answer = {}

\* resolvePollBound, as loadAgentConfig calls it.
LoadBound ==
  /\ stage = "unset"
  /\ \E raw \in Wordings : text' = Read(raw)
  /\ observed' = TriedWith
  /\ IF ~Expression(text') THEN stage' = "off" /\ UNCHANGED answer
     ELSE /\ answer' = Resolve(text', TriedWith)
          /\ stage' = IF answer' = {} THEN "refused" ELSE "accepted"

\* main, which knows no refresh time, and then the answers to reports.
EvaluateBound ==
  /\ stage = "accepted"
  /\ observed' \in RefreshTexts \cup {Unknown}
  /\ answer' = Resolve(text, observed')
  /\ UNCHANGED <<text, stage>>

RestartAgent ==
  /\ stage # "unset"
  /\ stage' = "unset"
  /\ text' = <<>>
  /\ observed' = Unknown
  /\ answer' = {}

BoundNext == LoadBound \/ EvaluateBound \/ RestartAgent

-----------------------------------------------------------------------------
(* What an expression means: the readings the grammar has of it, as it was   *)
(* written, with the refresh time for the placeholder.                      *)

RECURSIVE Sums(_, _), Products(_, _), Atoms(_, _)

\* atom ::= number | placeholder | - atom | ( sum )
Atoms(src, refresh) ==
  LET s == Trimmed(src)
      n == Len(s)
  IN  IF s = <<>> THEN {}
      ELSE UNION {
        IF Numeral(s) THEN {Decimal(s)} ELSE {},
        IF s = <<Placeholder>> THEN {Decimal(refresh)} ELSE {},
        IF s[1] = "-" THEN {<<-x[1], x[2]>> : x \in Atoms(Tail(s), refresh)} ELSE {},
        IF s[1] = "(" /\ s[n] = ")" THEN Sums(SubSeq(s, 2, n - 1), refresh) ELSE {}}

\* product ::= atom | product * atom | product / atom, except by zero
Products(s, refresh) ==
  Atoms(s, refresh) \cup UNION {
    {Apply(s[i], x, y) : x \in Products(SubSeq(s, 1, i - 1), refresh),
                         y \in {z \in Atoms(SubSeq(s, i + 1, Len(s)), refresh) :
                                  s[i] = "*" \/ z[1] # 0}} :
    i \in {j \in 1 .. Len(s) : s[j] \in {"*", "/"}}}

\* sum ::= product | sum + product | sum - product
Sums(s, refresh) ==
  Products(s, refresh) \cup UNION {
    {Apply(s[i], x, y) : x \in Sums(SubSeq(s, 1, i - 1), refresh),
                         y \in Products(SubSeq(s, i + 1, Len(s)), refresh)} :
    i \in {j \in 1 .. Len(s) : s[j] \in {"+", "-"}}}

Divides(expr) == \E i \in 1 .. Len(expr) : expr[i] = "/"

\* Characters of numbers and placeholders that stand together and are neither a number nor
\* a placeholder: two dots, or a placeholder with anything next to it.
Garbled(expr) ==
  \E i, j \in 1 .. Len(expr) :
    /\ i < j
    /\ \A k \in i .. j : expr[k] \in Numeric \cup {Placeholder}
    /\ \/ expr[i] = "." /\ expr[j] = "."
       \/ Placeholder \in {expr[i], expr[j]}

\* "numbers, the placeholders, and + - * / ( )": the start refuses a bound exactly when
\* the grammar has no reading of it; every later evaluation of one it let in gives the
\* value of that reading at the refresh time observed, and fails only where the bound
\* has a division, by what is zero at that refresh time and was not at the start.  A
\* garbled bound is excepted: RefusesGarbled.
BoundMeansWhatItSays ==
  stage \in {"refused", "accepted"} =>
    \/ Garbled(text)
    \/ answer = Null /\ observed = Unknown /\ NeedsRefreshTime(text)
    \/ /\ observed = Unknown => ~NeedsRefreshTime(text)
       /\ answer = Sums(text, IF observed = Unknown THEN TriedWith ELSE observed)
       /\ answer = {} => stage = "refused" \/ (Divides(text) /\ NeedsRefreshTime(text))

\* "malformed or unsafe expressions throw rather than evaluate code", and the grammar is
\* "numbers, the placeholders, and + - * / ( )": the start lets in no bound the grammar
\* has no reading of.
RefusesGarbled == stage = "accepted" => Sums(text, TriedWith) # {}

=============================================================================
