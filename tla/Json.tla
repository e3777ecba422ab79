-------------------------------- MODULE Json --------------------------------
(***************************************************************************)
(* The JSON writer of utils.c, whose whole memory is a level and one bit, and *)
(* a reader of JSON that looks at what it writes, token by token.            *)
(***************************************************************************)
EXTENDS Integers, SequencesExt

NoKey == "no key"

(* What the program asks the writer for: checkasm_json_push(), _pop(), and     *)
(* checkasm_json() or checkasm_json_str(), which write one value.  The type is *)
(* that of the bracket: of an "object" or an "array".                        *)
Push(key, type) == [call |-> "push", key |-> key, type |-> type]
Pop(type) == [call |-> "pop", key |-> NoKey, type |-> type]
Item(key) == [call |-> "item", key |-> key, type |-> "value"]

Empty == [level |-> 0, nonempty |-> FALSE]

(* The writer after a call, and the tokens of the call.  Its assertions fail   *)
(* where a value is at level 0 or a pop below it.                            *)
Asserted(json, c) ==
    /\ c.call = "item" => json.level > 0
    /\ c.call = "pop" => json.level >= 2

AfterPopForgotten(json) == [level |-> json.level - 2, nonempty |-> json.nonempty]  \* faulty: no comma follows an empty object
AfterPop(json) == [level |-> json.level - 2, nonempty |-> TRUE]

Written(json, c) ==
    CASE c.call = "push" -> [level |-> json.level + 2, nonempty |-> FALSE]
      [] c.call = "pop"  -> AfterPop(json)
      [] c.call = "item" -> [json EXCEPT !.nonempty = TRUE]

Lexeme(sort, text) == [sort |-> sort, text |-> text]
Tokens(json, c) ==
    IF c.call = "pop" THEN << Lexeme("close", c.type) >>
    ELSE (IF json.nonempty THEN << Lexeme("comma", NoKey) >> ELSE << >>)
         \o (IF c.key = NoKey THEN << >> ELSE << Lexeme("key", c.key) >>)
         \o << IF c.call = "push" THEN Lexeme("open", c.type) ELSE Lexeme("value", NoKey) >>

-----------------------------------------------------------------------------
(* The reader: a stack of the objects and arrays that are open, each with the *)
(* keys it had and what it waits for: an entry or its end ("first"), an entry *)
(* ("entry"), the value of a key ("value"), a comma or its end ("next").      *)
Context(kind) == [kind |-> kind, wants |-> "first", keys |-> {}, key |-> NoKey]
Outside == [Context("root") EXCEPT !.wants = "value"]
NewReader == [open |-> << Outside >>, ok |-> TRUE]

Top(r) == Last(r.open)
Opened(stack) == [open |-> stack, ok |-> TRUE]
SetTop(r, top) == Opened(Append(Front(r.open), top))
Wrong(r) == [r EXCEPT !.ok = FALSE]

(* A value may stand after a key, in an array, and once outside of all.        *)
TakesValue(top) ==
    \/ top.wants = "value"
    \/ top.kind = "array" /\ top.wants \in {"first", "entry"}

Read(r, token) ==
    LET top == Top(r)
    IN  CASE token.sort = "comma" /\ top.wants = "next" /\ top.kind # "root" ->
                 SetTop(r, [top EXCEPT !.wants = "entry"])
          [] token.sort = "key" /\ top.kind = "object" /\ top.wants \in {"first", "entry"}
                 /\ token.text \notin top.keys ->
                 SetTop(r, [top EXCEPT !.wants = "value", !.key = token.text,
                                       !.keys = @ \cup {token.text}])
          [] token.sort = "value" /\ TakesValue(top) -> SetTop(r, [top EXCEPT !.wants = "next"])
          [] token.sort = "open" /\ TakesValue(top) ->
                 Opened(Append(SetTop(r, [top EXCEPT !.wants = "next"]).open, Context(token.text)))
          [] token.sort = "close" /\ top.wants \in {"first", "next"} /\ top.kind = token.text ->
                 Opened(Front(r.open))
          [] OTHER -> Wrong(r)

ReadAll(r, tokens) ==
    LET read[i \in 0 .. Len(tokens)] ==
          IF i = 0 THEN r
          ELSE IF read[i - 1].ok THEN Read(read[i - 1], tokens[i]) ELSE read[i - 1]
    IN  read[Len(tokens)]

(* The keys that lead to where the reader is, and whether it read a document. *)
Where(r) == [i \in DOMAIN r.open |-> r.open[i].key]
ReadDocument(r) == r.ok /\ Len(r.open) = 1 /\ Top(r).wants = "next"
=============================================================================
