------------------------------ MODULE ApiWire ------------------------------
(* A call of the page: the page encodes the request with its generated code,  *)
(* the server decodes it with its own, and back.  A message is a function     *)
(* from its fields to their values: the value of an optional field is <<>> or *)
(* <<v>>, of a repeated one a sequence.  On the wire it is a set of entries.  *)
(* A message inside a message is opaque here, each type crosses by itself; a  *)
(* point in time is seconds and nanoseconds at the server and on the wire and *)
(* milliseconds in the page.                                                  *)
EXTENDS Integers, FiniteSets, Sequences, TLC

Client == INSTANCE ApiClient
Server == INSTANCE ApiServer

VARIABLES
    stage,      \* what happens next
    type,       \* the message that travels, or the <<service, method>> called
    sent,       \* its value at the sender
    wire,       \* what was written
    seen        \* what the receiver read

wireVars == <<stage, type, sent, wire, seen>>

None == << >>
Unknown == 99       \* a number no table has: a newer server's
Failed == [failed |-> TRUE]
Huge == "2^53"      \* the least whole number longToNumber refuses

JsTrunc(a, b) == IF a >= 0 THEN a \div b ELSE -((-a) \div b)

(* Mutant of toTimestamp: the nanoseconds of a time before 1970 are positive.  *)
toTimestampPositive(ms) ==
    [seconds |-> JsTrunc(ms, 1000), nanos |-> (ms % 1000) * 1000000]

toTimestamp(ms) ==
    [seconds |-> JsTrunc(ms, 1000), nanos |-> (ms - 1000 * JsTrunc(ms, 1000)) * 1000000]

(* Mutant of fromTimestamp: whole seconds.                                    *)
fromTimestampSeconds(t) == t.seconds * 1000

(* new Date drops what is less than a millisecond, towards 1970.              *)
fromTimestamp(t) ==
    LET ms == t.seconds * 1000 + t.nanos \div 1000000
    IN  IF ms < 0 /\ t.nanos % 1000000 # 0 THEN ms + 1 ELSE ms

(* timestamppb.Timestamp.AsTime and New: nanoseconds carried into 0..10^9-1.  *)
AsTime(t) ==
    IF t.nanos < 0 THEN [seconds |-> t.seconds - 1, nanos |-> t.nanos + 1000000000] ELSE t

EnumFromJSON(e, n) ==
    IF \E v \in DOMAIN Client!EnumOf[e] : Client!EnumOf[e][v] = n
    THEN CHOOSE v \in DOMAIN Client!EnumOf[e] : Client!EnumOf[e][v] = n
    ELSE "UNRECOGNIZED"

(* Mutant of EnumToNumber: a name it does not know is the default.            *)
EnumToNumberZero(e, v) == IF v \in DOMAIN Client!EnumOf[e] THEN Client!EnumOf[e][v] ELSE 0

EnumToNumber(e, v) == IF v \in DOMAIN Client!EnumOf[e] THEN Client!EnumOf[e][v] ELSE -1

(* A single value of a field, between the page and the wire.                  *)
PageToWire(f, v) ==
    CASE f.kind = "enum" -> EnumToNumber(f.of, v)
      [] f.kind = "message" -> [of |-> f.of, is |-> IF f.of = "Timestamp" THEN toTimestamp(v) ELSE v]
      [] OTHER -> v

PageFromWire(f, d) ==
    CASE f.kind = "enum" -> EnumFromJSON(f.of, d)
      [] f.kind = "message" -> IF f.of = "Timestamp" THEN fromTimestamp(d.is) ELSE d.is
      [] OTHER -> d

ServerToWire(f, v) == IF f.kind = "message" THEN [of |-> f.of, is |-> v] ELSE v

ServerFromWire(f, d) ==
    IF f.kind = "message" THEN (IF f.of = "Timestamp" THEN AsTime(d.is) ELSE d.is) ELSE d

(* The default of a plain field: an enum is a name in the page and a number   *)
(* at the server.                                                             *)
Zero(kind) ==
    CASE kind \in {"string", "bytes"} -> ""
      [] kind \in {"int", "long", "double"} -> "0"
      [] kind = "bool" -> "false"

PageDefault(f) ==
    IF f.label # "plain" THEN <<>>
    ELSE IF f.kind = "enum" THEN EnumFromJSON(f.of, 0) ELSE Zero(f.kind)

ServerDefault(f) ==
    IF f.label # "plain" THEN <<>> ELSE IF f.kind = "enum" THEN 0 ELSE Zero(f.kind)

(* The values encode writes of a field: a plain one that is not its default,  *)
(* an optional one that is set and each element of a repeated one.            *)
Written(f, value, default) ==
    IF value = default THEN <<>> ELSE IF f.label = "plain" THEN <<value>> ELSE value

Entry(f, i, v) ==
    [number |-> f.number, wireType |-> Server!WireType(f.kind), place |-> i, data |-> v]

(* The data decode reads into a field: an entry of another number, or of the  *)
(* number with another wire type, is skipped.                                 *)
Read(f, entries) ==
    LET own == {e \in entries : e.number = f.number /\ e.wireType = Server!WireType(f.kind)}
    IN  [i \in 1 .. Cardinality(own) |-> (CHOOSE e \in own : e.place = i).data]

(* What decode leaves in a field it read these values into.                   *)
Field(f, read, default) ==
    IF read = <<>> THEN default ELSE IF f.label = "plain" THEN read[1] ELSE read

PageEncodes(t, m) ==
    UNION {LET f == Client!Message[t][x]
               values == Written(f, m[x], PageDefault(f))
           IN  {Entry(f, i, PageToWire(f, values[i])) : i \in DOMAIN values}
              : x \in DOMAIN Client!Message[t]}

PageDecodes(t, entries) ==
    IF \E x \in DOMAIN Client!Message[t], e \in entries :
          /\ Client!Message[t][x].kind = "long"
          /\ e.number = Client!Message[t][x].number
          /\ e.data = Huge
    THEN Failed
    ELSE [x \in DOMAIN Client!Message[t] |->
            LET f == Client!Message[t][x]
                data == Read(f, entries)
            IN  Field(f, [i \in DOMAIN data |-> PageFromWire(f, data[i])], PageDefault(f))]

ServerEncodes(t, m) ==
    UNION {LET f == Server!Message[t][x]
               values == Written(f, m[x], ServerDefault(f))
           IN  {Entry(f, i, ServerToWire(f, values[i])) : i \in DOMAIN values}
              : x \in DOMAIN Server!Message[t]}

ServerDecodes(t, entries) ==
    [x \in DOMAIN Server!Message[t] |->
        LET f == Server!Message[t][x]
            data == Read(f, entries)
        IN  Field(f, [i \in DOMAIN data |-> ServerFromWire(f, data[i])], ServerDefault(f))]

(* The messages that cross, by themselves or inside another.                  *)
Parts(table, t) == {table[t][x].of : x \in {x \in DOMAIN table[t] : table[t][x].kind = "message"}}

WithParts(table, types) ==
    LET reached[n \in Nat] ==
            IF n = 0 THEN types
            ELSE LET nearer == reached[n - 1]
                 IN  nearer \cup UNION {Parts(table, t) : t \in nearer}
    IN  reached[Cardinality(DOMAIN table)]

Methods(service) == UNION {{<<s, m>> : m \in DOMAIN service[s]} : s \in DOMAIN service}

Requests ==
    WithParts(Client!Message, {Client!Service[c[1]][c[2]][1] : c \in Methods(Client!Service)})
Answers ==
    WithParts(Server!Message, {Server!Service[c[1]][c[2]][2] : c \in Methods(Server!Service)})

(* Values a field is given, next to its default.                              *)
Sample(f) ==
    CASE f.kind \in {"string", "bytes"} -> {"x"}
      [] f.kind \in {"int", "double"} -> {"7"}
      [] f.kind = "long" -> {"7", Huge}
      [] f.kind = "bool" -> {"true"}

PageSample(f) ==
    LET one == CASE f.kind = "enum" -> DOMAIN Client!EnumOf[f.of] \ {PageDefault(f)}
                 [] f.kind = "message" ->
                        IF f.of = "Timestamp" THEN {1500, -1500} ELSE {f.of}
                 [] OTHER -> Sample(f) \ {Huge}
    IN  CASE f.label = "plain" -> one
          [] f.label = "repeated" -> {<<v>> : v \in one} \cup {<<v, v>> : v \in one}
          [] f.kind = "message" -> {<<v>> : v \in one}
          [] OTHER -> {<<v>> : v \in one \cup {Zero(f.kind)}}

ServerSample(f) ==
    LET one == CASE f.kind = "enum" ->
                        {Unknown} \cup
                            ({Server!EnumOf[f.of][v] : v \in DOMAIN Server!EnumOf[f.of]} \ {0})
                 [] f.kind = "message" ->
                        IF f.of = "Timestamp"
                        THEN {[seconds |-> 1, nanos |-> 2500000], [seconds |-> -2, nanos |-> 500500000]}
                        ELSE {f.of}
                 [] OTHER -> Sample(f)
    IN  CASE f.label = "plain" -> one
          [] f.label = "repeated" -> {<<v>> : v \in one} \cup {<<v, v>> : v \in one}
          [] f.kind = "message" -> {<<v>> : v \in one}
          [] OTHER -> {<<v>> : v \in one \cup {Zero(f.kind)}}

(* The messages with at most two fields set, and one of a oneof group.        *)
Filled(shape, Default(_), Samples(_)) ==
    LET blank == [x \in DOMAIN shape |-> Default(shape[x])]
        With(x) == {y \in DOMAIN shape : shape[x].label # "oneof" \/ shape[y].label # "oneof" \/ x = y}
    IN  {blank} \cup
        UNION {UNION {{[blank EXCEPT ![x] = v, ![y] = w] : v \in Samples(shape[x]), w \in Samples(shape[y])}
                         : y \in With(x)} : x \in DOMAIN shape}

WireInit ==
    /\ stage = "idle"
    /\ type = None /\ sent = None /\ wire = None /\ seen = None

(* The page names a method; the server looks it up in its own services.       *)
Call(c) ==
    /\ stage = "idle"
    /\ stage' = "called"
    /\ type' = c
    /\ sent' = Client!Service[c[1]][c[2]]
    /\ UNCHANGED <<wire, seen>>

Dispatch ==
    /\ stage = "called"
    /\ stage' = "dispatched"
    /\ seen' = IF type \in Methods(Server!Service) THEN Server!Service[type[1]][type[2]] ELSE Failed
    /\ UNCHANGED <<type, sent, wire>>

(* A request, or a message inside one.                                        *)
PageSends(t) ==
    /\ stage = "idle"
    /\ stage' = "asked"
    /\ type' = t
    /\ \E m \in Filled(Server!Message[t], PageDefault, PageSample) :
          sent' = m /\ wire' = PageEncodes(t, m)
    /\ UNCHANGED seen

ServerReads ==
    /\ stage = "asked"
    /\ stage' = "handled"
    /\ seen' = ServerDecodes(type, wire)
    /\ UNCHANGED <<type, sent, wire>>

(* An answer, or a message inside one, of a server that may be newer than the *)
(* page: it may set a field and use an enum value the page does not know.     *)
ServerSends(t) ==
    /\ stage = "idle"
    /\ stage' = "answered"
    /\ type' = t
    /\ \E m \in Filled(Server!Message[t], ServerDefault, ServerSample),
           newer \in {{}, {[number |-> Unknown, wireType |-> 2, place |-> 1, data |-> "new"]}} :
          sent' = m /\ wire' = ServerEncodes(t, m) \cup newer
    /\ UNCHANGED seen

PageReads ==
    /\ stage = "answered"
    /\ stage' = "read"
    /\ seen' = PageDecodes(type, wire)
    /\ UNCHANGED <<type, sent, wire>>

(* The page puts what it read into a request.                                 *)
PageSendsBack ==
    /\ stage = "read"
    /\ seen # Failed
    /\ type \in Requests
    /\ stage' = "sent back"
    /\ wire' = PageEncodes(type, seen)
    /\ UNCHANGED <<type, sent, seen>>

ServerReadsBack ==
    /\ stage = "sent back"
    /\ stage' = "returned"
    /\ seen' = ServerDecodes(type, wire)
    /\ UNCHANGED <<type, sent, wire>>

Done ==
    /\ stage \in {"dispatched", "handled", "read", "returned"}
    /\ stage' = "idle"
    /\ type' = None /\ sent' = None /\ wire' = None /\ seen' = None

WireNext ==
    \/ \E c \in Methods(Client!Service) : Call(c)
    \/ Dispatch
    \/ \E t \in Requests : PageSends(t)
    \/ ServerReads
    \/ \E t \in Answers : ServerSends(t)
    \/ PageReads \/ PageSendsBack \/ ServerReadsBack
    \/ Done

WireSpec == WireInit /\ [][WireNext]_wireVars

-----------------------------------------------------------------------------
(* What the two ends may take for the same value: the oracle is the server's  *)
(* table alone.                                                               *)
SameEnum(f, name, n) ==
    IF \E v \in DOMAIN Server!EnumOf[f.of] : Server!EnumOf[f.of][v] = n
    THEN name \in DOMAIN Server!EnumOf[f.of] /\ Server!EnumOf[f.of][name] = n
    ELSE name = "UNRECOGNIZED"

MicroSeconds(t) == t.seconds * 1000000 + t.nanos \div 1000

Apart(a, b) == IF a > b THEN a - b ELSE b - a

Same(f, page, server) ==
    CASE f.kind = "enum" -> SameEnum(f, page, server)
      [] f.of = "Timestamp" ->
            /\ Len(page) = Len(server)
            /\ \A i \in DOMAIN page : Apart(page[i] * 1000, MicroSeconds(server[i])) < 1000
      [] OTHER -> page = server

(* The server serves every method the generated client has, with the types    *)
(* the client has for it (the two generated service tables), and what it      *)
(* reads of a request is what the page wrote, in each field: a time to the    *)
(* millisecond, an enum by its number, a field set to its zero as set when it *)
(* is optional.                                                               *)
RequestAsMeant ==
    /\ stage = "dispatched" => seen = sent
    /\ stage = "handled" =>
           \A x \in DOMAIN Server!Message[type] : Same(Server!Message[type][x], sent[x], seen[x])

(* What the page reads of an answer is what the server wrote: the fields and  *)
(* enum values a newer server added disturb no other field, and only a whole  *)
(* number past 2^53 - 1 makes the answer unreadable.                          *)
AnswerAsMeant ==
    stage = "read" =>
        IF seen = Failed
        THEN \E x \in DOMAIN sent : Server!Message[type][x].kind = "long" /\ sent[x] = Huge
        ELSE \A x \in DOMAIN sent : Same(Server!Message[type][x], seen[x], sent[x])

(* An answer the page sends back in a request (a memo it edits, a setting it  *)
(* saves) reaches the server as it left it, but for what the page cannot      *)
(* hold: a time loses less than a millisecond, an enum value the page does    *)
(* not know comes back as -1.                                                 *)
ReturnsAsSent ==
    stage = "returned" =>
        \A x \in DOMAIN sent :
            LET f == Server!Message[type][x] IN
            CASE f.kind = "enum" -> seen[x] = IF sent[x] = Unknown THEN -1 ELSE sent[x]
              [] f.of = "Timestamp" ->
                    /\ Len(seen[x]) = Len(sent[x])
                    /\ \A i \in DOMAIN sent[x] :
                          /\ seen[x][i].nanos \in 0 .. 999999999
                          /\ Apart(MicroSeconds(seen[x][i]), MicroSeconds(sent[x][i])) < 1000
              [] OTHER -> seen[x] = sent[x]
=============================================================================
