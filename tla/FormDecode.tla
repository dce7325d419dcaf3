------------------------------ MODULE FormDecode ------------------------------
(***************************************************************************)
(* The body of a request and the fields of the HTML form in it:            *)
(* laure_parse_qs and laure_url_decode of util.c, as laure_http_dispatch   *)
(* calls them, one field a step, and what post() and getBody() of the      *)
(* request find afterwards.                                                *)
(*                                                                         *)
(* A string is a sequence of bytes; memory is modelled where the code can  *)
(* leave it, which is past the copy that estrdup made of the body.         *)
(***************************************************************************)
EXTENDS Naturals, Sequences, FiniteSets, FiniteSetsExt

CONSTANTS
    Alphabet,  \* bytes a body is made of
    MaxLen     \* bound: bytes in the body

Bytes == 0..255

ASSUME AlphabetAssumption == Alphabet \subseteq Bytes
ASSUME MaxLenAssumption   == MaxLen \in Nat

VARIABLES
    body,    \* c->http_body, of length c->http_body.len
    p,       \* the next byte to look at, from 1
    fields,  \* req->post_params
    got,     \* what getBody() returned, once, if none of it is from past the copy
    fault    \* undefined behaviour met

vars == <<body, p, fields, got, fault>>

-----------------------------------------------------------------------------
(* Bytes and C strings. *)

NUL     == 0
Space   == 32
Percent == 37
Amp     == 38
Plus    == 43
Equals  == 61

Strings(n) == UNION {[1..k -> Alphabet] : k \in 0..n}

\* What C's string functions see of a string: the bytes up to its first NUL.
CString(s) ==
    LET ends == {i \in 1..Len(s) : s[i] = NUL}
    IN  IF ends = {} THEN s ELSE SubSeq(s, 1, Min(ends) - 1)

\* hv takes these bytes.
Digits == 48..57
HexDigits == Digits \cup 65..70 \cup 97..102

\* hv.
hv(c) == IF c \in Digits THEN c - 48 ELSE IF c \in 65..70 THEN c - 55 ELSE c - 87

-----------------------------------------------------------------------------
(* laure_url_decode. *)

\* A % and two hexadecimal digits.
Escape(s, i) ==
    /\ s[i] = Percent
    /\ i + 2 <= Len(s)
    /\ s[i + 1] \in HexDigits /\ s[i + 2] \in HexDigits

\* A plus sign is left as it is.
UrlDecode_KeepsPlus(s) ==
    LET dec[i \in 1..(Len(s) + 3)] ==
            IF i > Len(s) THEN <<>>
            ELSE IF Escape(s, i) THEN <<16 * hv(s[i + 1]) + hv(s[i + 2])>> \o dec[i + 3]
            ELSE <<s[i]>> \o dec[i + 1]
    IN  dec[1]

\* The loop, from each place of the input on.
UrlDecode(s) ==
    LET dec[i \in 1..(Len(s) + 3)] ==
            IF i > Len(s) THEN <<>>
            ELSE IF s[i] = Plus THEN <<Space>> \o dec[i + 1]
            ELSE IF Escape(s, i) THEN <<16 * hv(s[i + 1]) + hv(s[i + 2])>> \o dec[i + 3]
            ELSE <<s[i]>> \o dec[i + 1]
    IN  dec[1]

-----------------------------------------------------------------------------
(* laure_parse_qs. *)

\* req->body is a copy made for as long as a string would last.
Copy_Short == CString(body)

\* req->body, the copy that estrdup made of the body: up to its first NUL and
\* that NUL.  req->body_len is the length of the whole body.
Copy == Append(CString(body), NUL)

\* laure_strmap_set_take of an earlier field's name keeps the earlier value.
SetTake_First(m, key, val) ==
    LET k == CString(key)
    IN  [x \in DOMAIN m \cup {k} |-> IF x \in DOMAIN m THEN m[x] ELSE CString(val)]

\* laure_strmap_set_take: the map's keys and values are C strings.
SetTake(m, key, val) ==
    LET k == CString(key)
    IN  [x \in DOMAIN m \cup {k} |-> IF x = k THEN CString(val) ELSE m[x]]

\* The places of a byte in the copy, from i to before j.
Places(b, i, j) == {k \in i..(j - 1) : k <= Len(Copy) /\ Copy[k] = b}

\* The end of the field at p: the next &, or the end of the body.
FieldEnd ==
    LET amps == Places(Amp, p, Len(body) + 1)
    IN  IF amps = {} THEN Len(body) + 1 ELSE Min(amps)

\* The name and the value of the field from p to before the end.  The value is
\* decoded from p on as well, with the length of what follows the =.
Field(end) ==
    LET eqs == Places(Equals, p, end)
        eq  == IF eqs = {} THEN end ELSE Min(eqs)
        vl  == IF eqs = {} THEN 0 ELSE end - eq - 1
    IN  [name |-> UrlDecode(SubSeq(Copy, p, eq - 1)),
         val  |-> UrlDecode(SubSeq(Copy, p, p + vl - 1))]

\* memchr leaves the copy: there is no & in what is left of it, and the body was
\* longer.
ReadsPast == FieldEnd > Len(body) /\ Len(Copy) < Len(body)

\* A turn of the loop.
ParseField ==
    /\ fault = "none" /\ p <= Len(body)
    /\ ~ReadsPast
    /\ LET f == Field(FieldEnd)
       IN  fields' = IF f.name # <<>> THEN SetTake(fields, f.name, f.val) ELSE fields
    /\ p' = FieldEnd + 1
    /\ UNCHANGED <<body, got, fault>>

\* ... that looks at memory past the copy.
ParsePast ==
    /\ fault = "none" /\ p <= Len(body)
    /\ ReadsPast
    /\ fault' = "read_past"
    /\ UNCHANGED <<body, p, fields, got>>

-----------------------------------------------------------------------------
(* The script. *)

Parsed == p > Len(body)

\* getBody returns a C string.
GetBody_CString ==
    /\ fault = "none" /\ got = <<>> /\ (p = 1 \/ Parsed)
    /\ got' = <<CString(Copy)>>
    /\ UNCHANGED <<body, p, fields, fault>>

\* Request::getBody, of a form or of any other body: body_len bytes of the copy,
\* or of what lies behind it.
GetBody ==
    /\ fault = "none" /\ got = <<>> /\ (p = 1 \/ Parsed)
    /\ IF Len(body) <= Len(Copy)
       THEN got' = <<SubSeq(Copy, 1, Len(body))>> /\ UNCHANGED fault
       ELSE fault' = "read_past" /\ UNCHANGED got
    /\ UNCHANGED <<body, p, fields>>

-----------------------------------------------------------------------------
(* The specification. *)

Init ==
    /\ body \in Strings(MaxLen)
    /\ p = 1
    /\ got = <<>>
    /\ fields = [k \in {} |-> <<>>]
    /\ fault = "none"

Terminated == (Parsed \/ fault # "none") /\ UNCHANGED vars

Next == ParseField \/ ParsePast \/ GetBody \/ Terminated

Spec == Init /\ [][Next]_vars

-----------------------------------------------------------------------------
(* Reference definitions: what a form means, without loops. *)

\* The escapes of a string cannot overlap: a digit is no %.
Escapes(s) == {i \in 1..Len(s) : Escape(s, i)}
Kept(s) == {i \in 1..Len(s) : i - 1 \notin Escapes(s) /\ i - 2 \notin Escapes(s)}

\* The byte that stands at a kept place.
Meaning(s, i) ==
    IF i \in Escapes(s) THEN 16 * hv(s[i + 1]) + hv(s[i + 2])
    ELSE IF s[i] = Plus THEN Space ELSE s[i]

\* The k-th kept place.
KeptPlace(s, k) == CHOOSE i \in Kept(s) : Cardinality({j \in Kept(s) : j <= i}) = k

Decoded(s) == [k \in 1..Cardinality(Kept(s)) |-> Meaning(s, KeptPlace(s, k))]

\* What a browser sends for a byte: letters and digits are sent as they are.
HexOf(d) == IF d < 10 THEN 48 + d ELSE 55 + d
EncodedByte(c) ==
    IF c \in Digits \cup 65..90 \cup 97..122 THEN <<c>>
    ELSE IF c = Space THEN <<Plus>>
    ELSE <<Percent, HexOf(c \div 16), HexOf(c % 16)>>
Encoded(s) ==
    LET enc[i \in 0..Len(s)] == IF i = 0 THEN <<>> ELSE enc[i - 1] \o EncodedByte(s[i])
    IN  enc[Len(s)]

\* The fields parsed so far, as pairs of a first and a last place: the longest
\* pieces of the body with no & in them.
FieldsParsed ==
    {f \in (1..Len(body)) \X (1..Len(body)) :
        /\ f[1] <= f[2] /\ f[2] + 1 < p
        /\ f[1] = 1 \/ body[f[1] - 1] = Amp
        /\ f[2] = Len(body) \/ body[f[2] + 1] = Amp
        /\ \A i \in f[1]..f[2] : body[i] # Amp}

\* The last place of a field's name: the = comes next, or the end.
NameEnd(f) == Max({j \in (f[1] - 1)..f[2] : \A i \in f[1]..j : body[i] # Equals})
Name(f) == Decoded(SubSeq(body, f[1], NameEnd(f)))
Named(k) == {f \in FieldsParsed : Name(f) # <<>> /\ CString(Name(f)) = k}

-----------------------------------------------------------------------------
(* Properties. *)

\* laure_url_decode agrees with the definition of the encoding on every string,
\* well formed or not: a % that no two digits follow stands for itself, also
\* next to the end of the input.  And it gives back what was encoded.
DecodeExact ==
    p = 1 =>
       /\ UrlDecode(body) = Decoded(body)
       /\ UrlDecode(Encoded(body)) = body

\* The script finds a field under exactly the names that the form has, empty
\* names apart, wherever the body has empty fields, a second = or escapes.
NamesExact == DOMAIN fields = {CString(Name(f)) : f \in {g \in FieldsParsed : Name(g) # <<>>}}

\* The field's value: as many bytes as it has, from somewhere in the field.
ValueOf(f, val) ==
    LET vl == IF NameEnd(f) = f[2] THEN 0 ELSE f[2] - NameEnd(f) - 1
    IN  \E a \in f[1]..(f[2] + 1 - vl) : val = CString(Decoded(SubSeq(body, a, a + vl - 1)))

\* A name's value is decoded from bytes of the last field of that name, as many
\* as the field's value has, and from no other field.  (Which bytes they are is
\* util.c:91: those the field begins with, not those after its =.)
ValuesOwn ==
    \A k \in DOMAIN fields :
        \E f \in Named(k) :
            /\ \A g \in Named(k) : g[1] <= f[1]
            /\ ValueOf(f, fields[k])

\* What post() finds: the names of the form, each with bytes of its own last
\* field, wherever the fields begin and end in the body.
FieldsExact == NamesExact /\ ValuesOwn

NulInside == \E i \in 1..(Len(body) - 1) : body[i] = NUL

\* A body that getBody gives to the script without reading past the copy is the
\* body as it came, a NUL at its end and all, and has no NUL before its last
\* byte: of a body with one, what getBody returns comes in part from behind the
\* copy (http_server.c:306), as the copy and the length come from different calls.
BodyExact == got # <<>> => got = <<body>> /\ ~NulInside

\* The parser and getBody look past the copy of the body only if the body has a
\* NUL that is not its last byte (http_server.c:180).
KnownReadPast ==
    fault = "read_past" => NulInside

-----------------------------------------------------------------------------
(* The inductive invariant. *)

\* A field begins where the body does, or behind an &.
PlaceOK ==
    /\ p \in 1..(Len(body) + 2)
    /\ p = 1 \/ p = Len(body) + 2 \/ body[p - 1] = Amp

FormInv == body \in Seq(Bytes) /\ PlaceOK /\ FieldsExact /\ BodyExact /\ KnownReadPast

=============================================================================
