---------------------------- MODULE PersonalData ----------------------------
(***************************************************************************)
(* Recognising, classifying and masking personal data and secrets           *)
(* (crates/residency/src/lib.rs, crates/guardrails/src/detect.rs,           *)
(* crates/unicode/src/lib.rs).                                              *)
(*                                                                          *)
(* A text is a sequence of spans; a regular expression matches a whole span *)
(* or nothing.  A span of word "id" has a body of digits (0..9) and letters *)
(* (A is 10, Z is 35), written in groups with a separator, perhaps in lower *)
(* case, perhaps with invisible or look-alike characters (hidden), perhaps  *)
(* next to further digits (not isolated).  Any other word stands for the    *)
(* one recogniser of that name, with the judgement its validator makes.     *)
(***************************************************************************)
EXTENDS Integers, Sequences, FiniteSets, SequencesExt

Id(body, groups, sep) ==
    [word |-> "id", body |-> body, groups |-> groups, sep |-> sep,
     lower |-> FALSE, hidden |-> FALSE, isolated |-> TRUE]
Word(w, value) ==
    [word |-> w, body |-> <<>>, groups |-> <<>>, sep |-> value,
     lower |-> FALSE, hidden |-> FALSE, isolated |-> TRUE]

Total(s) == FoldLeft(LAMBDA a, b : a + b, 0, s)
AllDigits(b) == \A i \in DOMAIN b : b[i] < 10
AllLetters(b) == \A i \in DOMAIN b : b[i] >= 10
Weighted(b, ws) == Total([i \in DOMAIN ws |-> b[i] * ws[i]])

-----------------------------------------------------------------------------
\* Check digits

\* verhoeff.rs: the multiplication table of the dihedral group and the permutations.
VD == <<<<0, 1, 2, 3, 4, 5, 6, 7, 8, 9>>, <<1, 2, 3, 4, 0, 6, 7, 8, 9, 5>>,
        <<2, 3, 4, 0, 1, 7, 8, 9, 5, 6>>, <<3, 4, 0, 1, 2, 8, 9, 5, 6, 7>>,
        <<4, 0, 1, 2, 3, 9, 5, 6, 7, 8>>, <<5, 9, 8, 7, 6, 0, 4, 3, 2, 1>>,
        <<6, 5, 9, 8, 7, 1, 0, 4, 3, 2>>, <<7, 6, 5, 9, 8, 2, 1, 0, 4, 3>>,
        <<8, 7, 6, 5, 9, 3, 2, 1, 0, 4>>, <<9, 8, 7, 6, 5, 4, 3, 2, 1, 0>>>>

\* The fifth permutation with its last entry mistyped.
VPMutant ==
      <<<<0, 1, 2, 3, 4, 5, 6, 7, 8, 9>>, <<1, 5, 7, 6, 2, 8, 3, 0, 9, 4>>,
        <<5, 8, 0, 3, 7, 9, 6, 1, 4, 2>>, <<8, 9, 1, 6, 0, 4, 3, 5, 2, 7>>,
        <<9, 4, 5, 3, 1, 2, 6, 8, 7, 7>>, <<4, 2, 8, 6, 5, 7, 3, 9, 0, 1>>,
        <<2, 7, 9, 3, 8, 0, 6, 4, 1, 5>>, <<7, 0, 4, 6, 9, 1, 3, 2, 5, 8>>>>

VP == <<<<0, 1, 2, 3, 4, 5, 6, 7, 8, 9>>, <<1, 5, 7, 6, 2, 8, 3, 0, 9, 4>>,
        <<5, 8, 0, 3, 7, 9, 6, 1, 4, 2>>, <<8, 9, 1, 6, 0, 4, 3, 5, 2, 7>>,
        <<9, 4, 5, 3, 1, 2, 6, 8, 7, 0>>, <<4, 2, 8, 6, 5, 7, 3, 9, 0, 1>>,
        <<2, 7, 9, 3, 8, 0, 6, 4, 1, 5>>, <<7, 0, 4, 6, 9, 1, 3, 2, 5, 8>>>>

validate(digits) ==
    /\ digits # <<>>
    /\ LET rev == Reverse(digits)
           perm == [i \in DOMAIN rev |-> VP[((i - 1) % 8) + 1][rev[i] + 1]]
       IN  FoldLeft(LAMBDA c, p : VD[c + 1][p + 1], 0, perm) = 0

is_valid_aadhaar(b) == Len(b) = 12 /\ validate(b)

\* The fourth character names the kind of holder.
is_valid_pan(b) == Len(b) = 10 /\ b[4] \in {25, 12, 17, 15, 10, 29, 11, 21, 19, 16, 14, 13, 20}

is_valid_ssn(b) ==
    LET area == b[1] * 100 + b[2] * 10 + b[3]
    IN  /\ Len(b) = 9 /\ area \notin {0, 666} /\ area < 900
        /\ b[4] * 10 + b[5] # 0 /\ \E i \in 6..9 : b[i] # 0

\* Modulo 97 of the number with the first four characters moved to the end.
is_valid_iban(b) ==
    /\ Len(b) \in 15..34
    /\ FoldLeft(LAMBDA r, c : (IF c < 10 THEN r * 10 + c ELSE r * 100 + c) % 97, 0,
                SubSeq(b, 5, Len(b)) \o SubSeq(b, 1, 4)) = 1

CpfCheck(b, n) ==
    LET r == (Weighted(b, [i \in 1..n |-> n + 2 - i]) * 10) % 11 IN IF r = 10 THEN 0 ELSE r
is_valid_cpf(b) ==
    /\ Len(b) = 11 /\ \E i \in DOMAIN b : b[i] # b[1]
    /\ CpfCheck(b, 9) = b[10] /\ CpfCheck(b, 10) = b[11]

NricTable(prefix) ==
    CASE prefix \in {28, 29} -> <<19, 35, 18, 17, 16, 15, 14, 13, 12, 11, 10>>
      [] prefix \in {15, 16} -> <<33, 32, 30, 29, 27, 26, 25, 23, 22, 21, 20>>
      [] prefix = 22 -> <<33, 32, 30, 29, 27, 26, 25, 23, 19, 21, 20>>
is_valid_nric(b) ==
    /\ Len(b) = 9
    /\ LET offset == CASE b[1] \in {29, 16} -> 4 [] b[1] = 22 -> 3 [] OTHER -> 0
           sum == Weighted(SubSeq(b, 2, 8), <<2, 7, 6, 5, 4, 3, 2>>) + offset
       IN  b[9] = NricTable(b[1])[(sum % 11) + 1]

is_valid_emirates_id(b) ==
    /\ Len(b) = 15 /\ SubSeq(b, 1, 3) = <<7, 8, 4>>
    /\ Weighted(SubSeq(b, 4, 7), <<1000, 100, 10, 1>>) \in 1900..2099

is_valid_saudi_id(b) ==
    /\ Len(b) = 10 /\ b[1] \in {1, 2} /\ AllDigits(b)
    /\ Total([i \in 1..10 |-> IF i % 2 = 1 THEN ((2 * b[i]) \div 10) + ((2 * b[i]) % 10) ELSE b[i]]) % 10 = 0

is_valid_gstin(b) ==
    /\ Len(b) = 15
    /\ LET p(i) == b[i] * (IF i % 2 = 1 THEN 1 ELSE 2)
           sum == Total([i \in 1..14 |-> (p(i) \div 36) + (p(i) % 36)])
       IN  b[15] = (36 - (sum % 36)) % 36

is_valid_ifsc(b) == Len(b) = 11 /\ AllLetters(SubSeq(b, 1, 4)) /\ b[5] = 0

is_valid_tfn(b) == Len(b) = 9 /\ Weighted(b, <<1, 4, 3, 7, 5, 8, 6, 9, 10>>) % 11 = 0

is_valid_my_number(b) ==
    /\ Len(b) = 12
    /\ LET r == Weighted(Reverse(SubSeq(b, 1, 11)), <<2, 3, 4, 5, 6, 7, 2, 3, 4, 5, 6>>) % 11
       IN  b[12] = IF r <= 1 THEN 0 ELSE 11 - r

\* The guardrails crate has the same validators again.
is_aadhaar(b) == is_valid_aadhaar(b)
is_pan(b) == is_valid_pan(b)
is_gstin(b) == is_valid_gstin(b)
is_ifsc(b) == is_valid_ifsc(b)
is_iban(b) == is_valid_iban(b)
is_cpf(b) == is_valid_cpf(b)
is_nric(b) == is_valid_nric(b)
is_emirates_id(b) == is_valid_emirates_id(b)
is_saudi_id(b) == is_valid_saudi_id(b)
is_tfn(b) == is_valid_tfn(b)
is_my_number(b) == ~is_aadhaar(b) /\ is_valid_my_number(b)
is_card(b) ==
    /\ Len(b) \in 13..19
    /\ LET rev == Reverse(b)
           v(i) == IF i % 2 = 1 THEN rev[i] ELSE IF 2 * rev[i] > 9 THEN 2 * rev[i] - 9 ELSE 2 * rev[i]
       IN  Total([i \in DOMAIN rev |-> v(i)]) % 10 = 0

-----------------------------------------------------------------------------
\* Regular expressions

Grouped(s, gs, seps) ==
    AllDigits(s.body) /\ Len(s.body) = Total(gs) /\ s.sep \in seps /\ (s.sep = "" \/ s.groups = gs)
Upper(s) == ~s.lower /\ s.sep = ""
Lead(s, set) == s.body # <<>> /\ s.body[1] \in set

AADHAAR(s) == Grouped(s, <<4, 4, 4>>, {"", " ", ".", "-"}) /\ Lead(s, 2..9)
PAN(s) == /\ Len(s.body) = 10 /\ s.sep = "" /\ AllLetters(SubSeq(s.body, 1, 5))
          /\ AllDigits(SubSeq(s.body, 6, 9)) /\ s.body[10] >= 10
IBAN(s) == /\ Len(s.body) \in 7..36 /\ ~s.lower /\ s.sep \in {"", " "}
           /\ AllLetters(SubSeq(s.body, 1, 2)) /\ AllDigits(SubSeq(s.body, 3, 4))
CPF(s) == AllDigits(s.body) /\ Len(s.body) = 11 /\ s.sep = "..-"
NRIC(s) == /\ Len(s.body) = 9 /\ Upper(s) /\ Lead(s, {28, 29, 15, 16, 22})
           /\ AllDigits(SubSeq(s.body, 2, 8)) /\ s.body[9] >= 10
EMIRATES_ID(s) == Grouped(s, <<3, 4, 7, 1>>, {"", "-", " "}) /\ SubSeq(s.body, 1, 3) = <<7, 8, 4>>
SAUDI_ID(s) == Grouped(s, <<10>>, {""}) /\ Lead(s, {1, 2})
IFSC(s) == Len(s.body) = 11 /\ Upper(s) /\ AllLetters(SubSeq(s.body, 1, 4)) /\ s.body[5] = 0
GSTIN(s) == /\ Len(s.body) = 15 /\ Upper(s) /\ AllDigits(SubSeq(s.body, 1, 2)) /\ s.body[14] = 35
            /\ AllLetters(SubSeq(s.body, 3, 7)) /\ AllDigits(SubSeq(s.body, 8, 11)) /\ s.body[12] >= 10
TFN(s) == Grouped(s, <<3, 3, 3>>, {"", "-", " "})
MY_NUMBER(s) == Grouped(s, <<4, 4, 4>>, {"", "-", " "})
CARD(s) == AllDigits(s.body) /\ Len(s.body) \in 13..19 /\ s.sep \in {"", " ", "-"}
\* The two crates differ in the separators they ask for.
SSN(s, seps) == Grouped(s, <<3, 2, 4>>, seps)
PHONE(s, seps) == \/ Grouped(s, <<3, 3, 4>>, seps)
                  \/ Grouped(s, <<5, 5>>, {" ", "-"}) /\ Lead(s, 6..9)

-----------------------------------------------------------------------------
\* Residency

\* normalize_for_recognition: invisible characters stripped, look-alikes folded.
normalize_for_recognition(text) == [i \in DOMAIN text |-> [text[i] EXCEPT !.hidden = FALSE]]
Cue(text) == \E i \in DOMAIN text : text[i].word = "pan_cue" /\ ~text[i].hidden
pan_in_context(s, cue) == is_valid_pan(s.body) /\ (~s.lower \/ cue)

EntityType == {"aadhaar", "pan", "ssn", "iban", "cpf", "nric", "emirates_id", "saudi_id",
               "ifsc", "gstin", "tfn", "my_number", "email", "phone"}
Entity(kind, s, cue) ==
    \/ s.word = kind
    \/ /\ s.word = "id" /\ ~s.hidden
       /\ CASE kind = "aadhaar" -> AADHAAR(s) /\ is_valid_aadhaar(s.body)
            [] kind = "pan" -> PAN(s) /\ pan_in_context(s, cue)
            [] kind = "ssn" -> SSN(s, {"-"}) /\ is_valid_ssn(s.body)
            [] kind = "iban" -> IBAN(s) /\ is_valid_iban(s.body)
            [] kind = "cpf" -> CPF(s) /\ is_valid_cpf(s.body)
            [] kind = "nric" -> NRIC(s) /\ is_valid_nric(s.body)
            [] kind = "emirates_id" -> EMIRATES_ID(s) /\ is_valid_emirates_id(s.body)
            [] kind = "saudi_id" -> SAUDI_ID(s) /\ is_valid_saudi_id(s.body)
            [] kind = "ifsc" -> IFSC(s) /\ is_valid_ifsc(s.body)
            [] kind = "gstin" -> GSTIN(s) /\ is_valid_gstin(s.body)
            [] kind = "tfn" -> TFN(s) /\ is_valid_tfn(s.body)
            [] kind = "my_number" -> MY_NUMBER(s) /\ is_valid_my_number(s.body)
            [] kind = "email" -> FALSE
            [] kind = "phone" -> PHONE(s, {"-", ".", " "})
classify(text) ==
    LET t == normalize_for_recognition(text)
    IN  {k \in EntityType : \E i \in DOMAIN t : Entity(k, t[i], Cue(t))}
required_region(requested, entities) == IF entities # {} THEN requested ELSE "any"

-----------------------------------------------------------------------------
\* Guardrails

\* is_json_secret_value, is_connection_string, is_schema_dump: a template, a placeholder,
\* a connection string without user and a harmless column list are let through.
is_json_secret_value(value) == value \notin {"short", "templated", "placeholder"}
is_connection_string(value) == value # "no_userinfo"
is_ipv4(value) == value # "octet_above_255"
is_schema_dump(value) == value # "no_sensitive_column"

Secrets == <<"private_key", "jwt", "openai_key", "aws_key", "github_token", "slack_token",
             "stripe_key", "google_api_key", "routeplane_key">>
Structured(kind, s) ==
    /\ s.word = kind /\ ~s.hidden
    /\ CASE kind = "json_embedded_secret" -> is_json_secret_value(s.sep)
         [] kind = "ipv4" -> is_ipv4(s.sep)
         [] kind = "connection_string" -> is_connection_string(s.sep)
         [] kind = "db_schema_dump" -> is_schema_dump(s.sep)
         [] OTHER -> TRUE
StructuredKinds == <<"json_embedded_secret", "connection_string", "cloud_resource_id", "db_schema_dump">>

\* Does the recogniser of one pass take the span, given the PAN cue of the text?
Hit(kind, s, cue) ==
    \/ Structured(kind, s)
    \/ /\ s.word = "id" /\ ~s.hidden
       /\ CASE kind = "aadhaar" -> AADHAAR(s) /\ is_aadhaar(s.body)
            [] kind = "credit_card" -> CARD(s) /\ is_card(s.body)
            [] kind = "iban" -> IBAN(s) /\ is_iban(s.body)
            [] kind = "cpf" -> CPF(s) /\ is_cpf(s.body)
            [] kind = "nric" -> NRIC(s) /\ is_nric(s.body)
            [] kind = "gstin" -> GSTIN(s) /\ is_gstin(s.body)
            [] kind = "ifsc" -> IFSC(s) /\ is_ifsc(s.body)
            [] kind = "emirates_id" -> EMIRATES_ID(s) /\ is_emirates_id(s.body)
            [] kind = "my_number" -> MY_NUMBER(s) /\ is_my_number(s.body) /\ s.isolated
            [] kind = "saudi_id" -> SAUDI_ID(s) /\ is_saudi_id(s.body)
            [] kind = "tfn" -> TFN(s) /\ is_tfn(s.body) /\ s.isolated
            [] kind = "ssn" -> SSN(s, {"-", " "})
            [] kind = "pan" -> PAN(s) /\ is_pan(s.body) /\ (~s.lower \/ cue)
            [] kind = "phone" -> PHONE(s, {"", "-", ".", " "})
            [] OTHER -> FALSE

\* The masked value of a JSON secret keeps its key, and is a value as good as any other.
Mask(kind) == IF kind = "json_embedded_secret" THEN Word(kind, "mask") ELSE Word("masked", kind)
Passes(text, order, Replace(_)) ==
    LET cue == Cue(text)
        Pass(s, kind) == IF Hit(kind, s, cue) THEN Replace(kind) ELSE s
    IN  [i \in DOMAIN text |-> FoldLeft(Pass, text[i], order)]

\* mask_invisible_smuggled: the first recogniser that takes the span once it is stripped;
\* PAN without its entity letter or cue, and no question whether a number stands alone.
SmuggledOrder == Secrets \o
    <<"aadhaar", "credit_card", "iban", "cpf", "nric", "emirates_id", "my_number", "saudi_id", "tfn",
      "ssn", "gstin", "ifsc", "pan", "ipv4", "email", "phone">>
Smuggles(kind, s) ==
    LET bare == [s EXCEPT !.hidden = FALSE, !.isolated = TRUE]
    IN  IF kind = "pan" THEN s.word = "id" /\ PAN(bare) ELSE Hit(kind, bare, FALSE)
mask_invisible_smuggled(text) ==
    LET Takers(s) == {k \in DOMAIN SmuggledOrder : Smuggles(SmuggledOrder[k], s)}
        First(s) == SmuggledOrder[CHOOSE k \in Takers(s) : \A l \in Takers(s) : k <= l]
    IN  [i \in DOMAIN text |-> IF text[i].hidden /\ Takers(text[i]) # {} THEN Mask(First(text[i])) ELSE text[i]]

\* redact without the pass for IFSC.
RedactOrderMutant == <<"private_key">> \o StructuredKinds \o Tail(Secrets) \o
    <<"aadhaar", "credit_card", "iban", "cpf", "nric", "gstin", "emirates_id", "my_number",
      "saudi_id", "tfn", "ssn", "pan", "ipv4", "email", "phone">>

RedactOrder == <<"private_key">> \o StructuredKinds \o Tail(Secrets) \o
    <<"aadhaar", "credit_card", "iban", "cpf", "nric", "gstin", "ifsc", "emirates_id", "my_number",
      "saudi_id", "tfn", "ssn", "pan", "ipv4", "email", "phone">>
redact(text) == Passes(mask_invisible_smuggled(text), RedactOrder, Mask)

\* redact_with_pii_tokens: the caller replaces what it can reverse, and there is no pass
\* for GSTIN and none for IFSC.
Tokenizable == {"phone", "ssn", "credit_card", "aadhaar", "emirates_id", "my_number", "saudi_id", "tfn"}
TokenOrder == SelectSeq(RedactOrder, LAMBDA k : k \notin {"gstin", "ifsc"})
tok_or_mask(kind, accepts) ==
    IF kind \in Tokenizable \cap accepts THEN Word("surrogate", kind) ELSE Mask(kind)
redact_with_pii_tokens(text, accepts) ==
    LET Replace(kind) == tok_or_mask(kind, accepts)
    IN  Passes(mask_invisible_smuggled(text), TokenOrder, Replace)

PiiKinds == {"email", "phone", "ssn", "pan", "aadhaar", "gstin", "ifsc", "credit_card", "ipv4", "iban",
             "cpf", "nric", "emirates_id", "saudi_id", "tfn", "my_number"}
scan_pii(text) == {k \in PiiKinds : \E i \in DOMAIN text : Hit(k, text[i], Cue(text))}
scan_structured(text) == {k \in ToSet(StructuredKinds) : \E i \in DOMAIN text : Structured(k, text[i])}
scan_secrets(text) ==
    {k \in ToSet(Secrets) : \E i \in DOMAIN text : Hit(k, text[i], FALSE)} \cup scan_structured(text)

-----------------------------------------------------------------------------
\* Properties

\* Every digit (or letter) of an accepted identifier carries its check: no single
\* substitution by another digit is accepted, and the Verhoeff code also refuses every
\* exchange of two different neighbours (verhoeff.rs; is_card, is_iban, is_tfn, is_gstin,
\* is_saudi_id and is_nric).
CheckDigitsCatch(Valid(_), b, transpositions) ==
    Valid(b) =>
        /\ \A i \in DOMAIN b, d \in 0..9 : b[i] < 10 /\ d # b[i] => ~Valid([b EXCEPT ![i] = d])
        /\ transpositions => \A i \in 1..(Len(b) - 1) :
               b[i] # b[i + 1] => ~Valid([b EXCEPT ![i] = b[i + 1], ![i + 1] = b[i]])

\* What the residency gate or a scan calls personal data, and every secret, is gone after
\* redact (detect.rs), hidden characters or not, and masking a masked text changes
\* nothing.  Three things the gate sees are not promised: digits next to a longer run, a
\* lower-case PAN whose only cue is itself hidden, and a My Number that also passes the
\* Aadhaar check but starts below 2.
Unpromised(s) ==
    \/ ~s.isolated \/ (s.word = "pan_cue" /\ s.hidden)
    \/ MY_NUMBER(s) /\ is_aadhaar(s.body) /\ s.body[1] < 2
RedactionComplete(text) ==
    \A out \in {redact(text)} :
        /\ scan_pii(out) = {}
        /\ (\A i \in DOMAIN text : ~Unpromised(text[i])) => classify(out) = {}
        /\ \A i \in DOMAIN text, k \in ToSet(Secrets \o StructuredKinds) :
             Hit(k, text[i], FALSE) => out[i] = Mask(k)
        /\ redact(out) = out

\* The comment in is_my_number: a number that passes the Aadhaar check "is still masked,
\* just under the correct category" (detect.rs, is_my_number).
AadhaarTakesOver(text) ==
    \A i \in DOMAIN text :
        /\ text[i].word = "id" /\ text[i].isolated /\ MY_NUMBER(text[i])
        /\ is_aadhaar(text[i].body) /\ is_valid_my_number(text[i].body)
        => redact(text)[i].word = "masked"

\* The comment on redact_with_pii_tokens: apart from the categories it may tokenize,
\* everything "is masked identically to redact" (detect.rs).
TokensMaskAlike(text) == redact_with_pii_tokens(text, {}) = redact(text)
=============================================================================
