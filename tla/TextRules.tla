------------------------------ MODULE TextRules ------------------------------
(***************************************************************************)
(* What the service does to the texts of its users and of its LLM:         *)
(* normalize_phone (app/core/phone.py), classify_feedback                  *)
(* (app/services/feedback.py) and _fit_sms                                 *)
(* (app/services/conversation_service.py).                                 *)
(*                                                                         *)
(* A text is a sequence of characters.  A character is a string, of one    *)
(* letter where it can be typed here and a name where it can not.          *)
(***************************************************************************)
EXTENDS Integers, Sequences

CONSTANTS
    MinDigits,  \* Digits of an E.164 number, after the plus: 7 in the code,
    MaxDigits   \* and 15.

ASSUME TextAssumption ==
    /\ MinDigits \in Nat \ {0}
    /\ MaxDigits \in Nat

AsciiDigits == {"0", "1", "2", "3", "4", "5", "6", "7", "8", "9"}
\* The digits of other scripts, which \d of the re module matches too.
OtherDigits == {"arabic three"}
Blanks == {" "}
Modifiers == {"skin tone", "presentation selector"}

-----------------------------------------------------------------------------
(* The methods of str the code calls. *)

Smallest(S) == CHOOSE i \in S : \A j \in S : i <= j
Largest(S) == CHOOSE i \in S : \A j \in S : i >= j

\* s.strip(chars)
Strip(s, chars) ==
    LET kept == {i \in DOMAIN s : s[i] \notin chars}
    IN  IF kept = {} THEN <<>> ELSE SubSeq(s, Smallest(kept), Largest(kept))

\* What is left of s when all but chars is removed.
Only(s, chars) ==
    LET kept[n \in 0 .. Len(s)] ==
            IF n = 0 THEN <<>>
            ELSE IF s[n] \in chars THEN Append(kept[n - 1], s[n])
            ELSE kept[n - 1]
    IN  kept[Len(s)]

Without(s, chars) == Only(s, {s[i] : i \in DOMAIN s} \ chars)

\* s[: n]: a negative n counts from the end.
UpTo(s, n) ==
    LET stop == IF n < 0 THEN Len(s) + n ELSE n
    IN  SubSeq(s, 1, IF stop > Len(s) THEN Len(s) ELSE stop)

\* s.rstrip()
StripRight(s) ==
    LET kept == {i \in DOMAIN s : s[i] \notin Blanks}
    IN  IF kept = {} THEN <<>> ELSE SubSeq(s, 1, Largest(kept))

-----------------------------------------------------------------------------
(* normalize_phone *)

Invalid == <<"invalid">>

\* Mistake: split at the last colon.
AfterLastColon(s) ==
    LET colons == {i \in DOMAIN s : s[i] = ":"}
    IN  IF colons = {} THEN s ELSE SubSeq(s, Largest(colons) + 1, Len(s))

\* "whatsapp:+36..." is the number after the first colon.
AfterChannel(s) ==
    LET colons == {i \in DOMAIN s : s[i] = ":"}
    IN  IF colons = {} THEN s ELSE SubSeq(s, Smallest(colons) + 1, Len(s))

IsE164(s) ==
    /\ Len(s) - 1 \in MinDigits .. MaxDigits
    /\ s[1] = "+"
    /\ s[2] \in AsciiDigits \ {"0"}
    /\ \A i \in 3 .. Len(s) : s[i] \in AsciiDigits \cup OtherDigits

\* Mistake: only blanks are separators.
OnlyVisible(s) == Without(s, Blanks)

OnlyDialled(s) == Only(s, AsciiDigits \cup OtherDigits \cup {"+"})

\* Mistake: the international prefix 00 is forgotten.
WithPlusOnly(s) == IF s # <<>> /\ s[1] = "+" THEN s ELSE <<"+">> \o s

\* A leading 00 or nothing stands for the plus.
WithPlus(s) ==
    IF Len(s) >= 2 /\ s[1] = "0" /\ s[2] = "0" THEN <<"+">> \o SubSeq(s, 3, Len(s))
    ELSE IF s # <<>> /\ s[1] = "+" THEN s
    ELSE <<"+">> \o s

\* Invalid stands for InvalidPhoneNumberError.
NormalizePhone(raw) ==
    LET value == WithPlus(OnlyDialled(AfterChannel(Strip(raw, Blanks))))
        number == <<"+">> \o Without(Tail(value), {"+"})
    IN  IF IsE164(number) THEN number ELSE Invalid

-----------------------------------------------------------------------------
(* classify_feedback *)

PositiveTokens ==
    {<<"thumbs up">>, <<"1">>, <<"+">>, <<"y">>, <<"y", "e", "s">>, <<"o", "k">>,
     <<"o", "k", "a", "y">>, <<"g", "o", "o", "d">>,
     <<"u", "s", "e", "f", "u", "l">>}
NegativeTokens ==
    {<<"thumbs down">>, <<"0">>, <<"-">>, <<"n">>, <<"n", "o">>, <<"b", "a", "d">>,
     <<"u", "s", "e", "l", "e", "s", "s">>, <<"w", "r", "o", "n", "g">>}

Lower ==
    [A |-> "a", B |-> "b", D |-> "d", E |-> "e", F |-> "f", G |-> "g", K |-> "k",
     L |-> "l", N |-> "n", O |-> "o", R |-> "r", S |-> "s", U |-> "u", W |-> "w",
     Y |-> "y"]

\* Of the letters that occur in a token.
Casefold(s) ==
    [i \in DOMAIN s |-> IF s[i] \in DOMAIN Lower THEN Lower[s[i]] ELSE s[i]]

\* Mistake: stripped once, before the modifiers are removed.
TokenStrippedOnce(body) ==
    Casefold(Strip(Without(Strip(body, Blanks), Modifiers), {".", "!"}))

\* normalize_feedback_token
Token(body) ==
    Casefold(Strip(Strip(Without(Strip(body, Blanks), Modifiers), Blanks), {".", "!"}))

\* Mistake: a message that begins with a token is a rating.
ClassifyByFirst(body) ==
    LET Begins(tokens) ==
            \E n \in DOMAIN Token(body) : SubSeq(Token(body), 1, n) \in tokens
    IN  IF Begins(PositiveTokens) THEN "positive"
        ELSE IF Begins(NegativeTokens) THEN "negative" ELSE "question"

ClassifyFeedback(body) ==
    IF Token(body) \in PositiveTokens THEN "positive"
    ELSE IF Token(body) \in NegativeTokens THEN "negative" ELSE "question"

-----------------------------------------------------------------------------
(* _fit_sms *)

Dots == <<".", ".", ".">>

\* Mistake: the dots are not counted.
FitSmsBeforeDots(text, limit) ==
    LET t == Strip(text, Blanks)
    IN  IF Len(t) <= limit THEN t ELSE StripRight(UpTo(t, limit)) \o Dots

FitSms(text, limit) ==
    LET t == Strip(text, Blanks)
    IN  IF Len(t) <= limit THEN t ELSE StripRight(UpTo(t, limit - 3)) \o Dots
=============================================================================
