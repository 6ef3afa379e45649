------------------------------ MODULE TypedText ------------------------------
(***************************************************************************)
(* A text typed one character at a time, as a user types a number or a     *)
(* message and an LLM its answer.  Every reachable state is one input of   *)
(* TextRules, and a step compares two inputs one character apart.          *)
(***************************************************************************)
EXTENDS TextRules

CONSTANTS
    Alphabet,   \* The characters typed.
    MaxLength,  \* Bound: characters typed.
    Limits      \* The MAX_REPLY_LENGTHs tried.

ASSUME TypingAssumption ==
    /\ MaxLength \in Nat
    /\ Limits \subseteq Nat

VARIABLE text

Init == text = <<>>

Type(ch) == Len(text) < MaxLength /\ text' = Append(text, ch)

Next == \E ch \in Alphabet : Type(ch)

Spec == Init /\ [][Next]_text

-----------------------------------------------------------------------------
(* normalize_phone *)

Number == NormalizePhone(text)

(***************************************************************************)
(* All the ways to write a number that phone.py lists lead to one key: the *)
(* key itself, 00 for the plus, no plus, a channel prefix, separators.     *)
(***************************************************************************)
SpellingsAgree ==
    Number # Invalid =>
        LET digits == Tail(Number)
        IN  \A spelling \in {Number, digits, <<"0", "0">> \o digits,
                             <<" ", "s", "m", "s", ":">> \o Number,
                             <<"+", " ", digits[1], "-">> \o Tail(digits)} :
                NormalizePhone(spelling) = Number

(***************************************************************************)
(* Two numbers never become one key: the key has every digit dialled after *)
(* the channel prefix, in order, but for the 00 that stands for the plus.  *)
(***************************************************************************)
KeepsEveryDigit ==
    Number # Invalid =>
        \E i \in 0 .. Len(text) :
            /\ \A j \in DOMAIN text : text[j] = ":" => 0 < i /\ i <= j
            /\ i > 0 => text[i] = ":"
            /\ Only(SubSeq(text, i + 1, Len(text)), AsciiDigits \cup OtherDigits)
               \in {Tail(Number), <<"0", "0">> \o Tail(Number)}

(***************************************************************************)
(* Typing anything but a digit, a plus or a colon never changes which      *)
(* conversation key a number leads to.                                     *)
(***************************************************************************)
SeparatorsIrrelevant ==
    [][ text'[Len(text')] \notin AsciiDigits \cup OtherDigits \cup {"+", ":"} =>
            NormalizePhone(text') = NormalizePhone(text) ]_text

-----------------------------------------------------------------------------
(* classify_feedback *)

\* All of s before position i and after position j is of chars.
Surround(chars, s, i, j) == \A k \in DOMAIN s : k < i \/ j < k => s[k] \in chars

\* One of the tokens in any case, right next to it full stops and exclamation marks
\* only, and only blanks outside of those; a modifier may stand anywhere.
Consists(tokens) ==
    LET plain == Without(text, Modifiers)
    IN  \E a, b \in DOMAIN plain :
            /\ Surround(Blanks, plain, a, b)
            /\ LET marked == SubSeq(plain, a, b)
               IN  \E i, j \in DOMAIN marked :
                       /\ Surround({".", "!"}, marked, i, j)
                       /\ Casefold(SubSeq(marked, i, j)) \in tokens

(***************************************************************************)
(* "Only a message that consists entirely of such a token counts"          *)
(* (feedback.py), and every one that does: " OK! " is a rating, "o k",     *)
(* "ok !" and "ok1" are questions for the LLM.                             *)
(***************************************************************************)
OnlyTokensRate ==
    /\ ClassifyFeedback(text) = "positive" <=> Consists(PositiveTokens)
    /\ ClassifyFeedback(text) = "negative" <=> Consists(NegativeTokens)

(***************************************************************************)
(* A blank, a skin tone or a presentation selector after a rating never    *)
(* makes it a question, in whatever order they are typed: the second strip *)
(* of normalize_feedback_token.                                            *)
(***************************************************************************)
RatingSurvives ==
    [][ /\ ClassifyFeedback(text) # "question"
        /\ text'[Len(text')] \in Blanks \cup Modifiers
        => ClassifyFeedback(text') = ClassifyFeedback(text) ]_text

-----------------------------------------------------------------------------
(* _fit_sms *)

(***************************************************************************)
(* MAX_REPLY_LENGTH is a "hard character cap" (README.md), for every cap   *)
(* that leaves room for the dots; a text that fits is sent whole, one that *)
(* does not is cut and says so; and nothing but blanks becomes nothing.    *)
(***************************************************************************)
RepliesFit ==
    \A limit \in Limits :
        LET fitted == FitSms(text, limit)
            t == Strip(text, Blanks)
        IN  limit >= 3 =>
                /\ Len(fitted) <= limit
                /\ fitted = <<>> => t = <<>>
                /\ Len(t) <= limit => fitted = t
                /\ Len(t) > limit =>
                       \E n \in 0 .. limit - 3 : fitted = SubSeq(t, 1, n) \o Dots
=============================================================================
