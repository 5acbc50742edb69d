----------------------------- MODULE Validation -----------------------------
(***************************************************************************)
(* The checks of a certificate's fields (check_domain, check_ip, check_key *)
(* in node/pallets/siip/src/lib.rs), what the proxy reads from an accepted *)
(* key (proxy/siip_certificate.py) and how it spells a key it registers    *)
(* (proxy/siip_resolve.py).  A text is a sequence of characters, a few for *)
(* each class the code tells apart.  A check is TRUE when none of the      *)
(* criteria it lists starts with "Err:".                                   *)
(***************************************************************************)
EXTENDS Filtering, SequencesExt

CONSTANTS
    DomainMaxChars,     \* DOMAIN_MAX_CHARS
    TldMin, TldMax,     \* 2 and 63
    Periods,            \* of an IP address: 3
    MaxOctet,           \* the largest u8
    MaxText             \* bound: the length of a text

ASSUME Limits == {DomainMaxChars, TldMin, TldMax, Periods, MaxOctet, MaxText}
                    \subseteq Nat
ASSUME SomeTld == TldMin > 0

BadByte == "not UTF-8"
InvalidChars == {"_"}       \* for the twelve of invalid_chars
Uppercase == {"F", "G"}
HexDigits == {"0", "2", "6", "F"}
DigitValue ==
    [c \in {"0", "2", "6"} |-> CASE c = "0" -> 0 [] c = "2" -> 2 [] c = "6" -> 6]

\* The characters typed into each field.
Alphabet == [domain |-> {".", "a", "F", "_", BadByte},
             ip     |-> {".", "+", "0", "2", "6"},
             key    |-> {":", "6", "F", "G", BadByte}]

VARIABLES field, text

Chars(s) == ToSet(s)

-----------------------------------------------------------------------------
(* check_domain *)

\* Mutant: split('.').first().
TldFirst(s) == SubSeq(s, 1, SelectInSeq(s, LAMBDA c : c = ".") - 1)

\* split('.').last()
Tld(s) == SubSeq(s, SelectLastInSeq(s, LAMBDA c : c = ".") + 1, Len(s))

DomainOk(s) ==
    /\ BadByte \notin Chars(s)
    /\ Len(s) < DomainMaxChars
    /\ Chars(s) \cap (InvalidChars \cup Uppercase) = {}
    /\ "." \in Chars(s)         \* parts.len() >= 2
    /\ Len(Tld(s)) \in TldMin..TldMax
    /\ Len(s) - 0 > 1           \* the outer tld is still ""

-----------------------------------------------------------------------------
(* check_ip *)

Dots(s) == {i \in 1..Len(s) : s[i] = "."}

\* split('.'), in any order
Sections(s) ==
    LET cuts == {0, Len(s) + 1} \cup Dots(s) IN
    {SubSeq(s, p[1] + 1, p[2] - 1) :
        p \in {q \in cuts \X cuts : /\ q[1] < q[2]
                                    /\ \A k \in cuts : k <= q[1] \/ q[2] <= k}}

\* str::parse::<u8>, which takes a leading plus and leading zeros.
IsU8(s) ==
    LET digits == IF s # <<>> /\ Head(s) = "+" THEN Tail(s) ELSE s IN
    /\ digits # <<>>
    /\ Chars(digits) \subseteq DOMAIN DigitValue
    /\ FoldLeft(LAMBDA v, c : 10 * v + DigitValue[c], 0, digits) <= MaxOctet

\* Mutant: three periods or more.
IpOkAtLeast(s) ==
    /\ BadByte \notin Chars(s)
    /\ Cardinality(Dots(s)) >= Periods
    /\ \A part \in Sections(s) : part # <<>> /\ IsU8(part)

IpOk(s) ==
    /\ BadByte \notin Chars(s)
    /\ Cardinality(Dots(s)) = Periods
    /\ \A part \in Sections(s) : part # <<>> /\ IsU8(part)

-----------------------------------------------------------------------------
(* check_key *)

\* Mutant: the position counted from one where the code counts from zero.
IsSeparatorPositionFromOne(i) == i # 1 /\ (i + 1) % 3 = 0

\* (i != 0) && ((i + 1) % 3 == 0), for i counted from one
IsSeparatorPosition(i) == i # 1 /\ i % 3 = 0

KeyOk(s) ==
    /\ BadByte \notin Chars(s)
    /\ \A i \in 1..Len(s) : IF IsSeparatorPosition(i) THEN s[i] = ":"
                            ELSE s[i] \in HexDigits
    /\ s # <<>> => Last(s) # ":"

-----------------------------------------------------------------------------
(* Keys at the proxy *)

\* public_key.replace(':', '')
Digits(s) == EntriesAt(s, {i \in 1..Len(s) : s[i] # ":"})

\* bytes.fromhex takes whole bytes.
Decodable(s) == Len(Digits(s)) % 2 = 0

Bytes(s) == [k \in 1..(Len(Digits(s)) \div 2) |->
                <<Digits(s)[2 * k - 1], Digits(s)[2 * k]>>]

\* ':'.join, in _pk_str and in register_certificate
Spell(bytes) ==
    FlattenSeq([k \in 1..Len(bytes) |->
                    IF k = 1 THEN bytes[k] ELSE <<":">> \o bytes[k]])

-----------------------------------------------------------------------------
(* Every text, one character after the other *)

Init == field \in DOMAIN Alphabet /\ text = <<>>

Type(c) ==
    /\ Len(text) < MaxText
    /\ text' = Append(text, c)
    /\ UNCHANGED field

Next == \E c \in Alphabet[field] : Type(c)

Spec == Init /\ [][Next]_<<field, text>>

-----------------------------------------------------------------------------
(* Properties *)

\* The domains accepted are those that end in a dot and a TLD of a length in
\* the range, with allowed characters before it: none at all will do.
DomainsEndInTld ==
    field = "domain" =>
        (DomainOk(text) <=>
            \E n \in 0..(DomainMaxChars - 1), tld \in TldMin..TldMax :
                /\ Len(text) = n + tld + 1 /\ Len(text) < DomainMaxChars
                /\ text[n + 1] = "."
                /\ \A i \in 1..n : text[i] \in {"a", "."}
                /\ \A i \in n + 2..Len(text) : text[i] = "a")

\* "Subdomain must be at least 1 character long" (lib.rs:124): something
\* stands before the dot and the TLD of an accepted domain.  The code
\* measures an outer variable tld that the inner one shadows.
SubdomainNotEmpty ==
    field = "domain" /\ DomainOk(text) => Len(text) > Len(Tld(text)) + 1

\* One reading from left to right: the sections finished, the value of the
\* open one, -1 before its first digit, and whether it may take a plus.
Reading(s) ==
    LET Read(r, c) ==
          CASE c \in DOMAIN DigitValue ->
                 [r EXCEPT !.value = (IF @ = -1 THEN 0 ELSE 10 * @) + DigitValue[c],
                           !.fresh = FALSE]
            [] c = "+" -> [r EXCEPT !.bad = @ \/ ~r.fresh, !.fresh = FALSE]
            [] c = "." -> [done |-> r.done + 1, value |-> -1, fresh |-> TRUE,
                           bad |-> r.bad \/ r.value \notin 0..MaxOctet]
            [] OTHER   -> [r EXCEPT !.bad = TRUE]
        end == FoldLeft(Read, [done |-> 0, value |-> -1, fresh |-> TRUE,
                               bad |-> FALSE], s \o <<".">>)
    IN  end

\* check_ip's three criteria together accept exactly the texts that read as
\* one octet per section, whatever splits into empty or too many sections.
AddressesAreOctets ==
    field = "ip" =>
        (IpOk(text) <=> ~Reading(text).bad /\ Reading(text).done = Periods + 1)

\* Pallet and proxy agree on keys: an accepted key that is whole bytes is the
\* spelling _pk_str gives those bytes, and every key that auto_scrape spells
\* is accepted.
KeysAreSpellings ==
    field = "key" /\ Decodable(text) /\ Chars(Digits(text)) \subseteq HexDigits =>
        (KeyOk(text) <=> text = Spell(Bytes(text)))

=============================================================================
