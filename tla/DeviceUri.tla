----------------------------- MODULE DeviceUri -----------------------------
(***************************************************************************)
(* The device URIs of src/pappl_device.c, hplp://vendor/product?serial=... *)
(* A C string is the sequence of its bytes, without the 0 at its end.  A   *)
(* URI is a record: the product, and the serial number percent-encoded.    *)
(* What may be refused is a set of at most one result.                     *)
(*                                                                         *)
(* The buffers keep their proportions: 256 bytes for a serial number, 768  *)
(* for an encoded one.  A whole URI always fits its 1024.                  *)
(***************************************************************************)
EXTENDS Integers, FiniteSetsExt, SequencesExt

CONSTANT SerialSize   \* sizeof(serial), 256

ASSUME UriAssumption == SerialSize \in Nat \ {0}

EncodedSize == 3 * SerialSize

Percent == 37
Space   == 32
White   == {Space} \cup 9..13   \* isspace

\* Mutant: '%' is written as it is.
UnreservedPercent(ch) ==
    ch = Percent
    \/ ch \in 48..57 \cup 65..90 \cup 97..122 \cup {45, 46, 95, 126}

\* isalnum, '-', '.', '_' and '~'.
Unreserved(ch) == ch \in 48..57 \cup 65..90 \cup 97..122 \cup {45, 46, 95, 126}

HexDigit(d) == IF d < 10 THEN 48 + d ELSE 55 + d

Escape(ch) == IF Unreserved(ch) THEN <<ch>>
              ELSE <<Percent, HexDigit(ch \div 16), HexDigit(ch % 16)>>

\* As many characters as fit, none of them cut.
uri_encode_component(s) ==
    LET encoded(n) == FlattenSeq([i \in 1..n |-> Escape(s[i])])
        fitting    == {n \in 0..Len(s) : Len(encoded(n)) < EncodedSize}
    IN  encoded(Max(fitting))

hex_value(ch) ==
    CASE ch \in 48..57  -> ch - 48
      [] ch \in 97..102 -> ch - 87
      [] ch \in 65..70  -> ch - 55
      [] OTHER          -> -1

\* What the escape that starts at s[i] stands for; a 0 is refused.
Unescape(s, i) ==
    IF i + 2 > Len(s) THEN {}
    ELSE LET hi == hex_value(s[i + 1])
             lo == hex_value(s[i + 2])
         IN  IF hi < 0 \/ lo < 0 \/ hi + lo = 0 THEN {} ELSE {16 * hi + lo}

\* Mutant: the decoder takes a string that fills the buffer without its 0.
FitsWithoutEnd(t) == t # <<>> /\ Len(t) <= SerialSize

Fits(t) == t # <<>> /\ Len(t) < SerialSize

uri_decode_component(s) ==
    LET rest[i \in Nat] ==
            IF i > Len(s) THEN {<<>>}
            ELSE IF s[i] = Percent
                 THEN {<<ch>> \o t : ch \in Unescape(s, i), t \in rest[i + 3]}
                 ELSE {<<s[i]>> \o t : t \in rest[i + 1]}
    IN  {t \in rest[1] : Fits(t)}

\* Where the word starts that sscanf's %767s takes: it skips white space, which
\* does not count, and then takes characters up to the width or the next white
\* space.  There must be a word, and it must reach the end of the URI.
WordStarts(s) ==
    {n \in 1..Len(s) :
        /\ \A i \in 1..(n - 1) : s[i] \in White
        /\ \A i \in n..Len(s) : s[i] \notin White
        /\ Len(s) - n + 1 < EncodedSize}

Scanned(s) == {SubSeq(s, n, Len(s)) : n \in WordStarts(s)}

parse_hplp_uri(uri) ==
    {[product |-> uri.product, serial |-> t] :
        t \in UNION {uri_decode_component(e) : e \in Scanned(uri.serial)}}

UriOf(product, serial) ==
    [product |-> product, serial |-> uri_encode_component(serial)]
=============================================================================
