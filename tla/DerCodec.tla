------------------------------ MODULE DerCodec ------------------------------
(***************************************************************************)
(* The DER codec that the registry writes itself: the encoder with which   *)
(* the integration of the access CA builds the qcStatements extension, and *)
(* the decoder with which the certificate page lists it.  An octet string  *)
(* is a sequence of 0..255, an OID the sequence of its arcs.               *)
(***************************************************************************)
EXTENDS Naturals, SequencesExt

\* The digits of n in a base, most significant first; 0 has one digit.
Digits(n, base) ==
    LET d[m \in 0..n] == IF m < base THEN <<m>> ELSE Append(d[m \div base], m % base)
    IN d[n]

\* Short form below 128, else the number of octets and the octets.
LengthOctets(n) ==
    IF n < 128 THEN <<n>> ELSE <<128 + Len(Digits(n, 256))>> \o Digits(n, 256)

Tlv(tag, content) == <<tag>> \o LengthOctets(Len(content)) \o content

\* Mutant of EncodeArc: an arc is an octet, however large.
EncodeArcWhole(n) == <<n>>

\* Seven bits an octet; all but the last have the high bit.
EncodeArc(n) ==
    LET s == Digits(n, 128) IN [i \in DOMAIN s |-> IF i < Len(s) THEN s[i] + 128 ELSE s[i]]

\* The first two arcs share an octet string.
EncodeOid(arcs) ==
    EncodeArc(40 * arcs[1] + arcs[2])
        \o FlattenSeq([i \in 1..Len(arcs) - 2 |-> EncodeArc(arcs[i + 2])])

\* The value of one or more octets, most significant first.
BigEndian(s) == FoldLeft(LAMBDA n, b : 256 * n + b, 0, s)

\* What stands at offset i, and where the next one starts.
ReadTlv(data, i) ==
    LET l     == data[i + 1]
        n     == IF l < 128 THEN 0 ELSE l - 128
        size  == IF l < 128 THEN l ELSE BigEndian(SubSeq(data, i + 2, i + 1 + n))
        start == i + 2 + n
    IN [tag |-> data[i], content |-> SubSeq(data, start, start + size - 1), next |-> start + size]

\* Arcs are complete where an octet has no high bit.
DecodeOid(body) ==
    LET step(s, b) ==
            LET v == 128 * s.value + (b % 128)
            IN IF b < 128 THEN [arcs |-> Append(s.arcs, v), value |-> 0] ELSE [s EXCEPT !.value = v]
        ids   == FoldLeft(step, [arcs |-> <<>>, value |-> 0], body).arcs
        first == ids[1]
    IN (IF first < 40 THEN <<0, first>>
        ELSE IF first < 80 THEN <<1, first - 40>> ELSE <<2, first - 80>>) \o Tail(ids)

\* One OID for each element of the outer sequence, or the octets as they are. An
\* element takes four octets at least: one with fewer has no OID to read.
FormatQcStatements(der) ==
    LET outer   == ReadTlv(der, 1)
        content == outer.content
        turns   == Len(content) \div 4
        read(s) ==
            LET stmt == ReadTlv(content, s.at)
                oid  == ReadTlv(stmt.content, 1)
            IN [at |-> stmt.next,
                lines |-> IF oid.tag = 6 THEN Append(s.lines, DecodeOid(oid.content)) ELSE s.lines]
        loop[k \in 0..turns] ==
            IF k = 0 THEN [at |-> 1, lines |-> <<>>]
            ELSE LET s == loop[k - 1] IN IF s.at > Len(content) THEN s ELSE read(s)
        lines == loop[turns].lines
    IN IF outer.tag = 48 /\ lines # <<>> THEN lines ELSE <<der>>

=============================================================================
