------------------------------ MODULE IpString ------------------------------
(***************************************************************************)
(* Conversion between addresses and text: ip4tos, stoip4, ip6tos, stoip6.  *)
(* An IPv4 address is its 4 bytes, an IPv6 address its 8 16-bit parts.  A  *)
(* text is the sequence of its groups of digits, each by its value, and of *)
(* its separators; a group has no leading zeros.  A loop is what its body  *)
(* does to its variables, once for each pass.                              *)
(***************************************************************************)
EXTENDS Integers, Sequences, FiniteSetsExt

Colon == -1
Dot   == -2
Error == <<>>      \* what a conversion that fails yields
MaxByte == 255
MaxPart == 65535   \* of the 16 bits of a part

-----------------------------------------------------------------------------
ip4tos(a) == <<a[1], Dot, a[2], Dot, a[3], Dot, a[4]>>

\* Exactly four groups of at most 255, a dot between them.
stoip4(text) ==
    IF /\ Len(text) = 7
       /\ \A i \in {2, 4, 6} : text[i] = Dot
       /\ \A i \in {1, 3, 5, 7} : text[i] \in 0..MaxByte
      THEN <<text[1], text[3], text[5], text[7]>>
      ELSE Error

-----------------------------------------------------------------------------
\* The state of a loop after k passes through its body, a function on states.
Passes(body, start, k) ==
    LET after[j \in Nat] == IF j = 0 THEN start ELSE body[after[j - 1]]
    IN  after[k]

\* The pre-scan: <<zero_start, zero_len>> of the run of zeros to leave out, with
\* parts numbered from 0 and 255 for none.  Len(a) is 8.
RunEnd(a, n) == Min({k \in n..7 : a[k + 1] # 0} \cup {8})
Scan(a) ==
    [s \in (0..9) \X (0..255) \X (1..8) |->
        LET n == s[1]
            end == RunEnd(a, n)
        IN  IF n >= 8 THEN s
            ELSE IF a[n + 1] # 0 THEN <<n + 1, s[2], s[3]>>
            ELSE IF end - n > s[3] THEN <<end + 1, n, end - n>>
            ELSE <<end + 1, s[2], s[3]>>]
ZeroRun(a) == LET s == Passes(Scan(a), <<0, 255, 1>>, 8) IN <<s[2], s[3]>>

\* snprintf(p, sizeof(p), "%x", part): as many digits as a pointer has bytes, less
\* one, fit.  The length returned is that of all of them, so the text goes on
\* behind the terminator of the part that was cut.
Fits(part, pointer) == part < 16^(pointer - 1)
Printing(a, run, pointer) ==
    [s \in (0..8) \X Seq(Int) |->
        LET n == s[1]
            text == s[2]
        IN  IF n = 8 THEN s
            ELSE IF n = run[1]
              THEN <<n + run[2], text \o (IF n = 0 THEN <<Colon, Colon>> ELSE <<Colon>>)>>
            ELSE IF ~Fits(a[n + 1], pointer) THEN <<8, Append(text, a[n + 1] \div 16)>>
            ELSE <<n + 1, text \o (IF n < 7 THEN <<a[n + 1], Colon>> ELSE <<a[n + 1]>>)>>]
ip6tos(a, pointer) == Passes(Printing(a, ZeroRun(a), pointer), <<0, <<>>>>, 8)[2]

\* The length of an IPv6 text in characters: a group has up to four digits.
Chars(text) ==
    Len(text) + Cardinality({i \in DOMAIN text : text[i] >= 16})
              + Cardinality({i \in DOMAIN text : text[i] >= 256})
              + Cardinality({i \in DOMAIN text : text[i] >= 4096})

\* stoip6: groups, possibly empty, between colons, from position p on; zeros are put
\* where the one "::" was, after coloncolon of the fields, or none if there is no "::".
\* A pass adds a field, or is the last.
Field(text) ==
    [s \in {Error} \cup (Nat \X Seq(0..MaxPart) \X Int) |->
        LET p == s[1]
            fields == s[2]
            coloncolon == s[3]
            q == IF text[p] = Colon THEN p ELSE p + 1
            now == Append(fields, IF q = p THEN 0 ELSE text[p])
            double == q < Len(text) /\ text[q + 1] = Colon
        IN  IF s = Error \/ p > Len(text) THEN s
            ELSE IF \/ q # p /\ text[p] \notin 0..MaxPart
                    \/ Len(fields) = 8
                    \/ q <= Len(text) /\ text[q] # Colon
                    \/ double /\ coloncolon # -1
              THEN Error
            ELSE IF double THEN <<q + 2, now, Len(now)>> ELSE <<q + 1, now, coloncolon>>]
InsertZeros(fields, coloncolon) ==
    IF coloncolon # -1
      THEN SubSeq(fields, 1, coloncolon) \o [i \in 1..(8 - Len(fields)) |-> 0]
           \o SubSeq(fields, coloncolon + 1, Len(fields))
      ELSE IF Len(fields) = 8 THEN fields ELSE Error
stoip6(text) ==
    LET s == Passes(Field(text), <<1, <<>>, -1>>, 9)
    IN  IF Chars(text) >= 40 \/ s = Error THEN Error ELSE InsertZeros(s[2], s[3])

-----------------------------------------------------------------------------
(* Reference: RFC 5952.                                                     *)

\* The runs of at least two zero parts, as <<first part, length>>, and the text
\* that leaves out the first of the longest.
Runs(a) == {r \in (0..7) \X (2..8) :
              r[1] + r[2] <= 8 /\ \A i \in (r[1] + 1)..(r[1] + r[2]) : a[i] = 0}
Chosen(a) == CHOOSE r \in Runs(a) : \A q \in Runs(a) :
                q[2] < r[2] \/ (q[2] = r[2] /\ r[1] <= q[1])
Joined(parts) == [i \in 1..(2 * Len(parts) - 1) |->
                    IF i % 2 = 1 THEN parts[(i + 1) \div 2] ELSE Colon]
Canonical(a) ==
    IF Runs(a) = {} THEN Joined(a)
    ELSE LET r == Chosen(a)
             left == SubSeq(a, 1, r[1])
             right == SubSeq(a, r[1] + r[2] + 1, 8)
         IN  (IF left = <<>> THEN <<>> ELSE Joined(left)) \o <<Colon, Colon>>
             \o (IF right = <<>> THEN <<>> ELSE Joined(right))
=============================================================================
