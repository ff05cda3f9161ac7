------------------------------- MODULE QRCode -------------------------------
(* The QR encoder of the deposit page (src/services/qrcode.go), and a reader *)
(* of its symbols.  A symbol is a square of cells <<x, y>>; modules holds    *)
(* their colours (TRUE is dark), isFunction those that carry no data.        *)
(* Which mask scores best is left open: any trial may be the one kept.       *)
EXTENDS Integers, Bitwise, FiniteSets, SequencesExt

CONSTANT
  Payloads      \* the texts the page may have to show, as sequences of bytes

VARIABLES
  pc,           \* the step of encodeQRMatrix that comes next
  data,         \* the payload
  ver,          \* the layout chosen for it
  codewords,    \* the data codewords
  divisor,      \* the error-correction polynomial so far, [coeffs, root, degree]
  ecc,          \* what remains of each block divided so far
  final,        \* the interleaved codewords
  modules,      \* colour of each cell
  isFunction,   \* the cells that data and masks must skip
  mask,         \* the mask to try next
  bestModules   \* the symbol kept so far, [mask, modules]

codes == <<codewords, divisor, ecc, final>>
symbol == <<modules, isFunction, mask, bestModules>>
vars == <<pc, data, ver, codes, symbol>>

------------------------------------------------------------------------------
(* Layouts: level L, versions 1 to 6, byte mode.                             *)

Layout(v, total, blocks, perBlock) ==
  [version |-> v, totalDataCodewords |-> total, numBlocks |-> blocks,
   eccPerBlock |-> perBlock]

qrVersions ==
  << Layout(1, 19, 1, 7),  Layout(2, 34, 1, 10),  Layout(3, 55, 1, 15),
     Layout(4, 80, 1, 20), Layout(5, 108, 1, 26), Layout(6, 136, 2, 18) >>

\* A mode indicator of 4 bits and a length of 8 go before the payload.
Fits(v, n) == 12 + 8 * n <= 8 * v.totalDataCodewords

Size(v) == 4 * v.version + 17
Cells(v) == (0..Size(v) - 1) \X (0..Size(v) - 1)

------------------------------------------------------------------------------
(* Codewords.                                                                *)

Bit(n, i) == (n \div 2^i) % 2 = 1

Bits(n, width) == [i \in 1..width |-> Bit(n, width - i)]

bytesToBits(bytes) ==
  [k \in 1..(8 * Len(bytes)) |-> Bit(bytes[((k - 1) \div 8) + 1], 7 - ((k - 1) % 8))]

bitsToBytes(bits) ==
  [i \in 1..(Len(bits) \div 8) |->
     FoldLeft(LAMBDA b, j : 2 * b + (IF bits[8 * (i - 1) + j] THEN 1 ELSE 0),
              0, [j \in 1..8 |-> j])]

\* Header, payload, a terminator of up to four zeros, zeros up to a byte, and
\* alternating pad bytes up to the capacity.
encodeQRDataBits(bytes, v) ==
  LET text     == Bits(4, 4) \o Bits(Len(bytes), 8) \o bytesToBits(bytes)
      capacity == 8 * v.totalDataCodewords
      ended    == Len(text) + Min({4, capacity - Len(text)})
      padded   == 8 * ((ended + 7) \div 8)
  IN text \o [i \in 1..(padded - Len(text)) |-> FALSE]
       \o bytesToBits([i \in 1..((capacity - padded) \div 8) |->
                         IF i % 2 = 1 THEN 236 ELSE 17])

\* The product in GF(256) modulo 0x11D, bit by bit of b; the code looks it up
\* in tables of powers and logarithms of 2.
qrGFMul(a, b) ==
  LET Twice(x) == IF x >= 128 THEN (2 * x) ^^ 285 ELSE 2 * x
      product[i \in 0..8] ==
        IF i = 8 THEN 0
        ELSE LET rest == Twice(product[i + 1]) IN IF Bit(b, i) THEN rest ^^ a ELSE rest
  IN IF a = 0 \/ b = 0 THEN 0 ELSE product[0]

Shifted(coeffs) == Tail(coeffs) \o <<0>>

\* coeffs (x - root), without the leading 1.
TimesRoot(coeffs, root) ==
  [j \in DOMAIN coeffs |-> qrGFMul(coeffs[j], root) ^^ Shifted(coeffs)[j]]

\* What one more codeword leaves of a division by div.
Divided(rem, codeword, div) ==
  [j \in DOMAIN rem |-> Shifted(rem)[j] ^^ qrGFMul(div[j], codeword ^^ rem[1])]

\* The data of block b.
DataBlock(bytes, v, b) ==
  LET size == v.totalDataCodewords \div v.numBlocks
  IN SubSeq(bytes, (b - 1) * size + 1, b * size)

\* The blocks take turns: first their data, then their error correction.
interleaveQRCodewords(bytes, remainders, v) ==
  LET Turns(blocks) ==
        [k \in 1..(v.numBlocks * Len(blocks[1])) |->
           blocks[((k - 1) % v.numBlocks) + 1][((k - 1) \div v.numBlocks) + 1]]
  IN Turns([b \in 1..v.numBlocks |-> DataBlock(bytes, v, b)]) \o Turns(remainders)

------------------------------------------------------------------------------
(* Function patterns: sets of <<cell, colour>>.                              *)

Within(cells, v) == {d \in cells : d[1] \in Cells(v)}

\* Three nested squares and a light border, cut off at the symbol's edge.
finderPattern(left, top, v) ==
  Within({ << <<left + dx, top + dy>>,
              /\ {dx, dy} \subseteq 0..6
              /\ ({dx, dy} \cap {0, 6} # {}) \/ ({dx, dy} \subseteq 2..4) >> :
             dx \in -1..7, dy \in -1..7 }, v)

timingPatterns(v, taken) ==
  { << c, (c[1] + c[2]) % 2 = 0 >> :
      c \in { c \in ((8..Size(v) - 9) \X {6}) \cup ({6} \X (8..Size(v) - 9)) :
                c \notin taken } }

alignmentPattern(c, v) ==
  { << <<c + dx, c + dy>>, ({dx, dy} \cap {-2, 2} # {}) \/ (dx = 0 /\ dy = 0) >> :
      dx \in -2..2, dy \in -2..2 }

\* Level L and the mask, with the remainder of the BCH code, masked.
formatBits(m) ==
  LET word == 8 + m
      rem[i \in 0..10] ==
        IF i = 0 THEN word
        ELSE LET r == rem[i - 1] IN (2 * r) ^^ ((r \div 512) * 1335)
  IN ((word * 1024 + rem[10]) ^^ 21522) % 32768

\* The cells of the first copy of the format word, by bit, then of the second.
formatCopy1(i, v) ==
  IF i <= 5 THEN <<8, i>>
  ELSE IF i = 6 THEN <<8, 7>>
  ELSE IF i = 7 THEN <<8, 8>>
  ELSE IF i = 8 THEN <<7, 8>>
  ELSE <<14 - i, 8>>

formatCopy2(i, v) == IF i < 8 THEN <<Size(v) - 1 - i, 8>> ELSE <<8, Size(v) - 15 + i>>

darkModule(v) == <<8, Size(v) - 8>>

formatInfo(m, v) ==
  { <<formatCopy1(i, v), Bit(formatBits(m), i)>> : i \in 0..14 }
    \cup { <<formatCopy2(i, v), Bit(formatBits(m), i)>> : i \in 0..14 }
    \cup { <<darkModule(v), TRUE>> }

FormatCells(v) == { d[1] : d \in formatInfo(0, v) }

\* setFunction, for all the cells of a drawing.
Coloured(mods, drawn) ==
  [c \in DOMAIN mods |-> <<c, TRUE>> \in drawn \/ (mods[c] /\ <<c, FALSE>> \notin drawn)]

------------------------------------------------------------------------------
(* Data and masks.                                                           *)

\* The way of the data: columns in pairs from the right, alternately up and
\* down, past the vertical timing pattern.
Rights(v) ==
  [i \in 1..((Size(v) - 1) \div 2) |->
     LET right == Size(v) + 1 - 2 * i IN IF right <= 6 THEN right - 1 ELSE right]

Way(v) ==
  FlattenSeq([i \in DOMAIN Rights(v) |->
    LET right  == Rights(v)[i]
        upward == ((right + 1) \div 2) % 2 = 0
    IN [k \in 1..(2 * Size(v)) |->
          LET vert == (k - 1) \div 2
          IN << right - ((k - 1) % 2), IF upward THEN Size(v) - 1 - vert ELSE vert >>]])

\* The cells data goes to, in order, if the given ones are skipped.
DataCells(v, skipped) == SelectSeq(Way(v), LAMBDA c : c \notin skipped)

Placed(mods, cells, bits) ==
  Coloured(mods, {<<cells[k], k <= Len(bits) /\ bits[k]>> : k \in DOMAIN cells})

qrMaskBit(m, x, y) ==
  CASE m = 0 -> (x + y) % 2 = 0
    [] m = 1 -> y % 2 = 0
    [] m = 2 -> x % 3 = 0
    [] m = 3 -> (x + y) % 3 = 0
    [] m = 4 -> (x \div 3 + y \div 2) % 2 = 0
    [] m = 5 -> ((x * y) % 2) + ((x * y) % 3) = 0
    [] m = 6 -> (((x * y) % 2) + ((x * y) % 3)) % 2 = 0
    [] OTHER -> (((x + y) % 2) + ((x * y) % 3)) % 2 = 0

Masked(mods, m, skipped) ==
  [c \in DOMAIN mods |-> IF c \in skipped THEN mods[c]
                         ELSE mods[c] # qrMaskBit(m, c[1], c[2])]

------------------------------------------------------------------------------
(* encodeQRMatrix.                                                           *)

NoSymbol == [mask |-> -1, modules |-> <<>>]

Init ==
  /\ pc = "choose" /\ data \in Payloads
  /\ ver = qrVersions[1]
  /\ codewords = <<>> /\ divisor = <<>> /\ ecc = <<>> /\ final = <<>>
  /\ modules = <<>> /\ isFunction = {} /\ mask = 0 /\ bestModules = NoSymbol

\* The smallest version that holds the payload; without one the page shows the
\* address only.
chooseQRVersion ==
  /\ pc = "choose"
  /\ \/ /\ \E i \in DOMAIN qrVersions : Fits(qrVersions[i], Len(data))
        /\ ver' = qrVersions[Min({i \in DOMAIN qrVersions : Fits(qrVersions[i], Len(data))})]
        /\ pc' = "encode"
     \/ /\ \A i \in DOMAIN qrVersions : ~Fits(qrVersions[i], Len(data))
        /\ pc' = "tooLarge"
        /\ UNCHANGED ver
  /\ UNCHANGED <<data, codes, symbol>>

encodeData ==
  /\ pc = "encode" /\ pc' = "divisor"
  /\ codewords' = bitsToBytes(encodeQRDataBits(data, ver))
  /\ divisor' = [coeffs |-> [j \in 1..ver.eccPerBlock |-> IF j = ver.eccPerBlock THEN 1 ELSE 0],
                 root |-> 1, degree |-> 0]
  /\ UNCHANGED <<data, ver, ecc, final, symbol>>

\* The divisor has the roots 1, 2, 4, ... of GF(256): one more.
reedSolomonDivisor ==
  /\ pc = "divisor" /\ divisor.degree < ver.eccPerBlock
  /\ divisor' = [coeffs |-> TimesRoot(divisor.coeffs, divisor.root),
                 root   |-> qrGFMul(divisor.root, 2),
                 degree |-> divisor.degree + 1]
  /\ UNCHANGED <<pc, data, ver, codewords, ecc, final, symbol>>

\* Every block begins with nothing divided.
divisorReady ==
  /\ pc = "divisor" /\ divisor.degree = ver.eccPerBlock /\ pc' = "divide"
  /\ ecc' = [b \in 1..ver.numBlocks |->
               [done |-> 0, rem |-> [j \in 1..ver.eccPerBlock |-> 0]]]
  /\ UNCHANGED <<data, ver, codewords, divisor, final, symbol>>

\* One codeword of each block, side by side.
reedSolomonRemainder ==
  /\ pc = "divide"
  /\ \A b \in DOMAIN ecc : ecc[b].done < Len(DataBlock(codewords, ver, b))
  /\ ecc' = [b \in DOMAIN ecc |->
               [done |-> ecc[b].done + 1,
                rem  |-> Divided(ecc[b].rem, DataBlock(codewords, ver, b)[ecc[b].done + 1],
                                 divisor.coeffs)]]
  /\ UNCHANGED <<pc, data, ver, codewords, divisor, final, symbol>>

interleave ==
  /\ pc = "divide" /\ pc' = "draw"
  /\ \A b \in DOMAIN ecc : ecc[b].done = Len(DataBlock(codewords, ver, b))
  /\ final' = interleaveQRCodewords(codewords, [b \in DOMAIN ecc |-> ecc[b].rem], ver)
  /\ UNCHANGED <<data, ver, codewords, divisor, ecc, symbol>>

\* Finders, timing, alignment and the dark module: the cells of the format
\* information are not among them.
drawFunctionPatterns ==
  /\ pc = "draw" /\ pc' = "place"
  /\ LET finders == finderPattern(0, 0, ver)
                      \cup finderPattern(Size(ver) - 7, 0, ver)
                      \cup finderPattern(0, Size(ver) - 7, ver)
         timing  == timingPatterns(ver, {d[1] : d \in finders})
         align   == IF ver.version >= 2
                    THEN alignmentPattern(4 * ver.version + 10, ver) ELSE {}
         drawn   == finders \cup timing \cup align \cup {<<darkModule(ver), TRUE>>}
     IN /\ modules' = Coloured([c \in Cells(ver) |-> FALSE], drawn)
        /\ isFunction' = {d[1] : d \in drawn}
  /\ UNCHANGED <<data, ver, codes, mask, bestModules>>

placeQRData ==
  /\ pc = "place" /\ pc' = "mask"
  /\ modules' = Placed(modules, DataCells(ver, isFunction), bytesToBits(final))
  /\ UNCHANGED <<data, ver, codes, isFunction, mask, bestModules>>

\* One trial: mask, draw the format word, keep the symbol if it scores better
\* than those before, and take the mask off again.
tryMask ==
  /\ pc = "mask" /\ mask < 8
  /\ LET drawn  == formatInfo(mask, ver)
         trial  == Coloured(Masked(modules, mask, isFunction), drawn)
     IN /\ isFunction' = isFunction \cup FormatCells(ver)
        /\ \/ bestModules' = [mask |-> mask, modules |-> trial]
           \/ bestModules # NoSymbol /\ UNCHANGED bestModules
        /\ modules' = Masked(trial, mask, isFunction')
  /\ mask' = mask + 1
  /\ UNCHANGED <<pc, data, ver, codes>>

finish ==
  /\ pc = "mask" /\ mask = 8 /\ pc' = "done"
  /\ modules' = bestModules.modules
  /\ UNCHANGED <<data, ver, codes, isFunction, mask, bestModules>>

Next ==
  \/ chooseQRVersion \/ encodeData
  \/ reedSolomonDivisor \/ divisorReady \/ reedSolomonRemainder \/ interleave
  \/ drawFunctionPatterns \/ placeQRData \/ tryMask \/ finish

Spec == Init /\ [][Next]_vars

------------------------------------------------------------------------------
(* A reader of the finished symbol, by ISO/IEC 18004.                        *)

\* The mask named by the format word, if both copies are intact.
FormatRead(m) ==
  \A i \in 0..14 :
    /\ modules[formatCopy1(i, ver)] = Bit(formatBits(m), i)
    /\ modules[formatCopy2(i, ver)] = Bit(formatBits(m), i)

ReadBits(m) ==
  LET cells == DataCells(ver, isFunction)
  IN [k \in 1..(8 * Len(final)) |-> modules[cells[k]] # qrMaskBit(m, cells[k][1], cells[k][2])]

\* Block b as read, and as it was encoded.
BlockOf(bytes, b) ==
  [k \in 1..(Len(bytes) \div ver.numBlocks) |-> bytes[(k - 1) * ver.numBlocks + b]]

\* A block the decoder can be given: its polynomial has the divisor's roots.
IsCodeword(block) ==
  LET Power2[e \in Nat] ==
        IF e = 0 THEN 1
        ELSE LET half == Power2[e \div 2]
                 square == qrGFMul(half, half)
             IN IF e % 2 = 0 THEN square ELSE qrGFMul(square, 2)
      Term(i, k) == qrGFMul(block[k], Power2[i * (Len(block) - k)])
  IN \A i \in 0..(ver.eccPerBlock - 1), bit \in 0..7 :
       Cardinality({k \in DOMAIN block : Bit(Term(i, k), bit)}) % 2 = 0

\* The decoder puts right half as many codewords as it has for correction.
Recovers(read, sent) ==
  /\ IsCodeword(sent)
  /\ 2 * Cardinality({k \in DOMAIN sent : read[k] # sent[k]}) <= ver.eccPerBlock

\* qrcode.go:8-10: the deposit page has "a scannable code", because data
\* placement and masking "must skip" the format cells too (qrcode.go:43-45) -
\* whichever mask is kept, a reader can correct what it reads to the codewords
\* of the payload.
Scannable ==
  pc = "done" =>
    \E m \in 0..7 :
      /\ FormatRead(m)
      /\ \A b \in 1..ver.numBlocks :
           Recovers(BlockOf(bitsToBytes(ReadBits(m)), b), BlockOf(final, b))

=============================================================================
