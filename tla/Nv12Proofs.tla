----------------------------- MODULE Nv12Proofs -----------------------------
(***************************************************************************)
(* What holds of the picture arithmetic: no byte outside a buffer is read  *)
(* or written, and none inside is left out; but for the colours of a       *)
(* picture of OBS that is one pixel wide or high, and for the test pattern *)
(* after 200 days.                                                         *)
(***************************************************************************)
EXTENDS Nv12, TLAPS

-----------------------------------------------------------------------------
(* Products and quotients.                                                 *)

LEMMA MulMono ==
  ASSUME NEW a \in Int, NEW b \in Int, NEW c \in Int, a <= b, c >= 0
  PROVE  a * c <= b * c
<1>1. \A k \in Nat : a * c + k * c = (a + k) * c
  OBVIOUS
<1>2. PICK k \in Nat : b = a + k
  <2>1. b - a \in Nat /\ b = a + (b - a)
    OBVIOUS
  <2> QED
    BY <2>1
<1>3. k * c >= 0
  OBVIOUS
<1> QED
  BY <1>1, <1>2, <1>3

\* The quotient of a number below n * d is below n.
LEMMA DivBound ==
  ASSUME NEW a \in Nat, NEW n \in Nat, NEW d \in Nat, d > 0, a < n * d
  PROVE  a \div d \in 0..n - 1
<1> DEFINE q == a \div d
<1>1. q \in Int /\ d * q <= a /\ a < d * q + d
  OBVIOUS
<1>2. q >= 0
  <2>1. CASE q <= -1
    <3>1. q * d <= (-1) * d
      BY <1>1, <2>1, MulMono
    <3> QED
      BY <1>1, <3>1
  <2> QED
    BY <1>1, <2>1
<1>3. q <= n - 1
  <2>1. CASE q >= n
    <3>1. n * d <= q * d
      BY <1>1, <2>1, MulMono
    <3> QED
      BY <1>1, <3>1
  <2> QED
    BY <1>1, <2>1
<1> QED
  BY <1>1, <1>2, <1>3

\* The bytes of a picture are those of its luma and of half as many rows.
LEMMA WholePicture ==
  ASSUME NEW w \in Nat, NEW h \in Nat, h % 2 = 0
  PROVE  FrameBytes(w, h) = w * h + w * (h \div 2)
<1>1. PICK l \in Nat : h = 2 * l /\ h \div 2 = l
  <2>1. h \div 2 \in Nat /\ h = 2 * (h \div 2)
    OBVIOUS
  <2> QED
    BY <2>1
<1> DEFINE m == w * h + w * l
<1>2. m \in Int /\ w * h * 3 = 2 * m
  BY <1>1
<1>3. (2 * m) \div 2 = m
  <2> HIDE DEF m
  <2> QED
    BY <1>2
<1> QED
  BY <1>1, <1>2, <1>3 DEF FrameBytes

-----------------------------------------------------------------------------
(* Colours.                                                                *)

\* No colour needs the clamp of the broker's conversion or loses bits in the
\* media source's: both make the same of it, within the range of video.
THEOREM ConversionsAgree ==
  ASSUME NEW r \in 0..255, NEW g \in 0..255, NEW b \in 0..255
  PROVE  /\ RgbToYuv(r, g, b) = RGB24ToYUY2(r, g, b)
         /\ Luma(r, g, b) \in 16..235
         /\ BlueChroma(r, g, b) \in 16..240
         /\ RedChroma(r, g, b) \in 16..240
<1>1. Luma(r, g, b) \in 16..235
  BY DEF Luma
<1>2. BlueChroma(r, g, b) \in 16..240
  BY DEF BlueChroma
<1>3. RedChroma(r, g, b) \in 16..240
  BY DEF RedChroma
<1>4. \A n \in 0..255 : Clamp(n) = n % 256
  BY DEF Clamp
<1> QED
  BY <1>1, <1>2, <1>3, <1>4 DEF RgbToYuv, RGB24ToYUY2

-----------------------------------------------------------------------------
(* The test pattern.                                                       *)

\* While four times the frame number and the width fit into an int, the index
\* of a bar is one of the eight: for 1280 pixels, up to frame 536870591, 205
\* days of 33 ms frames.
THEOREM BarInRange ==
  ASSUME NEW w \in Nat, w >= 8, NEW x \in 0..w - 1, NEW frame \in Nat,
         4 * frame + w <= IntEnd
  PROVE  Bar(x, frame, w) \in 0..7
<1> DEFINE n == x + 4 * frame
           q == n \div (w \div 8)
<1>1. ToInt32(frame * 4) = 4 * frame
  BY DEF ToInt32, ToUint32, IntEnd
<1>2. n \in Nat /\ w \div 8 \in Nat /\ w \div 8 > 0
  OBVIOUS
<1>3. Trunc(x + ToInt32(frame * 4), w \div 8) = q
  BY <1>1, <1>2 DEF Trunc
<1>4. q \in Nat
  BY <1>2
<1>5. Rem(q, 8) \in 0..7
  <2> HIDE DEF q
  <2> QED
    BY <1>4 DEF Rem, Trunc
<1> QED
  BY <1>3, <1>5 DEF Bar

\* From then on it is not: at frame 2^29 the first pixel's is -4.
THEOREM BarLeavesRange == Bar(0, 536870912, 1280) = -4
<1>1. ToInt32(536870912 * 4) = -2147483648
  BY DEF ToInt32, ToUint32, IntEnd
<1>2. Trunc(0 + ToInt32(536870912 * 4), 1280 \div 8) = -13421772
  BY <1>1 DEF Trunc
<1> QED
  BY <1>2 DEF Bar, Rem, Trunc

\* Every byte of the picture is written, whatever was in the buffer before (a
\* picture of OBS, say)...
THEOREM PatternFills ==
  ASSUME NEW w \in Nat, NEW h \in Nat, w % 2 = 0, h % 2 = 0, w > 0,
         NEW i \in 0..FrameBytes(w, h) - 1
  PROVE  \E bx \in 0..w \div 2 - 1, by \in 0..h \div 2 - 1 :
            i \in PatternLuma(bx, by, w) \cup PatternChroma(bx, by, w, h)
<1> DEFINE row(n) == n \div w
           col(n) == n - w * (n \div w)
<1>1. \A n \in Nat : row(n) \in Nat /\ col(n) \in 0..w - 1 /\ n = row(n) * w + col(n)
  <2> SUFFICES ASSUME NEW n \in Nat
               PROVE  row(n) \in Nat /\ col(n) \in 0..w - 1 /\ n = row(n) * w + col(n)
    OBVIOUS
  <2>1. row(n) \in Int /\ w * row(n) <= n /\ n < w * row(n) + w
    OBVIOUS
  <2>2. row(n) >= 0
    <3>1. CASE row(n) <= -1
      <4>1. row(n) * w <= (-1) * w
        BY <2>1, <3>1, MulMono
      <4> QED
        BY <2>1, <4>1
    <3> QED
      BY <2>1, <3>1
  <2> QED
    BY <2>1, <2>2
<1> HIDE DEF row, col
<1>2. PICK k \in Nat : w = 2 * k
  <2>1. w \div 2 \in Nat /\ w = 2 * (w \div 2)
    OBVIOUS
  <2> QED
    BY <2>1
<1>3. PICK l \in Nat : h = 2 * l
  <2>1. h \div 2 \in Nat /\ h = 2 * (h \div 2)
    OBVIOUS
  <2> QED
    BY <2>1
<1>4. FrameBytes(w, h) = w * h + w * l
  <2>1. h \div 2 = l
    BY <1>3
  <2> QED
    BY <2>1, WholePicture
<1>5. i \in Nat
  OBVIOUS
<1>6. CASE i < w * h
  <2>1. PICK r \in Nat, c \in 0..w - 1 : i = r * w + c
    BY <1>1, <1>5
  <2>2. r < h
    <3>1. CASE r >= h
      <4>1. h * w <= r * w
        BY <3>1, MulMono
      <4> QED
        BY <1>6, <2>1, <4>1
    <3> QED
      BY <3>1
  <2> DEFINE bx == c \div 2
             by == r \div 2
  <2>3. bx \in 0..w \div 2 - 1 /\ (c = 2 * bx \/ c = 2 * bx + 1)
    BY <1>2
  <2>4. by \in 0..h \div 2 - 1 /\ (r = 2 * by \/ r = 2 * by + 1)
    BY <1>3, <2>2
  <2> HIDE DEF bx, by
  <2>5. r * w = by * 2 * w \/ r * w = by * 2 * w + w
    BY <2>4
  <2>6. i \in PatternLuma(bx, by, w)
    <3> DEFINE p == by * 2 * w
    <3>1. p \in Int /\ (r * w = p \/ r * w = p + w)
      BY <2>4, <2>5
    <3>2. r * w \in Int
      OBVIOUS
    <3> QED
      BY <2>1, <2>3, <2>4, <3>1 DEF PatternLuma
  <2> QED
    BY <2>3, <2>4, <2>6
<1>7. CASE i >= w * h
  <2>1. i - w * h \in Nat
    BY <1>7
  <2>2. PICK r \in Nat, c \in 0..w - 1 : i - w * h = r * w + c
    BY <1>1, <2>1
  <2>3. r < l
    <3>1. CASE r >= l
      <4>1. l * w <= r * w
        BY <3>1, MulMono
      <4> QED
        BY <1>4, <2>2, <4>1
    <3> QED
      BY <3>1
  <2> DEFINE bx == c \div 2
  <2>4. bx \in 0..w \div 2 - 1 /\ (c = 2 * bx \/ c = 2 * bx + 1)
    BY <1>2
  <2>5. r \in 0..h \div 2 - 1
    BY <1>3, <2>3
  <2> HIDE DEF bx
  <2>6. i \in PatternChroma(bx, r, w, h)
    <3>1. i = w * h + r * w + c
      BY <2>2
    <3> QED
      BY <2>4, <3>1 DEF PatternChroma
  <2> QED
    BY <2>4, <2>5, <2>6
<1> QED
  BY <1>6, <1>7

\* ...and none beyond it.
THEOREM PatternStaysInside ==
  ASSUME NEW w \in Nat, NEW h \in Nat, w % 2 = 0, h % 2 = 0,
         NEW bx \in 0..w \div 2 - 1, NEW by \in 0..h \div 2 - 1
  PROVE  PatternLuma(bx, by, w) \cup PatternChroma(bx, by, w, h)
           \subseteq 0..FrameBytes(w, h) - 1
<1>1. 2 * bx \in Nat /\ 2 * bx + 1 <= w - 1
  OBVIOUS
<1>2. FrameBytes(w, h) = w * h + w * (h \div 2)
  BY WholePicture
<1>3. by * 2 * w = (2 * by) * w /\ (2 * by) * w >= 0 /\ by * w >= 0
  OBVIOUS
<1>4. (2 * by) * w + 2 * w <= h * w
  <2>1. (2 * by + 2) * w <= h * w
    <3>1. 2 * by + 2 <= h
      OBVIOUS
    <3> QED
      BY <3>1, MulMono
  <2> QED
    BY <2>1
<1>5. by * w + w <= (h \div 2) * w
  <2>1. (by + 1) * w <= (h \div 2) * w
    BY MulMono
  <2> QED
    BY <2>1
<1>6. h * w = w * h /\ (h \div 2) * w = w * (h \div 2)
  OBVIOUS
<1> DEFINE a == (2 * by) * w
           b == by * w
           c == w * h
           d == w * (h \div 2)
<1>7. /\ a \in Int /\ b \in Int /\ c \in Int /\ d \in Int
      /\ a >= 0 /\ b >= 0 /\ a + 2 * w <= c /\ b + w <= d
  BY <1>3, <1>4, <1>5, <1>6
<1>8. /\ PatternLuma(bx, by, w) = {a + 2 * bx, a + 2 * bx + 1, a + 2 * bx + w, a + 2 * bx + w + 1}
      /\ PatternChroma(bx, by, w, h) = {c + b + 2 * bx, c + b + 2 * bx + 1}
      /\ FrameBytes(w, h) = c + d
  BY <1>2, <1>3 DEF PatternLuma, PatternChroma
<1> HIDE DEF a, b, c, d
<1> QED
  BY <1>1, <1>7, <1>8

-----------------------------------------------------------------------------
(* Scaling.                                                                *)

\* A scaled coordinate is one of the source.
LEMMA ScaledInside ==
  ASSUME NEW to \in Nat, NEW from \in Nat, from > 0, NEW i \in 0..to - 1
  PROVE  Scaled(i, from, to) \in 0..from - 1
<1>1. (i + 1) * from <= to * from
  BY MulMono
<1>2. i * from \in Nat /\ (i + 1) * from = i * from + from /\ to * from = from * to
  OBVIOUS
<1>3. i * from < from * to
  BY <1>1, <1>2
<1> QED
  BY <1>2, <1>3, DivBound DEF Scaled

\* A product of a place below `to' and a size fits into an int.
LEMMA FitsInt ==
  ASSUME NEW to \in Nat, NEW from \in Nat, to * from <= IntEnd
  PROVE  \A i \in 0..to - 1 : ToInt32(i * from) = i * from
<1>1. CASE from = 0
  BY <1>1 DEF ToInt32, ToUint32, IntEnd
<1>2. ASSUME NEW i \in 0..to - 1, from > 0
      PROVE  ToInt32(i * from) = i * from
  <2> DEFINE n == i * from
  <2>1. (i + 1) * from <= to * from
    BY MulMono
  <2>2. n \in Nat /\ (i + 1) * from = n + from
    OBVIOUS
  <2>3. n < IntEnd
    BY <1>2, <2>1, <2>2 DEF IntEnd
  <2> HIDE DEF n
  <2>4. ToInt32(n) = n
    BY <2>2, <2>3 DEF ToInt32, ToUint32, IntEnd
  <2> QED
    BY <2>4 DEF n
<1> QED
  BY <1>1, <1>2

\* It does in halves, as the chroma is scaled, if it does as a whole.
LEMMA HalvesFit ==
  ASSUME NEW to \in Nat, NEW from \in Nat, to * from <= IntEnd
  PROVE  (to \div 2) * (from \div 2) <= IntEnd
<1> DEFINE half == from \div 2
           halves == to \div 2
<1>1. half \in Nat /\ halves \in Nat /\ half <= from /\ halves <= to
  OBVIOUS
<1> HIDE DEF half, halves
<1>2. halves * half <= to * half
  BY <1>1, MulMono
<1>3. half * to <= from * to
  BY <1>1, MulMono
<1>4. half * to = to * half /\ from * to = to * from
  BY <1>1
<1>5. halves * half \in Int /\ to * half \in Int /\ to * from \in Int
  BY <1>1
<1>6. halves * half <= IntEnd
  BY <1>2, <1>3, <1>4, <1>5 DEF IntEnd
<1> QED
  BY <1>6 DEF half, halves

\* GetFrame scales in int: none of its four products overflows while the sizes
\* of the two pictures multiply to at most 2^31, so that Scaled is what it
\* computes.  For a frame of 1280 by 720 that is every picture of OBS of up to
\* 1677721 by 2982616 pixels.
THEOREM ScaleFitsInt ==
  ASSUME NEW sw \in Nat, NEW sh \in Nat, NEW dw \in Nat, NEW dh \in Nat,
         dw * sw <= IntEnd, dh * sh <= IntEnd
  PROVE  /\ \A x \in 0..dw - 1 : ToInt32(x * sw) = x * sw
         /\ \A y \in 0..dh - 1 : ToInt32(y * sh) = y * sh
         /\ \A cx \in 0..dw \div 2 - 1 : ToInt32(cx * (sw \div 2)) = cx * (sw \div 2)
         /\ \A cy \in 0..dh \div 2 - 1 : ToInt32(cy * (sh \div 2)) = cy * (sh \div 2)
<1>1. \A x \in 0..dw - 1 : ToInt32(x * sw) = x * sw
  BY FitsInt
<1>2. \A y \in 0..dh - 1 : ToInt32(y * sh) = y * sh
  BY FitsInt
<1>3. /\ dw \div 2 \in Nat /\ dh \div 2 \in Nat
      /\ sw \div 2 \in Nat /\ sh \div 2 \in Nat
  OBVIOUS
<1>4. \A cx \in 0..dw \div 2 - 1 : ToInt32(cx * (sw \div 2)) = cx * (sw \div 2)
  <2>1. (dw \div 2) * (sw \div 2) <= IntEnd
    BY HalvesFit
  <2> QED
    BY <1>3, <2>1, FitsInt
<1>5. \A cy \in 0..dh \div 2 - 1 : ToInt32(cy * (sh \div 2)) = cy * (sh \div 2)
  <2>1. (dh \div 2) * (sh \div 2) <= IntEnd
    BY HalvesFit
  <2> QED
    BY <1>3, <2>1, FitsInt
<1> QED
  BY <1>1, <1>2, <1>4, <1>5

\* For every picture of OBS that GetFrame accepts (a width and a height above
\* 0), each pixel of luma is read from the luma of the buffer, whose size
\* GetFrame has checked.  Its colours are read from the chroma if the picture
\* is at least two pixels wide and high, which GetFrame does not ask.
THEOREM ScaleReadsInside ==
  ASSUME NEW sw \in Nat, NEW sh \in Nat, sw > 0, sh > 0,
         NEW dw \in Nat, NEW dh \in Nat
  PROVE  /\ \A x \in 0..dw - 1, y \in 0..dh - 1 :
              ReadLuma(x, y, sw, sh, dw, dh) \in 0..sw * sh - 1
         /\ sw >= 2 /\ sh >= 2 =>
              \A cx \in 0..dw \div 2 - 1, cy \in 0..dh \div 2 - 1 :
                ReadChroma(cx, cy, sw, sh, dw, dh)
                  \subseteq sw * sh..FrameBytes(sw, sh) - 1
<1>1. ASSUME NEW x \in 0..dw - 1, NEW y \in 0..dh - 1
      PROVE  ReadLuma(x, y, sw, sh, dw, dh) \in 0..sw * sh - 1
  <2> DEFINE r == Scaled(y, sh, dh)
             c == Scaled(x, sw, dw)
  <2>1. r \in 0..sh - 1 /\ c \in 0..sw - 1
    BY ScaledInside
  <2> HIDE DEF r, c
  <2>2. (r + 1) * sw <= sh * sw
    BY <2>1, MulMono
  <2>3. r * sw >= 0 /\ r * sw \in Int /\ (r + 1) * sw = r * sw + sw /\ sh * sw = sw * sh
    BY <2>1
  <2>4. r * sw + c \in 0..sw * sh - 1
    BY <2>1, <2>2, <2>3
  <2> QED
    BY <2>4 DEF ReadLuma, r, c
<1>2. ASSUME sw >= 2, sh >= 2,
             NEW cx \in 0..dw \div 2 - 1, NEW cy \in 0..dh \div 2 - 1
      PROVE  ReadChroma(cx, cy, sw, sh, dw, dh) \subseteq sw * sh..FrameBytes(sw, sh) - 1
  <2> DEFINE r == Scaled(cy, sh \div 2, dh \div 2)
             c == Scaled(cx, sw \div 2, dw \div 2)
             l == sh \div 2
  <2>1. /\ sw \div 2 \in Nat /\ sw \div 2 > 0 /\ l \in Nat /\ l > 0
        /\ 2 * (sw \div 2) <= sw /\ 2 * l <= sh
    BY <1>2
  <2>2. dw \div 2 \in Nat /\ dh \div 2 \in Nat
    OBVIOUS
  <2>3. r \in 0..l - 1 /\ c \in 0..sw \div 2 - 1
    BY <2>1, <2>2, ScaledInside
  <2> HIDE DEF r, c
  <2>4. (r + 1) * sw <= l * sw
    BY <2>1, <2>3, MulMono
  <2>5. r * sw >= 0 /\ r * sw \in Int /\ (r + 1) * sw = r * sw + sw
    BY <2>3
  <2>6. sw * sh + l * sw <= FrameBytes(sw, sh)
    <3> HIDE DEF l
    <3>1. (2 * l) * sw <= sh * sw
      BY <2>1, MulMono
    <3> DEFINE a == sw * sh
               b == l * sw
    <3>2. a \in Int /\ b \in Int /\ 2 * b <= a /\ sw * sh * 3 = a * 3
      BY <2>1, <3>1
    <3>3. a + b <= (a * 3) \div 2
      <4> HIDE DEF a, b
      <4> QED
        BY <3>2
    <3> QED
      BY <3>2, <3>3 DEF FrameBytes
  <2> DEFINE a == sw * sh
             b == r * sw
             d == l * sw
             f == FrameBytes(sw, sh)
  <2>7. /\ ReadChroma(cx, cy, sw, sh, dw, dh) = {a + b + 2 * c, a + b + 2 * c + 1}
        /\ a \in Int /\ b \in Nat /\ d \in Int /\ f \in Int
        /\ b + sw <= d /\ a + d <= f
    <3>1. f \in Int
      BY DEF FrameBytes
    <3> QED
      BY <2>1, <2>3, <2>4, <2>5, <2>6, <3>1 DEF ReadChroma, r, c
  <2>8. c \in Nat /\ 2 * c + 1 < sw
    BY <2>1, <2>3
  <2>9. sw * sh = a /\ FrameBytes(sw, sh) = f
    OBVIOUS
  <2> HIDE DEF a, b, d, f
  <2> QED
    BY <2>7, <2>8, <2>9
<1> QED
  BY <1>1, <1>2

\* A picture one pixel wide or high passes the tests of GetFrame, and its
\* colours are read beyond the bytes they ask for: of 1 by 2 pixels the byte
\* after the last, of 1280 by 1 up to 640 bytes after it.
THEOREM ThinPicturesReadOutside ==
  /\ FrameBytes(1, 2) = 3 /\ 3 \in ReadChroma(0, 0, 1, 2, 1280, 720)
  /\ FrameBytes(1280, 1) = 1920 /\ 2559 \in ReadChroma(639, 0, 1280, 1, 1280, 720)
<1>1. FrameBytes(1, 2) = 3 /\ FrameBytes(1280, 1) = 1920
  BY DEF FrameBytes
<1>2. ReadChroma(0, 0, 1, 2, 1280, 720) = {2, 3}
  BY DEF ReadChroma, Scaled
<1>3. ReadChroma(639, 0, 1280, 1, 1280, 720) = {2558, 2559}
  BY DEF ReadChroma, Scaled
<1> QED
  BY <1>1, <1>2, <1>3

\* A picture of OBS that has the size of the frame is taken over as it is.
THEOREM SameSizeIsCopied ==
  ASSUME NEW w \in Nat, NEW h \in Nat, w >= 2, h >= 2, w % 2 = 0, h % 2 = 0
  PROVE  /\ \A x \in 0..w - 1, y \in 0..h - 1 :
              ReadLuma(x, y, w, h, w, h) = y * w + x
         /\ \A cx \in 0..w \div 2 - 1, cy \in 0..h \div 2 - 1 :
              ReadChroma(cx, cy, w, h, w, h) = PatternChroma(cx, cy, w, h)
<1>1. ASSUME NEW n \in Nat, n > 0, NEW i \in 0..n - 1
      PROVE  Scaled(i, n, n) = i
  <2> DEFINE q == (i * n) \div n
  <2>1. q \in Int /\ n * q <= i * n /\ i * n < n * q + n
    OBVIOUS
  <2> HIDE DEF q
  <2>2. ~ (q <= i - 1)
    <3>1. CASE q <= i - 1
      <4>1. q * n <= (i - 1) * n
        BY <2>1, <3>1, MulMono
      <4> QED
        BY <2>1, <4>1
    <3> QED
      BY <3>1
  <2>3. ~ (q >= i + 1)
    <3>1. CASE q >= i + 1
      <4>1. (i + 1) * n <= q * n
        BY <2>1, <3>1, MulMono
      <4> QED
        BY <2>1, <4>1
    <3> QED
      BY <3>1
  <2>4. q = i
    BY <2>1, <2>2, <2>3
  <2> QED
    BY <2>4 DEF Scaled, q
<1>2. w \div 2 \in Nat /\ h \div 2 \in Nat /\ w \div 2 > 0 /\ h \div 2 > 0
  OBVIOUS
<1>3. ASSUME NEW x \in 0..w - 1, NEW y \in 0..h - 1
      PROVE  ReadLuma(x, y, w, h, w, h) = y * w + x
  BY <1>1 DEF ReadLuma
<1>4. ASSUME NEW cx \in 0..w \div 2 - 1, NEW cy \in 0..h \div 2 - 1
      PROVE  ReadChroma(cx, cy, w, h, w, h) = PatternChroma(cx, cy, w, h)
  <2>1. Scaled(cx, w \div 2, w \div 2) = cx /\ Scaled(cy, h \div 2, h \div 2) = cy
    BY <1>1, <1>2
  <2>2. 2 * cx = cx * 2
    OBVIOUS
  <2> QED
    BY <2>1, <2>2 DEF ReadChroma, PatternChroma
<1> QED
  BY <1>3, <1>4

-----------------------------------------------------------------------------
(* Copying and converting.                                                 *)

\* Every row that is copied lies within a buffer whose rows are at least as
\* long as the picture's: the broker's frame, with a stride of its width, and
\* the sample's buffer, with its pitch.
THEOREM CopyStaysInside ==
  ASSUME NEW w \in Nat, NEW h \in Nat, h % 2 = 0, NEW stride \in Nat, stride >= w
  PROVE  /\ \A y \in 0..h - 1 :
              LumaRow(y, w, stride) \subseteq 0..stride * h - 1
         /\ \A y \in 0..h \div 2 - 1 :
              ChromaRow(y, w, h, stride)
                \subseteq stride * h..FrameBytes(stride, h) - 1
<1>1. FrameBytes(stride, h) = stride * h + stride * (h \div 2)
  BY WholePicture
<1>2. ASSUME NEW n \in Nat, NEW y \in 0..n - 1
      PROVE  y * stride \in Nat /\ y * stride + w <= stride * n
  <2>1. (y + 1) * stride <= n * stride
    BY MulMono
  <2>2. y * stride \in Nat /\ (y + 1) * stride = y * stride + stride /\ n * stride = stride * n
    OBVIOUS
  <2> QED
    BY <2>1, <2>2
<1>3. ASSUME NEW y \in 0..h - 1
      PROVE  LumaRow(y, w, stride) \subseteq 0..stride * h - 1
  <2> DEFINE a == y * stride
             b == stride * h
  <2>1. a \in Nat /\ b \in Int /\ a + w <= b
    BY <1>2
  <2>2. LumaRow(y, w, stride) = a..a + w - 1
    BY DEF LumaRow
  <2> HIDE DEF a
  <2>3. stride * h = b
    OBVIOUS
  <2> HIDE DEF b
  <2>4. a..a + w - 1 \subseteq 0..b - 1
    BY <2>1
  <2> QED
    BY <2>2, <2>3, <2>4
<1>4. ASSUME NEW y \in 0..h \div 2 - 1
      PROVE  ChromaRow(y, w, h, stride) \subseteq stride * h..FrameBytes(stride, h) - 1
  <2> DEFINE a == y * stride
             b == stride * h
             c == stride * (h \div 2)
  <2>1. a \in Nat /\ b \in Int /\ c \in Int /\ a + w <= c
    BY <1>2
  <2>2. ChromaRow(y, w, h, stride) = b + a..b + a + w - 1 /\ FrameBytes(stride, h) = b + c
    BY <1>1 DEF ChromaRow
  <2>3. stride * h = b
    OBVIOUS
  <2> HIDE DEF a, b, c
  <2>4. b + a..b + a + w - 1 \subseteq b..b + c - 1
    BY <2>1
  <2> QED
    BY <2>1, <2>2, <2>3, <2>4
<1> QED
  BY <1>3, <1>4

\* The conversion of the waiting pattern reads and writes within its buffers,
\* for a picture of an even number of rows and columns.
THEOREM ConvertStaysInside ==
  ASSUME NEW w \in Nat, NEW h \in Nat, h % 2 = 0,
         NEW stride \in Nat, stride >= 4 * w, NEW pitch \in Nat, pitch >= w,
         NEW i \in Nat, 2 * i + 2 <= w, NEW j \in Nat, 2 * j + 2 <= h
  PROVE  /\ ConvertReads(2 * i, 2 * j, stride) \subseteq 0..stride * h - 1
         /\ ConvertLuma(2 * i, 2 * j, pitch) \subseteq 0..pitch * h - 1
         /\ ConvertChroma(2 * i, 2 * j, h, pitch)
              \subseteq pitch * h..FrameBytes(pitch, h) - 1
<1>1. ASSUME NEW s \in Nat
      PROVE  /\ (2 * j) * s \in Nat
             /\ (2 * j + 1) * s = (2 * j) * s + s
             /\ (2 * j) * s + 2 * s <= s * h
  <2>1. (2 * j + 2) * s <= h * s
    BY MulMono
  <2>2. h * s = s * h /\ (2 * j + 2) * s = (2 * j) * s + 2 * s
    OBVIOUS
  <2> QED
    BY <2>1, <2>2
<1>2. ConvertReads(2 * i, 2 * j, stride) \subseteq 0..stride * h - 1
  <2> DEFINE a == (2 * j) * stride
             b == stride * h
  <2>1. a \in Nat /\ b \in Int /\ a + 2 * stride <= b
    BY <1>1
  <2>2. ConvertReads(2 * i, 2 * j, stride)
          = (a + 8 * i..a + 8 * i + 7) \cup (a + stride + 8 * i..a + stride + 8 * i + 7)
    BY <1>1 DEF ConvertReads
  <2> HIDE DEF a
  <2>3. /\ a + 8 * i..a + 8 * i + 7 \subseteq 0..b - 1
        /\ a + stride + 8 * i..a + stride + 8 * i + 7 \subseteq 0..b - 1
    <3> HIDE DEF b
    <3> QED
      BY <2>1
  <2> QED
    BY <2>2, <2>3
<1>3. ConvertLuma(2 * i, 2 * j, pitch) \subseteq 0..pitch * h - 1
  <2> DEFINE a == (2 * j) * pitch
             b == pitch * h
  <2>1. a \in Nat /\ b \in Int /\ a + 2 * pitch <= b
    BY <1>1
  <2>2. ConvertLuma(2 * i, 2 * j, pitch)
          = {a + 2 * i, a + 2 * i + 1, a + pitch + 2 * i, a + pitch + 2 * i + 1}
    BY <1>1 DEF ConvertLuma
  <2> HIDE DEF a
  <2>3. {a + 2 * i, a + 2 * i + 1, a + pitch + 2 * i, a + pitch + 2 * i + 1} \subseteq 0..b - 1
    <3> HIDE DEF b
    <3> QED
      BY <2>1
  <2> QED
    BY <2>2, <2>3
<1>4. ConvertChroma(2 * i, 2 * j, h, pitch) \subseteq pitch * h..FrameBytes(pitch, h) - 1
  <2> DEFINE a == j * pitch
             b == pitch * h
             c == pitch * (h \div 2)
  <2>1. FrameBytes(pitch, h) = b + c
    BY WholePicture
  <2>2. (j + 1) * pitch <= (h \div 2) * pitch
    <3>1. j + 1 <= h \div 2
      OBVIOUS
    <3> QED
      BY <3>1, MulMono
  <2>3. a \in Nat /\ b \in Int /\ c \in Int /\ a + pitch <= c
    BY <2>2
  <2>4. (2 * j) \div 2 = j /\ (j + h) * pitch = b + a
    OBVIOUS
  <2>5. ConvertChroma(2 * i, 2 * j, h, pitch) = {b + a + 2 * i, b + a + 2 * i + 1}
    BY <2>4 DEF ConvertChroma
  <2>6. pitch * h = b
    OBVIOUS
  <2> HIDE DEF a, b, c
  <2>7. {b + a + 2 * i, b + a + 2 * i + 1} \subseteq b..b + c - 1
    BY <2>3
  <2> QED
    BY <2>1, <2>3, <2>5, <2>6, <2>7
<1> QED
  BY <1>2, <1>3, <1>4

=============================================================================
