-------------------------------- MODULE Nv12 --------------------------------
(***************************************************************************)
(* The arithmetic of the pictures: which byte of an NV12 buffer is read or *)
(* written where.  A buffer of w by h pixels has w * h bytes of luma, row  *)
(* by row, and then half as many rows of w bytes, of chroma, a pair of     *)
(* bytes for two by two pixels.                                            *)
(*                                                                         *)
(* There is no state here; Nv12Proofs says what holds for every size.  The *)
(* broker and the source use 1280 by 720, OBS what the user has set.       *)
(***************************************************************************)
EXTENDS Integers

\* Division and remainder of C, which round towards zero.
Trunc(a, b) == IF a >= 0 THEN a \div b ELSE -((-a) \div b)
Rem(a, b) == a - b * Trunc(a, b)

\* The first number that is no int.
IntEnd == 2147483648

\* A 32-bit unsigned value, and what a cast to int makes of it.
ToUint32(n) == n % (2 * IntEnd)
ToInt32(n) ==
  IF ToUint32(n) < IntEnd THEN ToUint32(n) ELSE ToUint32(n) - 2 * IntEnd

\* The bytes of a whole picture.
FrameBytes(w, h) == (w * h * 3) \div 2

-----------------------------------------------------------------------------
(* Colours.                                                                *)

Luma(r, g, b) == (66 * r + 129 * g + 25 * b + 128) \div 256 + 16
BlueChroma(r, g, b) == (112 * b - 38 * r - 74 * g + 128) \div 256 + 128
RedChroma(r, g, b) == (112 * r - 94 * g - 18 * b + 128) \div 256 + 128

Clamp(n) == IF n < 0 THEN 0 ELSE IF n > 255 THEN 255 ELSE n

\* The broker's conversion clamps...
RgbToYuv(r, g, b) ==
  <<Clamp(Luma(r, g, b)), Clamp(BlueChroma(r, g, b)), Clamp(RedChroma(r, g, b))>>

\* ...and the media source's cuts off what is more than a byte.
RGB24ToYUY2(r, g, b) ==
  <<Luma(r, g, b) % 256, BlueChroma(r, g, b) % 256, RedChroma(r, g, b) % 256>>

-----------------------------------------------------------------------------
(* The test pattern.                                                       *)

\* The bar that pixel x of a row shows, an index of the eight bars.
Bar(x, frame, w) == Rem(Trunc(x + ToInt32(frame * 4), w \div 8), 8)

\* The bytes that block bx, by of two by two pixels writes.
PatternLuma(bx, by, w) ==
  LET px == by * 2 * w + bx * 2 IN {px, px + 1, px + w, px + w + 1}
PatternChroma(bx, by, w, h) ==
  LET uv == w * h + by * w + bx * 2 IN {uv, uv + 1}

-----------------------------------------------------------------------------
(* The picture of OBS, of sw by sh pixels, scaled to dw by dh.             *)

Scaled(i, from, to) == (i * from) \div to

\* The byte that is read for pixel x of row y...
ReadLuma(x, y, sw, sh, dw, dh) == Scaled(y, sh, dh) * sw + Scaled(x, sw, dw)

\* ...and the two for pair cx of chroma row cy.
ReadChroma(cx, cy, sw, sh, dw, dh) ==
  LET uv == sw * sh + Scaled(cy, sh \div 2, dh \div 2) * sw
                    + 2 * Scaled(cx, sw \div 2, dw \div 2)
  IN {uv, uv + 1}

-----------------------------------------------------------------------------
(* A picture of the broker, copied into a buffer of another stride.        *)

\* The bytes of row y of luma, and of chroma, in a buffer of this stride.
LumaRow(y, w, stride) == y * stride .. y * stride + w - 1
ChromaRow(y, w, h, stride) == stride * h + y * stride .. stride * h + y * stride + w - 1

-----------------------------------------------------------------------------
(* The waiting pattern: 32 bits per pixel, converted two by two pixels.    *)

\* The bytes read for the block at pixel x of the even row y...
ConvertReads(x, y, stride) ==
  (y * stride + 4 * x .. y * stride + 4 * x + 7)
    \cup ((y + 1) * stride + 4 * x .. (y + 1) * stride + 4 * x + 7)

\* ...and those written.
ConvertLuma(x, y, pitch) ==
  {y * pitch + x, y * pitch + x + 1, (y + 1) * pitch + x, (y + 1) * pitch + x + 1}
ConvertChroma(x, y, h, pitch) ==
  LET uv == (y \div 2 + h) * pitch + x IN {uv, uv + 1}

=============================================================================
