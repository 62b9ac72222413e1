---------------------------- MODULE FrameBuffer ----------------------------
(*************************************************************************)
(* A buffer for video frames, as a client of mmm_color_fmt.h uses one:   *)
(* it is allocated once with MMM_COLOR_FMT_BUFFER_SIZE, for the largest  *)
(* frame, and then holds frames of that or of a smaller resolution, each *)
(* laid out plane by plane in the order the comments of enum             *)
(* mmm_color_fmts give.  The client is external: it may pick any format, *)
(* any size of Widths and Heights and any smaller frame.                 *)
(*************************************************************************)
EXTENDS ColorFmt

CONSTANTS Widths, Heights

ASSUME SidesAssumption == Widths \subseteq Nat \ {0} /\ Heights \subseteq Nat \ {0}

VARIABLES
    buffer,   \* [fmt, w, h, size] of the allocation, or NoBuffer
    frame,    \* [w, h, interlaced] being laid out, or NoFrame
    layout    \* the planes placed so far: [name, start, size]

vars == <<buffer, frame, layout>>

NoBuffer == [fmt |-> "none", w |-> 0, h |-> 0, size |-> 0]
NoFrame == [w |-> 0, h |-> 0, interlaced |-> FALSE]

-----------------------------------------------------------------------------
\* The planes of a frame in memory order, as <<name, size>>.
YuvPlanes(f, w, h) == <<<<"Y", y_plane(f, w, h)>>, <<"UV", uv_plane(f, w, h)>>>>

UbwcPlanes(f, w, h) ==
    <<<<"Y_Meta", y_meta_plane(f, w, h)>>, <<"Y_UBWC", Page(y_plane(f, w, h))>>,
      <<"UV_Meta", uv_meta_plane(f, w, h)>>, <<"UV_UBWC", Page(uv_plane(f, w, h))>>>>

\* The two fields of an interlaced frame lie one behind the other.
UbwcFields(f, w, h, interlaced) ==
    IF interlaced THEN UbwcPlanes(f, w, Half(h)) \o UbwcPlanes(f, w, Half(h))
    ELSE UbwcPlanes(f, w, h)

Planes(f, w, h, interlaced) ==
    CASE f \in Linear -> YuvPlanes(f, w, h)
      [] f \in YuvUbwc -> UbwcFields(f, w, h, interlaced)
      [] f = "RGBA8888" -> <<<<"RGB", rgb_plane(f, w, h)>>>>
      [] f \in RgbUbwc -> <<<<"RGB_Meta", rgb_meta_plane(f, w, h)>>, <<"RGB", rgb_plane(f, w, h)>>>>

End(p) == p.start + p.size
LayoutEnd == IF layout = <<>> THEN 0 ELSE End(layout[Len(layout)])
FramePlanes == Planes(buffer.fmt, frame.w, frame.h, frame.interlaced)

-----------------------------------------------------------------------------
Init == buffer = NoBuffer /\ frame = NoFrame /\ layout = <<>>

Allocate(f, w, h) ==
    /\ buffer = NoBuffer
    /\ buffer' = [fmt |-> f, w |-> w, h |-> h, size |-> MMM_COLOR_FMT_BUFFER_SIZE(f, w, h)]
    /\ UNCHANGED <<frame, layout>>

\* The next frame: only NV12_UBWC has interlaced ones, of the sizes it allows for.
StartFrame(w, h, interlaced) ==
    /\ buffer # NoBuffer /\ frame = NoFrame
    /\ w <= buffer.w /\ h <= buffer.h
    /\ interlaced => buffer.fmt = "NV12_UBWC" /\ InterlaceCapable(w, h)
    /\ frame' = [w |-> w, h |-> h, interlaced |-> interlaced]
    /\ UNCHANGED <<buffer, layout>>

PlacePlane ==
    /\ frame # NoFrame /\ Len(layout) < Len(FramePlanes)
    /\ LET p == FramePlanes[Len(layout) + 1]
       IN  layout' = Append(layout, [name |-> p[1], start |-> LayoutEnd, size |-> p[2]])
    /\ UNCHANGED <<buffer, frame>>

EndFrame ==
    /\ frame # NoFrame /\ Len(layout) = Len(FramePlanes)
    /\ frame' = NoFrame /\ layout' = <<>>
    /\ UNCHANGED buffer

Free ==
    /\ buffer # NoBuffer /\ frame = NoFrame
    /\ buffer' = NoBuffer
    /\ UNCHANGED <<frame, layout>>

Next ==
    \/ \E f \in mmm_color_fmts, w \in Widths, h \in Heights : Allocate(f, w, h)
    \/ \E w \in Widths, h \in Heights, i \in BOOLEAN : StartFrame(w, h, i)
    \/ PlacePlane
    \/ EndFrame
    \/ Free

Spec == Init /\ [][Next]_vars

-----------------------------------------------------------------------------
\* What the comments of the enumerators say of the planes, for a frame of whole
\* macroblocks; tile sizes are in pixels of the frame, for both planes.
DocAlign(sz, a) == sz + ((a - (sz % a)) % a)
DocTiles(sz, tile) == DocAlign(sz, tile) \div tile
DocYuv(w, h, wa, ha, ua) ==
    <<<<"Y", DocAlign(w, wa) * DocAlign(h, ha)>>, <<"UV", DocAlign(w, wa) * DocAlign(h \div 2, ua)>>>>
DocMeta(x, w, h, tw, th) ==
    <<x, DocAlign(DocAlign(DocTiles(w, tw), 64) * DocAlign(DocTiles(h, th), 16), 4096)>>
DocPlane(x, stride, lines) == <<x, DocAlign(stride * lines, 4096)>>
DocRgbUbwc(w, h, bpp, tw, th) ==
    <<DocMeta("RGB_Meta", w, h, tw, th), DocPlane("RGB", DocAlign(w * bpp, 256), DocAlign(h, 16))>>

Doc_NV12(w, h) == DocYuv(w, h, 128, 32, 16)
Doc_NV21(w, h) == DocYuv(w, h, 128, 32, 16)
Doc_P010(w, h) == DocYuv(2 * w, h, 256, 32, 16)
Doc_P010_512(w, h) == DocYuv(2 * w, h, 512, 32, 16)
Doc_NV12_512(w, h) == DocYuv(w, h, 512, 512, 256)

Doc_NV12_UBWC_Progressive(w, h) ==
    <<DocMeta("Y_Meta", w, h, 32, 8), DocPlane("Y_UBWC", DocAlign(w, 128), DocAlign(h, 32)),
      DocMeta("UV_Meta", w, h, 32, 16), DocPlane("UV_UBWC", DocAlign(w, 128), DocAlign(h \div 2, 32))>>

\* Top field planes, then bottom field planes, each of Half_height lines.
Doc_NV12_UBWC_Interlaced(w, h) ==
    LET Half_height == (h + 1) \div 2
        Field == <<DocMeta("Y_Meta", w, Half_height, 32, 8),
                   DocPlane("Y_UBWC", DocAlign(w, 128), DocAlign(Half_height, 32)),
                   DocMeta("UV_Meta", w, Half_height, 32, 16),
                   DocPlane("UV_UBWC", DocAlign(w, 128), DocAlign((Half_height + 1) \div 2, 32))>>
    IN  Field \o Field

Doc_NV12_BPP10_UBWC(w, h) ==
    <<DocMeta("Y_Meta", w, h, 48, 4),
      DocPlane("Y_UBWC", DocAlign((w * 4) \div 3, 256), DocAlign(h, 32)),
      DocMeta("UV_Meta", w, h, 48, 8),
      DocPlane("UV_UBWC", DocAlign((w * 4) \div 3, 256), DocAlign(h \div 2, 16))>>

Doc_P010_UBWC(w, h) ==
    <<DocMeta("Y_Meta", w, h, 32, 4), DocPlane("Y_UBWC", DocAlign(w * 2, 256), DocAlign(h, 16)),
      DocMeta("UV_Meta", w, h, 32, 8), DocPlane("UV_UBWC", DocAlign(w * 2, 256), DocAlign(h \div 2, 16))>>

Doc_RGBA8888(w, h) == <<DocPlane("RGB", DocAlign(w * 4, 256), DocAlign(h, 32))>>
Doc_RGBA8888_UBWC(w, h) == DocRgbUbwc(w, h, 4, 16, 4)
Doc_RGBA1010102_UBWC(w, h) == DocRgbUbwc(w, h, 4, 16, 4)
Doc_RGB565_UBWC(w, h) == DocRgbUbwc(w, h, 2, 16, 4)
Doc_RGBA16161616F_UBWC(w, h) == DocRgbUbwc(w, h, 8, 8, 4)

Documented(f, w, h, interlaced) ==
    CASE f = "NV12" -> Doc_NV12(w, h)
      [] f = "NV21" -> Doc_NV21(w, h)
      [] f = "P010" -> Doc_P010(w, h)
      [] f = "P010_512" -> Doc_P010_512(w, h)
      [] f = "NV12_512" -> Doc_NV12_512(w, h)
      [] f = "NV12_UBWC" /\ interlaced -> Doc_NV12_UBWC_Interlaced(w, h)
      [] f = "NV12_UBWC" /\ ~interlaced -> Doc_NV12_UBWC_Progressive(w, h)
      [] f = "NV12_BPP10_UBWC" -> Doc_NV12_BPP10_UBWC(w, h)
      [] f = "P010_UBWC" -> Doc_P010_UBWC(w, h)
      [] f = "RGBA8888" -> Doc_RGBA8888(w, h)
      [] f = "RGBA8888_UBWC" -> Doc_RGBA8888_UBWC(w, h)
      [] f = "RGBA1010102_UBWC" -> Doc_RGBA1010102_UBWC(w, h)
      [] f = "RGB565_UBWC" -> Doc_RGB565_UBWC(w, h)
      [] f = "RGBA16161616F_UBWC" -> Doc_RGBA16161616F_UBWC(w, h)

-----------------------------------------------------------------------------
\* Type invariant; a frame and its planes lie in an allocated buffer.
TypeOK ==
    /\ buffer \in [fmt : mmm_color_fmts, w : Widths, h : Heights, size : Nat] \cup {NoBuffer}
    /\ frame \in [w : Widths, h : Heights, interlaced : BOOLEAN] \cup {NoFrame}
    /\ buffer = NoBuffer => frame = NoFrame
    /\ frame = NoFrame => layout = <<>>
    /\ \A k \in DOMAIN layout : layout[k].start \in Nat /\ layout[k].size \in Nat

\* No plane leaves the allocation, whatever smaller frame follows a larger one.
\* The exception is the code's: an NV12_UBWC buffer too large for the interlaced
\* case is sized for progressive frames, and two fields of a smaller frame may
\* then need more than it has.
PlanesInside ==
    \A k \in DOMAIN layout :
        \/ End(layout[k]) <= buffer.size
        \/ frame.interlaced /\ ~InterlaceCapable(buffer.w, buffer.h)

\* MMM_COLOR_FMT_BUFFER_SIZE_USED, computed without the planes' order, is the
\* extent of the finished frame.
UsedIsExtent ==
    frame # NoFrame /\ Len(layout) = Len(FramePlanes) =>
        Page(LayoutEnd)
          = MMM_COLOR_FMT_BUFFER_SIZE_USED(buffer.fmt, frame.w, frame.h, frame.interlaced)

\* Every tile of a padded compressed plane has its entry in the metadata plane:
\* the two are padded by different functions.
MetaCoversTiles ==
    frame # NoFrame /\ buffer.fmt \in YuvUbwc \cup RgbUbwc =>
        LET f == buffer.fmt
            w == frame.w
            h == IF frame.interlaced THEN Half(frame.h) ELSE frame.h
        IN IF f \in RgbUbwc
             THEN /\ 4 * MMM_COLOR_FMT_RGB_META_SCANLINES(f, h) >= MMM_COLOR_FMT_RGB_SCANLINES(f, h)
                  /\ (IF f = "RGB565_UBWC" THEN 32 ELSE 64) * MMM_COLOR_FMT_RGB_META_STRIDE(f, w)
                        >= MMM_COLOR_FMT_RGB_STRIDE(f, w)
             ELSE LET lines == IF f = "NV12_UBWC" THEN 8 ELSE 4
                      bytes == IF f = "NV12_UBWC" THEN 32 ELSE 64
                  IN /\ lines * MMM_COLOR_FMT_Y_META_SCANLINES(f, h) >= MMM_COLOR_FMT_Y_SCANLINES(f, h)
                     /\ lines * MMM_COLOR_FMT_UV_META_SCANLINES(f, h) >= MMM_COLOR_FMT_UV_SCANLINES(f, h)
                     /\ bytes * MMM_COLOR_FMT_Y_META_STRIDE(f, w) >= MMM_COLOR_FMT_Y_STRIDE(f, w)
                     /\ bytes * MMM_COLOR_FMT_UV_META_STRIDE(f, w) >= MMM_COLOR_FMT_UV_STRIDE(f, w)

\* The planes are those the enumerator's comment describes, in order and size.  For
\* NV12_BPP10_UBWC that is so only where 16 and 32 lines align alike: the code aligns
\* the height to 16, the comment says "Y_Scanlines = align(Height, 32)".
LayoutAsDocumentedBut10Bit ==
    frame # NoFrame /\ (buffer.fmt = "NV12_BPP10_UBWC" => DocAlign(frame.h, 16) % 32 = 0) =>
        FramePlanes = Documented(buffer.fmt, frame.w, frame.h, frame.interlaced)
=============================================================================
