------------------------------ MODULE ColorFmt ------------------------------
(*************************************************************************)
(* The buffer geometry of src/include/display/media/mmm_color_fmt.h:     *)
(* what a video or display client allocates for a colour format, and     *)
(* where the planes of a frame then lie.  The inline functions are       *)
(* operators of the same name; they compute in unsigned int, which no    *)
(* frame of the device's screen and cameras exceeds, so that the model   *)
(* computes in Nat.                                                      *)
(*************************************************************************)
EXTENDS Integers, Sequences

INTERLACE_WIDTH_MAX == 1920
INTERLACE_HEIGHT_MAX == 1920
INTERLACE_MB_PER_FRAME_MAX == (1920 * 1088) \div 256

\* Both arms of the macro, the masking one for powers of two included, give the
\* least multiple of align that is not below sz.
MMM_COLOR_FMT_ALIGN(sz, align) == ((sz + align - 1) \div align) * align

MMM_COLOR_FMT_ROUNDUP(sz, r) == (sz + (r - 1)) \div r

Half(x) == (x + 1) \div 2

\* enum mmm_color_fmts: planar, compressed (UBWC) and RGB formats.
Linear == {"NV12", "NV21", "P010", "P010_512", "NV12_512"}
YuvUbwc == {"NV12_UBWC", "NV12_BPP10_UBWC", "P010_UBWC"}
RgbUbwc == {"RGBA8888_UBWC", "RGBA1010102_UBWC", "RGB565_UBWC", "RGBA16161616F_UBWC"}
mmm_color_fmts == Linear \cup YuvUbwc \cup RgbUbwc \cup {"RGBA8888"}

-----------------------------------------------------------------------------
\* mutant: the 10-bit stride without the step to whole tiles of 192 pixels
StrideWithoutTiles(color_fmt, width) ==
    CASE width = 0 -> 0
      [] color_fmt = "NV12_512" -> MMM_COLOR_FMT_ALIGN(width, 512)
      [] color_fmt \in {"NV12", "NV21", "NV12_UBWC"} -> MMM_COLOR_FMT_ALIGN(width, 128)
      [] color_fmt = "NV12_BPP10_UBWC" -> MMM_COLOR_FMT_ALIGN(width, 256)
      [] color_fmt \in {"P010_UBWC", "P010"} -> MMM_COLOR_FMT_ALIGN(width * 2, 256)
      [] color_fmt = "P010_512" -> MMM_COLOR_FMT_ALIGN(width * 2, 512)
      [] OTHER -> 0

MMM_COLOR_FMT_Y_STRIDE(color_fmt, width) ==
    CASE width = 0 -> 0
      [] color_fmt = "NV12_512" -> MMM_COLOR_FMT_ALIGN(width, 512)
      [] color_fmt \in {"NV12", "NV21", "NV12_UBWC"} -> MMM_COLOR_FMT_ALIGN(width, 128)
      [] color_fmt = "NV12_BPP10_UBWC" ->
            MMM_COLOR_FMT_ALIGN((MMM_COLOR_FMT_ALIGN(width, 192) * 4) \div 3, 256)
      [] color_fmt \in {"P010_UBWC", "P010"} -> MMM_COLOR_FMT_ALIGN(width * 2, 256)
      [] color_fmt = "P010_512" -> MMM_COLOR_FMT_ALIGN(width * 2, 512)
      [] OTHER -> 0

MMM_COLOR_FMT_UV_STRIDE(color_fmt, width) ==
    CASE width = 0 -> 0
      [] color_fmt = "NV12_512" -> MMM_COLOR_FMT_ALIGN(width, 512)
      [] color_fmt \in {"NV12", "NV21", "NV12_UBWC"} -> MMM_COLOR_FMT_ALIGN(width, 128)
      [] color_fmt = "NV12_BPP10_UBWC" ->
            MMM_COLOR_FMT_ALIGN((MMM_COLOR_FMT_ALIGN(width, 192) * 4) \div 3, 256)
      [] color_fmt \in {"P010_UBWC", "P010"} -> MMM_COLOR_FMT_ALIGN(width * 2, 256)
      [] color_fmt = "P010_512" -> MMM_COLOR_FMT_ALIGN(width * 2, 512)
      [] OTHER -> 0

MMM_COLOR_FMT_Y_SCANLINES(color_fmt, height) ==
    CASE height = 0 -> 0
      [] color_fmt = "NV12_512" -> MMM_COLOR_FMT_ALIGN(height, 512)
      [] color_fmt \in {"NV12", "NV21", "NV12_UBWC", "P010_512", "P010"} ->
            MMM_COLOR_FMT_ALIGN(height, 32)
      [] color_fmt \in {"NV12_BPP10_UBWC", "P010_UBWC"} -> MMM_COLOR_FMT_ALIGN(height, 16)
      [] OTHER -> 0

MMM_COLOR_FMT_UV_SCANLINES(color_fmt, height) ==
    CASE height = 0 -> 0
      [] color_fmt = "NV12_512" -> MMM_COLOR_FMT_ALIGN(Half(height), 256)
      [] color_fmt \in {"NV12", "NV21", "NV12_BPP10_UBWC", "P010_UBWC", "P010_512", "P010"} ->
            MMM_COLOR_FMT_ALIGN(Half(height), 16)
      [] color_fmt = "NV12_UBWC" -> MMM_COLOR_FMT_ALIGN(Half(height), 32)
      [] OTHER -> 0

MMM_COLOR_FMT_Y_META_STRIDE(color_fmt, width) ==
    CASE width = 0 -> 0
      [] color_fmt \in {"NV12_UBWC", "P010_UBWC"} ->
            MMM_COLOR_FMT_ALIGN(MMM_COLOR_FMT_ROUNDUP(width, 32), 64)
      [] color_fmt = "NV12_BPP10_UBWC" ->
            MMM_COLOR_FMT_ALIGN(MMM_COLOR_FMT_ROUNDUP(width, 48), 64)
      [] OTHER -> 0

MMM_COLOR_FMT_Y_META_SCANLINES(color_fmt, height) ==
    CASE height = 0 -> 0
      [] color_fmt = "NV12_UBWC" -> MMM_COLOR_FMT_ALIGN(MMM_COLOR_FMT_ROUNDUP(height, 8), 16)
      [] color_fmt \in {"NV12_BPP10_UBWC", "P010_UBWC"} ->
            MMM_COLOR_FMT_ALIGN(MMM_COLOR_FMT_ROUNDUP(height, 4), 16)
      [] OTHER -> 0

MMM_COLOR_FMT_UV_META_STRIDE(color_fmt, width) ==
    CASE width = 0 -> 0
      [] color_fmt \in {"NV12_UBWC", "P010_UBWC"} ->
            MMM_COLOR_FMT_ALIGN(MMM_COLOR_FMT_ROUNDUP(Half(width), 16), 64)
      [] color_fmt = "NV12_BPP10_UBWC" ->
            MMM_COLOR_FMT_ALIGN(MMM_COLOR_FMT_ROUNDUP(Half(width), 24), 64)
      [] OTHER -> 0

MMM_COLOR_FMT_UV_META_SCANLINES(color_fmt, height) ==
    CASE height = 0 -> 0
      [] color_fmt = "NV12_UBWC" ->
            MMM_COLOR_FMT_ALIGN(MMM_COLOR_FMT_ROUNDUP(Half(height), 8), 16)
      [] color_fmt \in {"NV12_BPP10_UBWC", "P010_UBWC"} ->
            MMM_COLOR_FMT_ALIGN(MMM_COLOR_FMT_ROUNDUP(Half(height), 4), 16)
      [] OTHER -> 0

MMM_COLOR_FMT_RGB_STRIDE(color_fmt, width) ==
    CASE width = 0 -> 0
      [] color_fmt = "RGB565_UBWC" -> MMM_COLOR_FMT_ALIGN(width * 2, 256)
      [] color_fmt \in {"RGBA8888", "RGBA8888_UBWC", "RGBA1010102_UBWC"} ->
            MMM_COLOR_FMT_ALIGN(width * 4, 256)
      [] color_fmt = "RGBA16161616F_UBWC" -> MMM_COLOR_FMT_ALIGN(width * 8, 256)
      [] OTHER -> 0

MMM_COLOR_FMT_RGB_SCANLINES(color_fmt, height) ==
    CASE height = 0 -> 0
      [] color_fmt = "RGBA8888" -> MMM_COLOR_FMT_ALIGN(height, 32)
      [] color_fmt \in RgbUbwc -> MMM_COLOR_FMT_ALIGN(height, 16)
      [] OTHER -> 0

MMM_COLOR_FMT_RGB_META_STRIDE(color_fmt, width) ==
    CASE width = 0 -> 0
      [] color_fmt \in RgbUbwc \ {"RGBA16161616F_UBWC"} ->
            MMM_COLOR_FMT_ALIGN(MMM_COLOR_FMT_ROUNDUP(width, 16), 64)
      [] color_fmt = "RGBA16161616F_UBWC" ->
            MMM_COLOR_FMT_ALIGN(MMM_COLOR_FMT_ROUNDUP(width, 8), 64)
      [] OTHER -> 0

\* mutant: a tile taken for 16 lines high
MetaScanlinesHighTiles(color_fmt, height) ==
    IF height = 0 \/ color_fmt \notin RgbUbwc THEN 0
    ELSE MMM_COLOR_FMT_ALIGN(MMM_COLOR_FMT_ROUNDUP(height, 16), 16)

MMM_COLOR_FMT_RGB_META_SCANLINES(color_fmt, height) ==
    IF height = 0 \/ color_fmt \notin RgbUbwc THEN 0
    ELSE MMM_COLOR_FMT_ALIGN(MMM_COLOR_FMT_ROUNDUP(height, 4), 16)

-----------------------------------------------------------------------------
Page(sz) == MMM_COLOR_FMT_ALIGN(sz, 4096)

\* The sizes of the planes, which MMM_COLOR_FMT_BUFFER_SIZE adds up.
y_plane(f, w, h) == MMM_COLOR_FMT_Y_STRIDE(f, w) * MMM_COLOR_FMT_Y_SCANLINES(f, h)
uv_plane(f, w, h) == MMM_COLOR_FMT_UV_STRIDE(f, w) * MMM_COLOR_FMT_UV_SCANLINES(f, h)
y_meta_plane(f, w, h) ==
    Page(MMM_COLOR_FMT_Y_META_STRIDE(f, w) * MMM_COLOR_FMT_Y_META_SCANLINES(f, h))
uv_meta_plane(f, w, h) ==
    Page(MMM_COLOR_FMT_UV_META_STRIDE(f, w) * MMM_COLOR_FMT_UV_META_SCANLINES(f, h))
rgb_plane(f, w, h) == Page(MMM_COLOR_FMT_RGB_STRIDE(f, w) * MMM_COLOR_FMT_RGB_SCANLINES(f, h))
rgb_meta_plane(f, w, h) ==
    Page(MMM_COLOR_FMT_RGB_META_STRIDE(f, w) * MMM_COLOR_FMT_RGB_META_SCANLINES(f, h))

\* The four planes of a compressed YUV picture of h lines.
UbwcSize(f, w, h) ==
    Page(y_plane(f, w, h)) + Page(uv_plane(f, w, h)) + y_meta_plane(f, w, h) + uv_meta_plane(f, w, h)

\* The frames for which an NV12_UBWC buffer must also hold two fields.
InterlaceCapable(w, h) ==
    /\ w <= INTERLACE_WIDTH_MAX
    /\ h <= INTERLACE_HEIGHT_MAX
    /\ (h * w) \div 256 <= INTERLACE_MB_PER_FRAME_MAX

\* mutant: one field where there are two
SizeOfOneField(color_fmt, width, height) ==
    IF width = 0 \/ height = 0 THEN 0
    ELSE Page(CASE color_fmt \in Linear ->
                    y_plane(color_fmt, width, height) + uv_plane(color_fmt, width, height)
                [] color_fmt \in YuvUbwc ->
                    IF color_fmt = "NV12_UBWC" /\ InterlaceCapable(width, height)
                      THEN UbwcSize(color_fmt, width, Half(height))
                      ELSE UbwcSize(color_fmt, width, height)
                [] OTHER -> rgb_plane(color_fmt, width, height)
                            + rgb_meta_plane(color_fmt, width, height))

MMM_COLOR_FMT_BUFFER_SIZE(color_fmt, width, height) ==
    IF width = 0 \/ height = 0 THEN 0
    ELSE Page(CASE color_fmt \in Linear ->
                    y_plane(color_fmt, width, height) + uv_plane(color_fmt, width, height)
                [] color_fmt \in YuvUbwc ->
                    IF color_fmt = "NV12_UBWC" /\ InterlaceCapable(width, height)
                      THEN 2 * UbwcSize(color_fmt, width, Half(height))
                      ELSE UbwcSize(color_fmt, width, height)
                [] OTHER -> rgb_plane(color_fmt, width, height)
                            + rgb_meta_plane(color_fmt, width, height))

\* mutant: two fields taken for one frame
UsedIgnoresFields(color_fmt, width, height, interlace) ==
    IF width = 0 \/ height = 0 THEN 0
    ELSE IF color_fmt = "NV12_UBWC"
      THEN Page(UbwcSize(color_fmt, width, height))
      ELSE MMM_COLOR_FMT_BUFFER_SIZE(color_fmt, width, height)

MMM_COLOR_FMT_BUFFER_SIZE_USED(color_fmt, width, height, interlace) ==
    IF width = 0 \/ height = 0 THEN 0
    ELSE IF ~interlace /\ color_fmt = "NV12_UBWC"
      THEN Page(UbwcSize(color_fmt, width, height))
      ELSE MMM_COLOR_FMT_BUFFER_SIZE(color_fmt, width, height)
=============================================================================
