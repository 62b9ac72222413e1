------------------------- MODULE FrameBuffer_proofs -------------------------
(*************************************************************************)
(* Proofs about FrameBuffer for all sizes: a frame that is no larger     *)
(* than the one its buffer was allocated for fits into the buffer.       *)
(*************************************************************************)
EXTENDS FrameBuffer, TLAPS

-----------------------------------------------------------------------------
(* Products and roundings are monotone.                                   *)

\* Products of natural numbers are monotone.
LEMMA MulMono ==
    ASSUME NEW a \in Nat, NEW b \in Nat, NEW c \in Nat, NEW d \in Nat, a <= b, c <= d
    PROVE  a * c <= b * d /\ a * c \in Nat
<1>1. a * c <= b * c
  OBVIOUS
<1>2. b * c <= b * d
  OBVIOUS
<1>3. a * c \in Nat /\ b * c \in Nat /\ b * d \in Nat
  OBVIOUS
<1>q. QED
  BY <1>1, <1>2, <1>3

\* Rounding up to a page is monotone and never rounds down.
LEMMA PageMono ==
    ASSUME NEW a \in Nat, NEW b \in Nat, a <= b
    PROVE  Page(a) \in Nat /\ Page(b) \in Nat /\ a <= Page(a) /\ Page(a) <= Page(b)
BY DEF Page, MMM_COLOR_FMT_ALIGN

\* What is at most twice another number is so after rounding both to pages.
LEMMA PageTwice ==
    ASSUME NEW a \in Nat, NEW b \in Nat, a <= 2 * b
    PROVE  Page(a) <= 2 * Page(b)
BY DEF Page, MMM_COLOR_FMT_ALIGN

\* Two halves, rounded up, are at least the whole.
LEMMA HalfMono ==
    ASSUME NEW a \in Nat \ {0}, NEW b \in Nat \ {0}, a <= b
    PROVE  Half(a) \in Nat \ {0} /\ Half(b) \in Nat \ {0} /\ Half(a) <= Half(b) /\ a <= 2 * Half(a)
BY DEF Half

-----------------------------------------------------------------------------
(* Strides grow with the width, scanlines with the height.                *)

\* The luma stride.
LEMMA YStrideMono ==
    ASSUME NEW f \in mmm_color_fmts, NEW a \in Nat \ {0}, NEW b \in Nat \ {0}, a <= b
    PROVE  /\ MMM_COLOR_FMT_Y_STRIDE(f, a) \in Nat
           /\ MMM_COLOR_FMT_Y_STRIDE(f, a) <= MMM_COLOR_FMT_Y_STRIDE(f, b)
BY DEF MMM_COLOR_FMT_Y_STRIDE, MMM_COLOR_FMT_ALIGN

\* The chroma stride.
LEMMA UvStrideMono ==
    ASSUME NEW f \in mmm_color_fmts, NEW a \in Nat \ {0}, NEW b \in Nat \ {0}, a <= b
    PROVE  /\ MMM_COLOR_FMT_UV_STRIDE(f, a) \in Nat
           /\ MMM_COLOR_FMT_UV_STRIDE(f, a) <= MMM_COLOR_FMT_UV_STRIDE(f, b)
BY DEF MMM_COLOR_FMT_UV_STRIDE, MMM_COLOR_FMT_ALIGN

\* The luma scanlines.
LEMMA YScanlinesMono ==
    ASSUME NEW f \in mmm_color_fmts, NEW a \in Nat \ {0}, NEW b \in Nat \ {0}, a <= b
    PROVE  /\ MMM_COLOR_FMT_Y_SCANLINES(f, a) \in Nat
           /\ MMM_COLOR_FMT_Y_SCANLINES(f, a) <= MMM_COLOR_FMT_Y_SCANLINES(f, b)
BY DEF MMM_COLOR_FMT_Y_SCANLINES, MMM_COLOR_FMT_ALIGN

\* The chroma scanlines.
LEMMA UvScanlinesMono ==
    ASSUME NEW f \in mmm_color_fmts, NEW a \in Nat \ {0}, NEW b \in Nat \ {0}, a <= b
    PROVE  /\ MMM_COLOR_FMT_UV_SCANLINES(f, a) \in Nat
           /\ MMM_COLOR_FMT_UV_SCANLINES(f, a) <= MMM_COLOR_FMT_UV_SCANLINES(f, b)
BY DEF MMM_COLOR_FMT_UV_SCANLINES, MMM_COLOR_FMT_ALIGN, Half

\* The luma metadata stride.
LEMMA YMetaStrideMono ==
    ASSUME NEW f \in mmm_color_fmts, NEW a \in Nat \ {0}, NEW b \in Nat \ {0}, a <= b
    PROVE  /\ MMM_COLOR_FMT_Y_META_STRIDE(f, a) \in Nat
           /\ MMM_COLOR_FMT_Y_META_STRIDE(f, a) <= MMM_COLOR_FMT_Y_META_STRIDE(f, b)
BY DEF MMM_COLOR_FMT_Y_META_STRIDE, MMM_COLOR_FMT_ALIGN, MMM_COLOR_FMT_ROUNDUP

\* The luma metadata scanlines.
LEMMA YMetaScanlinesMono ==
    ASSUME NEW f \in mmm_color_fmts, NEW a \in Nat \ {0}, NEW b \in Nat \ {0}, a <= b
    PROVE  /\ MMM_COLOR_FMT_Y_META_SCANLINES(f, a) \in Nat
           /\ MMM_COLOR_FMT_Y_META_SCANLINES(f, a) <= MMM_COLOR_FMT_Y_META_SCANLINES(f, b)
BY DEF MMM_COLOR_FMT_Y_META_SCANLINES, MMM_COLOR_FMT_ALIGN, MMM_COLOR_FMT_ROUNDUP

\* The chroma metadata stride.
LEMMA UvMetaStrideMono ==
    ASSUME NEW f \in mmm_color_fmts, NEW a \in Nat \ {0}, NEW b \in Nat \ {0}, a <= b
    PROVE  /\ MMM_COLOR_FMT_UV_META_STRIDE(f, a) \in Nat
           /\ MMM_COLOR_FMT_UV_META_STRIDE(f, a) <= MMM_COLOR_FMT_UV_META_STRIDE(f, b)
BY DEF MMM_COLOR_FMT_UV_META_STRIDE, MMM_COLOR_FMT_ALIGN, MMM_COLOR_FMT_ROUNDUP, Half

\* The chroma metadata scanlines.
LEMMA UvMetaScanlinesMono ==
    ASSUME NEW f \in mmm_color_fmts, NEW a \in Nat \ {0}, NEW b \in Nat \ {0}, a <= b
    PROVE  /\ MMM_COLOR_FMT_UV_META_SCANLINES(f, a) \in Nat
           /\ MMM_COLOR_FMT_UV_META_SCANLINES(f, a) <= MMM_COLOR_FMT_UV_META_SCANLINES(f, b)
BY DEF MMM_COLOR_FMT_UV_META_SCANLINES, MMM_COLOR_FMT_ALIGN, MMM_COLOR_FMT_ROUNDUP, Half

\* Strides and scanlines of the RGB formats and of their metadata.
LEMMA RgbMono ==
    ASSUME NEW f \in mmm_color_fmts, NEW a \in Nat \ {0}, NEW b \in Nat \ {0}, a <= b
    PROVE  /\ MMM_COLOR_FMT_RGB_STRIDE(f, a) \in Nat
           /\ MMM_COLOR_FMT_RGB_STRIDE(f, a) <= MMM_COLOR_FMT_RGB_STRIDE(f, b)
           /\ MMM_COLOR_FMT_RGB_SCANLINES(f, a) \in Nat
           /\ MMM_COLOR_FMT_RGB_SCANLINES(f, a) <= MMM_COLOR_FMT_RGB_SCANLINES(f, b)
           /\ MMM_COLOR_FMT_RGB_META_STRIDE(f, a) \in Nat
           /\ MMM_COLOR_FMT_RGB_META_STRIDE(f, a) <= MMM_COLOR_FMT_RGB_META_STRIDE(f, b)
           /\ MMM_COLOR_FMT_RGB_META_SCANLINES(f, a) \in Nat
           /\ MMM_COLOR_FMT_RGB_META_SCANLINES(f, a) <= MMM_COLOR_FMT_RGB_META_SCANLINES(f, b)
<1>1. /\ MMM_COLOR_FMT_RGB_STRIDE(f, a) \in Nat
      /\ MMM_COLOR_FMT_RGB_STRIDE(f, a) <= MMM_COLOR_FMT_RGB_STRIDE(f, b)
  BY DEF MMM_COLOR_FMT_RGB_STRIDE, MMM_COLOR_FMT_ALIGN
<1>2. /\ MMM_COLOR_FMT_RGB_SCANLINES(f, a) \in Nat
      /\ MMM_COLOR_FMT_RGB_SCANLINES(f, a) <= MMM_COLOR_FMT_RGB_SCANLINES(f, b)
  BY DEF MMM_COLOR_FMT_RGB_SCANLINES, MMM_COLOR_FMT_ALIGN, RgbUbwc
<1>3. /\ MMM_COLOR_FMT_RGB_META_STRIDE(f, a) \in Nat
      /\ MMM_COLOR_FMT_RGB_META_STRIDE(f, a) <= MMM_COLOR_FMT_RGB_META_STRIDE(f, b)
  BY DEF MMM_COLOR_FMT_RGB_META_STRIDE, MMM_COLOR_FMT_ALIGN, MMM_COLOR_FMT_ROUNDUP, RgbUbwc
<1>4. /\ MMM_COLOR_FMT_RGB_META_SCANLINES(f, a) \in Nat
      /\ MMM_COLOR_FMT_RGB_META_SCANLINES(f, a) <= MMM_COLOR_FMT_RGB_META_SCANLINES(f, b)
  BY DEF MMM_COLOR_FMT_RGB_META_SCANLINES, MMM_COLOR_FMT_ALIGN, MMM_COLOR_FMT_ROUNDUP
<1>q. QED
  BY <1>1, <1>2, <1>3, <1>4

(* A field of half the lines, twice, is never less than the frame.        *)
LEMMA TwoFields ==
    ASSUME NEW h \in Nat \ {0}
    PROVE  LET f == "NV12_UBWC" IN
           /\ MMM_COLOR_FMT_Y_SCANLINES(f, h) <= 2 * MMM_COLOR_FMT_Y_SCANLINES(f, Half(h))
           /\ MMM_COLOR_FMT_UV_SCANLINES(f, h) <= 2 * MMM_COLOR_FMT_UV_SCANLINES(f, Half(h))
           /\ MMM_COLOR_FMT_Y_META_SCANLINES(f, h) <= 2 * MMM_COLOR_FMT_Y_META_SCANLINES(f, Half(h))
           /\ MMM_COLOR_FMT_UV_META_SCANLINES(f, h) <= 2 * MMM_COLOR_FMT_UV_META_SCANLINES(f, Half(h))
<1>1. MMM_COLOR_FMT_Y_SCANLINES("NV12_UBWC", h) <= 2 * MMM_COLOR_FMT_Y_SCANLINES("NV12_UBWC", Half(h))
  BY DEF MMM_COLOR_FMT_Y_SCANLINES, MMM_COLOR_FMT_ALIGN, Half
<1>2. MMM_COLOR_FMT_UV_SCANLINES("NV12_UBWC", h) <= 2 * MMM_COLOR_FMT_UV_SCANLINES("NV12_UBWC", Half(h))
  BY DEF MMM_COLOR_FMT_UV_SCANLINES, MMM_COLOR_FMT_ALIGN, Half
<1>3. MMM_COLOR_FMT_Y_META_SCANLINES("NV12_UBWC", h) <= 2 * MMM_COLOR_FMT_Y_META_SCANLINES("NV12_UBWC", Half(h))
  BY DEF MMM_COLOR_FMT_Y_META_SCANLINES, MMM_COLOR_FMT_ALIGN, MMM_COLOR_FMT_ROUNDUP, Half
<1>4. MMM_COLOR_FMT_UV_META_SCANLINES("NV12_UBWC", h) <= 2 * MMM_COLOR_FMT_UV_META_SCANLINES("NV12_UBWC", Half(h))
  BY DEF MMM_COLOR_FMT_UV_META_SCANLINES, MMM_COLOR_FMT_ALIGN, MMM_COLOR_FMT_ROUNDUP, Half
<1>q. QED
  BY <1>1, <1>2, <1>3, <1>4

-----------------------------------------------------------------------------
(* Planes and pictures grow with both sides.                              *)

\* The luma plane of a smaller frame is not larger.
LEMMA YPlaneMono ==
    ASSUME NEW f \in mmm_color_fmts, NEW w \in Nat \ {0}, NEW v \in Nat \ {0}, w <= v,
           NEW h \in Nat \ {0}, NEW k \in Nat \ {0}, h <= k
    PROVE  y_plane(f, w, h) \in Nat /\ y_plane(f, w, h) <= y_plane(f, v, k)
<1>. DEFINE a == MMM_COLOR_FMT_Y_STRIDE(f, w)
            b == MMM_COLOR_FMT_Y_STRIDE(f, v)
            c == MMM_COLOR_FMT_Y_SCANLINES(f, h)
            d == MMM_COLOR_FMT_Y_SCANLINES(f, k)
<1>1. a \in Nat /\ b \in Nat /\ c \in Nat /\ d \in Nat /\ a <= b /\ c <= d
  BY YStrideMono, YScanlinesMono
<1>. HIDE DEF a, b, c, d
<1>2. a * c <= b * d /\ a * c \in Nat /\ b * d \in Nat
  BY <1>1, MulMono
<1>q. QED
  BY <1>2 DEF y_plane, a, b, c, d

\* Nor is its chroma plane.
LEMMA UvPlaneMono ==
    ASSUME NEW f \in mmm_color_fmts, NEW w \in Nat \ {0}, NEW v \in Nat \ {0}, w <= v,
           NEW h \in Nat \ {0}, NEW k \in Nat \ {0}, h <= k
    PROVE  uv_plane(f, w, h) \in Nat /\ uv_plane(f, w, h) <= uv_plane(f, v, k)
<1>. DEFINE a == MMM_COLOR_FMT_UV_STRIDE(f, w)
            b == MMM_COLOR_FMT_UV_STRIDE(f, v)
            c == MMM_COLOR_FMT_UV_SCANLINES(f, h)
            d == MMM_COLOR_FMT_UV_SCANLINES(f, k)
<1>1. a \in Nat /\ b \in Nat /\ c \in Nat /\ d \in Nat /\ a <= b /\ c <= d
  BY UvStrideMono, UvScanlinesMono
<1>. HIDE DEF a, b, c, d
<1>2. a * c <= b * d /\ a * c \in Nat /\ b * d \in Nat
  BY <1>1, MulMono
<1>q. QED
  BY <1>2 DEF uv_plane, a, b, c, d

\* Nor its luma metadata.
LEMMA YMetaPlaneMono ==
    ASSUME NEW f \in mmm_color_fmts, NEW w \in Nat \ {0}, NEW v \in Nat \ {0}, w <= v,
           NEW h \in Nat \ {0}, NEW k \in Nat \ {0}, h <= k
    PROVE  y_meta_plane(f, w, h) \in Nat /\ y_meta_plane(f, w, h) <= y_meta_plane(f, v, k)
<1>. DEFINE a == MMM_COLOR_FMT_Y_META_STRIDE(f, w)
            b == MMM_COLOR_FMT_Y_META_STRIDE(f, v)
            c == MMM_COLOR_FMT_Y_META_SCANLINES(f, h)
            d == MMM_COLOR_FMT_Y_META_SCANLINES(f, k)
<1>1. a \in Nat /\ b \in Nat /\ c \in Nat /\ d \in Nat /\ a <= b /\ c <= d
  BY YMetaStrideMono, YMetaScanlinesMono
<1>. HIDE DEF a, b, c, d
<1>2. a * c <= b * d /\ a * c \in Nat /\ b * d \in Nat
  BY <1>1, MulMono
<1>3. Page(a * c) \in Nat /\ Page(a * c) <= Page(b * d)
  BY <1>2, PageMono
<1>q. QED
  BY <1>3 DEF y_meta_plane, a, b, c, d

\* Nor its chroma metadata.
LEMMA UvMetaPlaneMono ==
    ASSUME NEW f \in mmm_color_fmts, NEW w \in Nat \ {0}, NEW v \in Nat \ {0}, w <= v,
           NEW h \in Nat \ {0}, NEW k \in Nat \ {0}, h <= k
    PROVE  uv_meta_plane(f, w, h) \in Nat /\ uv_meta_plane(f, w, h) <= uv_meta_plane(f, v, k)
<1>. DEFINE a == MMM_COLOR_FMT_UV_META_STRIDE(f, w)
            b == MMM_COLOR_FMT_UV_META_STRIDE(f, v)
            c == MMM_COLOR_FMT_UV_META_SCANLINES(f, h)
            d == MMM_COLOR_FMT_UV_META_SCANLINES(f, k)
<1>1. a \in Nat /\ b \in Nat /\ c \in Nat /\ d \in Nat /\ a <= b /\ c <= d
  BY UvMetaStrideMono, UvMetaScanlinesMono
<1>. HIDE DEF a, b, c, d
<1>2. a * c <= b * d /\ a * c \in Nat /\ b * d \in Nat
  BY <1>1, MulMono
<1>3. Page(a * c) \in Nat /\ Page(a * c) <= Page(b * d)
  BY <1>2, PageMono
<1>q. QED
  BY <1>3 DEF uv_meta_plane, a, b, c, d

\* Nor an RGB plane.
LEMMA RgbPlaneMono ==
    ASSUME NEW f \in mmm_color_fmts, NEW w \in Nat \ {0}, NEW v \in Nat \ {0}, w <= v,
           NEW h \in Nat \ {0}, NEW k \in Nat \ {0}, h <= k
    PROVE  rgb_plane(f, w, h) \in Nat /\ rgb_plane(f, w, h) <= rgb_plane(f, v, k)
<1>. DEFINE a == MMM_COLOR_FMT_RGB_STRIDE(f, w)
            b == MMM_COLOR_FMT_RGB_STRIDE(f, v)
            c == MMM_COLOR_FMT_RGB_SCANLINES(f, h)
            d == MMM_COLOR_FMT_RGB_SCANLINES(f, k)
<1>1. a \in Nat /\ b \in Nat /\ c \in Nat /\ d \in Nat /\ a <= b /\ c <= d
  BY RgbMono
<1>. HIDE DEF a, b, c, d
<1>2. a * c <= b * d /\ a * c \in Nat /\ b * d \in Nat
  BY <1>1, MulMono
<1>3. Page(a * c) \in Nat /\ Page(a * c) <= Page(b * d)
  BY <1>2, PageMono
<1>q. QED
  BY <1>3 DEF rgb_plane, a, b, c, d

\* Nor the metadata of one.
LEMMA RgbMetaPlaneMono ==
    ASSUME NEW f \in mmm_color_fmts, NEW w \in Nat \ {0}, NEW v \in Nat \ {0}, w <= v,
           NEW h \in Nat \ {0}, NEW k \in Nat \ {0}, h <= k
    PROVE  rgb_meta_plane(f, w, h) \in Nat /\ rgb_meta_plane(f, w, h) <= rgb_meta_plane(f, v, k)
<1>. DEFINE a == MMM_COLOR_FMT_RGB_META_STRIDE(f, w)
            b == MMM_COLOR_FMT_RGB_META_STRIDE(f, v)
            c == MMM_COLOR_FMT_RGB_META_SCANLINES(f, h)
            d == MMM_COLOR_FMT_RGB_META_SCANLINES(f, k)
<1>1. a \in Nat /\ b \in Nat /\ c \in Nat /\ d \in Nat /\ a <= b /\ c <= d
  BY RgbMono
<1>. HIDE DEF a, b, c, d
<1>2. a * c <= b * d /\ a * c \in Nat /\ b * d \in Nat
  BY <1>1, MulMono
<1>3. Page(a * c) \in Nat /\ Page(a * c) <= Page(b * d)
  BY <1>2, PageMono
<1>q. QED
  BY <1>3 DEF rgb_meta_plane, a, b, c, d

\* Nor the four planes of a compressed frame together.
LEMMA UbwcMono ==
    ASSUME NEW f \in mmm_color_fmts, NEW w \in Nat \ {0}, NEW v \in Nat \ {0}, w <= v,
           NEW h \in Nat \ {0}, NEW k \in Nat \ {0}, h <= k
    PROVE  /\ Page(y_plane(f, w, h)) \in Nat /\ Page(uv_plane(f, w, h)) \in Nat
           /\ y_meta_plane(f, w, h) \in Nat /\ uv_meta_plane(f, w, h) \in Nat
           /\ UbwcSize(f, w, h) \in Nat
           /\ UbwcSize(f, w, h) <= UbwcSize(f, v, k)
<1>1. Page(y_plane(f, w, h)) \in Nat /\ Page(y_plane(f, v, k)) \in Nat /\ Page(y_plane(f, w, h)) <= Page(y_plane(f, v, k))
  BY YPlaneMono, PageMono
<1>2. Page(uv_plane(f, w, h)) \in Nat /\ Page(uv_plane(f, v, k)) \in Nat /\ Page(uv_plane(f, w, h)) <= Page(uv_plane(f, v, k))
  BY UvPlaneMono, PageMono
<1>3. y_meta_plane(f, w, h) \in Nat /\ y_meta_plane(f, v, k) \in Nat /\ y_meta_plane(f, w, h) <= y_meta_plane(f, v, k)
  BY YMetaPlaneMono
<1>4. uv_meta_plane(f, w, h) \in Nat /\ uv_meta_plane(f, v, k) \in Nat /\ uv_meta_plane(f, w, h) <= uv_meta_plane(f, v, k)
  BY UvMetaPlaneMono
<1>q. QED
  BY <1>1, <1>2, <1>3, <1>4 DEF UbwcSize

(* Half the lines, twice, hold the whole frame.                           *)
LEMMA TwiceMul ==
    ASSUME NEW a \in Nat, NEW c \in Nat, NEW d \in Nat, c <= 2 * d
    PROVE  a * c <= 2 * (a * d) /\ a * c \in Nat /\ a * d \in Nat
<1>1. a * c <= a * (2 * d)
  BY MulMono
<1>2. a * (2 * d) = 2 * (a * d)
  OBVIOUS
<1>q. QED
  BY <1>1, <1>2

\* If a plane is at most two of its fields, it is so after rounding to pages.
LEMMA TwiceField ==
    ASSUME NEW a \in Nat, NEW c \in Nat, NEW d \in Nat, c <= 2 * d
    PROVE  Page(a * c) <= 2 * Page(a * d)
BY TwiceMul, PageTwice

\* Two fields need at least as much as the progressive frame.
LEMMA UbwcTwoFields ==
    ASSUME NEW w \in Nat \ {0}, NEW h \in Nat \ {0}
    PROVE  UbwcSize("NV12_UBWC", w, h) <= 2 * UbwcSize("NV12_UBWC", w, Half(h))
<1>. DEFINE f == "NV12_UBWC"
<1>0. f \in mmm_color_fmts /\ Half(h) \in Nat \ {0}
  BY HalfMono DEF mmm_color_fmts, YuvUbwc
<1>1. Page(y_plane(f, w, h)) <= 2 * Page(y_plane(f, w, Half(h)))
  <2>1. MMM_COLOR_FMT_Y_STRIDE(f, w) \in Nat /\ MMM_COLOR_FMT_Y_SCANLINES(f, h) \in Nat /\ MMM_COLOR_FMT_Y_SCANLINES(f, Half(h)) \in Nat
    BY <1>0, YStrideMono, YScanlinesMono
  <2>2. MMM_COLOR_FMT_Y_SCANLINES(f, h) <= 2 * MMM_COLOR_FMT_Y_SCANLINES(f, Half(h))
    BY TwoFields
  <2>q. QED
    BY <2>1, <2>2, TwiceField DEF y_plane
<1>2. Page(uv_plane(f, w, h)) <= 2 * Page(uv_plane(f, w, Half(h)))
  <2>1. MMM_COLOR_FMT_UV_STRIDE(f, w) \in Nat /\ MMM_COLOR_FMT_UV_SCANLINES(f, h) \in Nat /\ MMM_COLOR_FMT_UV_SCANLINES(f, Half(h)) \in Nat
    BY <1>0, UvStrideMono, UvScanlinesMono
  <2>2. MMM_COLOR_FMT_UV_SCANLINES(f, h) <= 2 * MMM_COLOR_FMT_UV_SCANLINES(f, Half(h))
    BY TwoFields
  <2>q. QED
    BY <2>1, <2>2, TwiceField DEF uv_plane
<1>3. y_meta_plane(f, w, h) <= 2 * y_meta_plane(f, w, Half(h))
  <2>1. MMM_COLOR_FMT_Y_META_STRIDE(f, w) \in Nat /\ MMM_COLOR_FMT_Y_META_SCANLINES(f, h) \in Nat /\ MMM_COLOR_FMT_Y_META_SCANLINES(f, Half(h)) \in Nat
    BY <1>0, YMetaStrideMono, YMetaScanlinesMono
  <2>2. MMM_COLOR_FMT_Y_META_SCANLINES(f, h) <= 2 * MMM_COLOR_FMT_Y_META_SCANLINES(f, Half(h))
    BY TwoFields
  <2>q. QED
    BY <2>1, <2>2, TwiceField DEF y_meta_plane
<1>4. uv_meta_plane(f, w, h) <= 2 * uv_meta_plane(f, w, Half(h))
  <2>1. MMM_COLOR_FMT_UV_META_STRIDE(f, w) \in Nat /\ MMM_COLOR_FMT_UV_META_SCANLINES(f, h) \in Nat /\ MMM_COLOR_FMT_UV_META_SCANLINES(f, Half(h)) \in Nat
    BY <1>0, UvMetaStrideMono, UvMetaScanlinesMono
  <2>2. MMM_COLOR_FMT_UV_META_SCANLINES(f, h) <= 2 * MMM_COLOR_FMT_UV_META_SCANLINES(f, Half(h))
    BY TwoFields
  <2>q. QED
    BY <2>1, <2>2, TwiceField DEF uv_meta_plane
<1>5. /\ Page(y_plane(f, w, h)) \in Nat /\ Page(uv_plane(f, w, h)) \in Nat
      /\ y_meta_plane(f, w, h) \in Nat /\ uv_meta_plane(f, w, h) \in Nat
      /\ Page(y_plane(f, w, Half(h))) \in Nat /\ Page(uv_plane(f, w, Half(h))) \in Nat
      /\ y_meta_plane(f, w, Half(h)) \in Nat /\ uv_meta_plane(f, w, Half(h)) \in Nat
  BY <1>0, UbwcMono
<1>q. QED
  BY <1>1, <1>2, <1>3, <1>4, <1>5 DEF UbwcSize

\* A frame that is smaller than one within the interlace limits is within them.
LEMMA CapableMono ==
    ASSUME NEW w \in Nat \ {0}, NEW v \in Nat \ {0}, w <= v,
           NEW h \in Nat \ {0}, NEW k \in Nat \ {0}, h <= k, InterlaceCapable(v, k)
    PROVE  InterlaceCapable(w, h)
<1>1. h * w <= k * v /\ h * w \in Nat /\ k * v \in Nat
  BY MulMono
<1>2. (h * w) \div 256 <= (k * v) \div 256
  BY <1>1
<1>q. QED
  BY <1>2 DEF InterlaceCapable, INTERLACE_WIDTH_MAX, INTERLACE_HEIGHT_MAX, INTERLACE_MB_PER_FRAME_MAX

-----------------------------------------------------------------------------
(* What a frame needs, all its planes together, is within the allocation. *)
FrameSize(f, w, h, interlaced) ==
    CASE f \in Linear -> y_plane(f, w, h) + uv_plane(f, w, h)
      [] f \in YuvUbwc -> IF interlaced THEN 2 * UbwcSize(f, w, Half(h)) ELSE UbwcSize(f, w, h)
      [] OTHER -> rgb_plane(f, w, h) + rgb_meta_plane(f, w, h)

\* The planes of a smaller frame together fit into the buffer.
LEMMA FrameFits ==
    ASSUME NEW f \in mmm_color_fmts, NEW w \in Nat \ {0}, NEW v \in Nat \ {0}, w <= v,
           NEW h \in Nat \ {0}, NEW k \in Nat \ {0}, h <= k,
           NEW i, i => f = "NV12_UBWC" /\ InterlaceCapable(v, k)
    PROVE  FrameSize(f, w, h, i) <= MMM_COLOR_FMT_BUFFER_SIZE(f, v, k)
<1>1. CASE f \in Linear
  <2>1. /\ y_plane(f, w, h) \in Nat /\ uv_plane(f, w, h) \in Nat /\ y_plane(f, v, k) \in Nat /\ uv_plane(f, v, k) \in Nat
        /\ y_plane(f, w, h) <= y_plane(f, v, k) /\ uv_plane(f, w, h) <= uv_plane(f, v, k)
    BY YPlaneMono, UvPlaneMono
  <2>2. y_plane(f, v, k) + uv_plane(f, v, k) <= Page(y_plane(f, v, k) + uv_plane(f, v, k))
    BY <2>1, PageMono
  <2>3. Page(y_plane(f, v, k) + uv_plane(f, v, k)) \in Nat
    BY <2>1, PageMono
  <2>. f \notin YuvUbwc
    BY <1>1 DEF YuvUbwc, Linear
  <2>4. FrameSize(f, w, h, i) = y_plane(f, w, h) + uv_plane(f, w, h)
    BY <1>1 DEF FrameSize
  <2>5. MMM_COLOR_FMT_BUFFER_SIZE(f, v, k) = Page(y_plane(f, v, k) + uv_plane(f, v, k))
    BY <1>1 DEF MMM_COLOR_FMT_BUFFER_SIZE
  <2>q. QED
    BY <2>1, <2>2, <2>3, <2>4, <2>5
<1>2. CASE f \in YuvUbwc
  <2>. f \notin Linear
    BY <1>2 DEF YuvUbwc, Linear
  <2>. DEFINE need == IF i THEN 2 * UbwcSize(f, w, Half(h)) ELSE UbwcSize(f, w, h)
              have == IF f = "NV12_UBWC" /\ InterlaceCapable(v, k)
                        THEN 2 * UbwcSize(f, v, Half(k)) ELSE UbwcSize(f, v, k)
  <2>0. Half(h) \in Nat \ {0} /\ Half(k) \in Nat \ {0} /\ Half(h) <= Half(k)
    BY HalfMono
  <2>1. /\ UbwcSize(f, w, h) \in Nat /\ UbwcSize(f, v, k) \in Nat /\ UbwcSize(f, w, h) <= UbwcSize(f, v, k)
        /\ UbwcSize(f, w, Half(h)) \in Nat /\ UbwcSize(f, v, Half(k)) \in Nat
        /\ UbwcSize(f, w, Half(h)) <= UbwcSize(f, v, Half(k))
    <3>1. UbwcSize(f, w, h) \in Nat /\ UbwcSize(f, w, h) <= UbwcSize(f, v, k)
      BY UbwcMono
    <3>2. UbwcSize(f, w, Half(h)) \in Nat /\ UbwcSize(f, w, Half(h)) <= UbwcSize(f, v, Half(k))
      BY <2>0, UbwcMono
    <3>3. UbwcSize(f, v, k) \in Nat
      BY UbwcMono
    <3>4. UbwcSize(f, v, Half(k)) \in Nat
      <4>. DEFINE x == Half(k)
      <4>1. x \in Nat \ {0} /\ x <= x
        BY <2>0
      <4>. HIDE DEF x
      <4>2. UbwcSize(f, v, x) \in Nat
        BY <4>1, UbwcMono
      <4>q. QED
        BY <4>2 DEF x
    <3>q. QED
      BY <3>1, <3>2, <3>3, <3>4
  <2>2. f = "NV12_UBWC" => UbwcSize(f, v, k) <= 2 * UbwcSize(f, v, Half(k))
    BY UbwcTwoFields
  <2>3. need \in Nat /\ have \in Nat /\ need <= have
    BY <2>1, <2>2
  <2>4. have <= Page(have) /\ Page(have) \in Nat
    BY <2>3, PageMono
  <2>5. FrameSize(f, w, h, i) = need
    BY <1>2 DEF FrameSize
  <2>6. MMM_COLOR_FMT_BUFFER_SIZE(f, v, k) = Page(have)
    BY <1>2 DEF MMM_COLOR_FMT_BUFFER_SIZE
  <2>. HIDE DEF need, have
  <2>q. QED
    BY <2>3, <2>4, <2>5, <2>6
<1>3. CASE f \notin Linear \cup YuvUbwc
  <2>1. /\ rgb_plane(f, w, h) \in Nat /\ rgb_meta_plane(f, w, h) \in Nat /\ rgb_plane(f, v, k) \in Nat /\ rgb_meta_plane(f, v, k) \in Nat
        /\ rgb_plane(f, w, h) <= rgb_plane(f, v, k) /\ rgb_meta_plane(f, w, h) <= rgb_meta_plane(f, v, k)
    BY RgbPlaneMono, RgbMetaPlaneMono
  <2>2. rgb_plane(f, v, k) + rgb_meta_plane(f, v, k) <= Page(rgb_plane(f, v, k) + rgb_meta_plane(f, v, k))
    BY <2>1, PageMono
  <2>3. Page(rgb_plane(f, v, k) + rgb_meta_plane(f, v, k)) \in Nat
    BY <2>1, PageMono
  <2>q. QED
    BY <1>3, <2>1, <2>2, <2>3 DEF FrameSize, MMM_COLOR_FMT_BUFFER_SIZE
<1>q. QED
  BY <1>1, <1>2, <1>3

\* The size of a buffer is a natural number.
LEMMA SizeIsNat ==
    ASSUME NEW f \in mmm_color_fmts, NEW v \in Nat \ {0}, NEW k \in Nat \ {0}
    PROVE  MMM_COLOR_FMT_BUFFER_SIZE(f, v, k) \in Nat
<1>0. Half(k) \in Nat \ {0}
  BY HalfMono
<1>1. /\ y_plane(f, v, k) \in Nat /\ uv_plane(f, v, k) \in Nat
      /\ rgb_plane(f, v, k) \in Nat /\ rgb_meta_plane(f, v, k) \in Nat
      /\ UbwcSize(f, v, k) \in Nat /\ UbwcSize(f, v, Half(k)) \in Nat
  <2>1. y_plane(f, v, k) \in Nat /\ uv_plane(f, v, k) \in Nat
    BY YPlaneMono, UvPlaneMono
  <2>2. rgb_plane(f, v, k) \in Nat /\ rgb_meta_plane(f, v, k) \in Nat
    BY RgbPlaneMono, RgbMetaPlaneMono
  <2>3. UbwcSize(f, v, k) \in Nat
    BY UbwcMono
  <2>4. UbwcSize(f, v, Half(k)) \in Nat
    BY <1>0, UbwcMono
  <2>q. QED
    BY <2>1, <2>2, <2>3, <2>4
<1>2. \A x \in Nat : Page(x) \in Nat
  BY PageMono
<1>q. QED
  BY <1>1, <1>2 DEF MMM_COLOR_FMT_BUFFER_SIZE

\* So is that of a frame.
LEMMA FrameSizeIsNat ==
    ASSUME NEW f \in mmm_color_fmts, NEW v \in Nat \ {0}, NEW k \in Nat \ {0}, NEW i
    PROVE  FrameSize(f, v, k, i) \in Nat
<1>0. Half(k) \in Nat \ {0}
  BY HalfMono
<1>1. /\ y_plane(f, v, k) \in Nat /\ uv_plane(f, v, k) \in Nat
      /\ rgb_plane(f, v, k) \in Nat /\ rgb_meta_plane(f, v, k) \in Nat
      /\ UbwcSize(f, v, k) \in Nat /\ UbwcSize(f, v, Half(k)) \in Nat
  <2>1. y_plane(f, v, k) \in Nat /\ uv_plane(f, v, k) \in Nat
    BY YPlaneMono, UvPlaneMono
  <2>2. rgb_plane(f, v, k) \in Nat /\ rgb_meta_plane(f, v, k) \in Nat
    BY RgbPlaneMono, RgbMetaPlaneMono
  <2>3. UbwcSize(f, v, k) \in Nat
    BY UbwcMono
  <2>4. UbwcSize(f, v, Half(k)) \in Nat
    BY <1>0, UbwcMono
  <2>q. QED
    BY <2>1, <2>2, <2>3, <2>4
<1>q. QED
  BY <1>1 DEF FrameSize

-----------------------------------------------------------------------------
(* The planes lie one behind the other, so each ends within the frame.    *)
Chain(s, planes) ==
    /\ Len(s) <= Len(planes)
    /\ \A k \in 1..Len(s) : s[k].size = planes[k][2]
    /\ Len(s) > 0 => s[1].start = 0
    /\ \A k \in 1..Len(s) : k > 1 => s[k].start = s[k - 1].start + s[k - 1].size

PlaneNames == {"Y", "UV", "Y_Meta", "Y_UBWC", "UV_Meta", "UV_UBWC", "RGB", "RGB_Meta"}

Records == [name : PlaneNames, start : Nat, size : Nat]

\* The partial sums of eight sizes never exceed their total, and the last one is it.
LEMMA EightSums ==
    ASSUME NEW p, \A j \in 1..8 : p[j] \in Nat, NEW n \in 1..8, NEW e, e[1] = p[1],
           \A j \in 2..n : e[j] = e[j - 1] + p[j]
    PROVE  /\ \A k \in 1..n : e[k] <= p[1] + p[2] + p[3] + p[4] + p[5] + p[6] + p[7] + p[8]
           /\ (\A j \in (n + 1)..8 : p[j] = 0) =>
                e[n] = p[1] + p[2] + p[3] + p[4] + p[5] + p[6] + p[7] + p[8]
<1>1. p[1] \in Nat /\ p[2] \in Nat /\ p[3] \in Nat /\ p[4] \in Nat /\ p[5] \in Nat /\ p[6] \in Nat /\ p[7] \in Nat /\ p[8] \in Nat
  OBVIOUS
<1>2. n >= 2 => e[2] = e[1] + p[2]
  OBVIOUS
<1>3. n >= 3 => e[3] = e[2] + p[3]
  OBVIOUS
<1>4. n >= 4 => e[4] = e[3] + p[4]
  OBVIOUS
<1>5. n >= 5 => e[5] = e[4] + p[5]
  OBVIOUS
<1>6. n >= 6 => e[6] = e[5] + p[6]
  OBVIOUS
<1>7. n >= 7 => e[7] = e[6] + p[7]
  OBVIOUS
<1>8. n >= 8 => e[8] = e[7] + p[8]
  OBVIOUS
<1>9. \A k \in 1..n : k = 1 \/ k = 2 \/ k = 3 \/ k = 4 \/ k = 5 \/ k = 6 \/ k = 7 \/ k = 8
  OBVIOUS
<1>10. \A k \in 1..n : e[k] <= p[1] + p[2] + p[3] + p[4] + p[5] + p[6] + p[7] + p[8]
  BY <1>1, <1>2, <1>3, <1>4, <1>5, <1>6, <1>7, <1>8, <1>9
<1>11. ASSUME \A j \in (n + 1)..8 : p[j] = 0
       PROVE  e[n] = p[1] + p[2] + p[3] + p[4] + p[5] + p[6] + p[7] + p[8]
  <2>1. /\ n < 2 => p[2] = 0
        /\ n < 3 => p[3] = 0
        /\ n < 4 => p[4] = 0
        /\ n < 5 => p[5] = 0
        /\ n < 6 => p[6] = 0
        /\ n < 7 => p[7] = 0
        /\ n < 8 => p[8] = 0
    BY <1>11
  <2>q. QED
    BY <1>1, <1>2, <1>3, <1>4, <1>5, <1>6, <1>7, <1>8, <1>9, <2>1
<1>q. QED
  BY <1>10, <1>11

Sz(planes, j) == IF j <= Len(planes) THEN planes[j][2] ELSE 0

Total(planes) ==
    Sz(planes, 1) + Sz(planes, 2) + Sz(planes, 3) + Sz(planes, 4)
      + Sz(planes, 5) + Sz(planes, 6) + Sz(planes, 7) + Sz(planes, 8)

\* Planes laid end to end end within their total, and the last of them at it.
LEMMA ChainEnds ==
    ASSUME NEW s \in Seq(Records), NEW planes, Len(planes) \in 1..8, Chain(s, planes),
           \A j \in 1..Len(planes) : planes[j][2] \in Nat
    PROVE  /\ \A k \in 1..Len(s) : End(s[k]) <= Total(planes)
           /\ Len(s) = Len(planes) => End(s[Len(s)]) = Total(planes)
<1>. DEFINE p == [j \in 1..8 |-> Sz(planes, j)]
            e == [j \in 1..8 |-> s[j].start + s[j].size]
            n == Len(s)
<1>. SUFFICES ASSUME NEW k \in 1..n
              PROVE  End(s[k]) <= Total(planes) /\ (n = Len(planes) => End(s[n]) = Total(planes))
  BY DEF Chain
<1>a. n \in Nat /\ n <= Len(planes) /\ \A j \in 1..n : s[j] \in Records
  BY DEF Chain
<1>. HIDE DEF n
<1>0. n \in 1..8
  BY <1>a
<1>1. \A j \in 1..8 : p[j] \in Nat
  BY DEF Sz
<1>b. \A j \in 1..n : j \in 1..8 /\ j <= Len(planes)
  BY <1>0, <1>a
<1>2. \A j \in 1..n : s[j] \in Records /\ j \in 1..8 /\ j <= Len(planes)
  BY <1>a, <1>b
<1>3. \A j \in 1..n : s[j].start \in Nat /\ s[j].size \in Nat
  BY <1>2 DEF Records
<1>4. e[1] = p[1]
  <2>1. 1 \in 1..n
    BY <1>0
  <2>2. s[1].start = 0 /\ s[1].size = planes[1][2] /\ s[1].size \in Nat
    BY <2>1, <1>3 DEF Chain, n
  <2>q. QED
    BY <2>2 DEF Sz
<1>5. \A j \in 2..n : e[j] = e[j - 1] + p[j]
  <2>. SUFFICES ASSUME NEW j \in 2..n PROVE e[j] = e[j - 1] + p[j]
    OBVIOUS
  <2>1. j \in 1..n /\ j - 1 \in 1..n /\ j > 1 /\ j \in 1..8 /\ j - 1 \in 1..8 /\ j <= Len(planes)
    BY <1>0, <1>2
  <2>2. s[j].size = planes[j][2] /\ s[j].start = s[j - 1].start + s[j - 1].size
    BY <2>1 DEF Chain, n
  <2>q. QED
    BY <2>1, <2>2 DEF Sz
<1>6. End(s[k]) = e[k] /\ End(s[n]) = e[n]
  BY <1>0, <1>2 DEF End
<1>7. Total(planes) = p[1] + p[2] + p[3] + p[4] + p[5] + p[6] + p[7] + p[8]
  BY DEF Total
<1>8. n = Len(planes) => \A j \in (n + 1)..8 : p[j] = 0
  BY <1>0 DEF Sz
<1>. HIDE DEF p, e
<1>9. /\ e[k] <= p[1] + p[2] + p[3] + p[4] + p[5] + p[6] + p[7] + p[8]
      /\ n = Len(planes) => e[n] = p[1] + p[2] + p[3] + p[4] + p[5] + p[6] + p[7] + p[8]
  BY <1>0, <1>1, <1>4, <1>5, <1>8, EightSums
<1>q. QED
  BY <1>6, <1>7, <1>9

(* The planes of a frame add up to its size.                              *)
LEMMA PlanesOfFrame ==
    ASSUME NEW f \in mmm_color_fmts, NEW w \in Nat \ {0}, NEW h \in Nat \ {0},
           NEW i \in BOOLEAN, i => f = "NV12_UBWC"
    PROVE  /\ Len(Planes(f, w, h, i)) \in 1..8
           /\ \A j \in 1..Len(Planes(f, w, h, i)) : Planes(f, w, h, i)[j][1] \in PlaneNames /\ Planes(f, w, h, i)[j][2] \in Nat
           /\ Total(Planes(f, w, h, i)) = FrameSize(f, w, h, i)
<1>. DEFINE P == Planes(f, w, h, i)
<1>1. CASE f \in Linear
  <2>. f \notin YuvUbwc /\ f \notin RgbUbwc /\ f # "RGBA8888"
    BY <1>1 DEF YuvUbwc, Linear, RgbUbwc
  <2>1. P = <<<<"Y", y_plane(f, w, h)>>, <<"UV", uv_plane(f, w, h)>>>>
    BY <1>1 DEF Planes, YuvPlanes
  <2>2. y_plane(f, w, h) \in Nat /\ uv_plane(f, w, h) \in Nat
    BY YPlaneMono, UvPlaneMono
  <2>3. Total(P) = y_plane(f, w, h) + uv_plane(f, w, h)
    BY <2>1, <2>2 DEF Total, Sz
  <2>4. FrameSize(f, w, h, i) = y_plane(f, w, h) + uv_plane(f, w, h)
    BY <1>1 DEF FrameSize
  <2>n. Len(P) = 2 /\ \A j \in 1..Len(P) : P[j][1] \in PlaneNames /\ P[j][2] \in Nat
    <3>1. Len(P) = 2
      BY <2>1
    <3>2. P[1][2] \in Nat /\ P[2][2] \in Nat
      BY <2>1, <2>2
    <3>3. P[1][1] \in PlaneNames /\ P[2][1] \in PlaneNames
      BY <2>1 DEF PlaneNames
    <3>q. QED
      BY <3>1, <3>2, <3>3
  <2>. HIDE DEF P
  <2>q. QED
    BY <2>1, <2>2, <2>3, <2>4, <2>n DEF P
<1>2. CASE f \in YuvUbwc /\ ~i
  <2>. f \notin Linear /\ f \notin RgbUbwc /\ f # "RGBA8888"
    BY <1>2 DEF YuvUbwc, Linear, RgbUbwc
  <2>1. P = <<<<"Y_Meta", y_meta_plane(f, w, h)>>, <<"Y_UBWC", Page(y_plane(f, w, h))>>,
              <<"UV_Meta", uv_meta_plane(f, w, h)>>, <<"UV_UBWC", Page(uv_plane(f, w, h))>>>>
    BY <1>2 DEF Planes, UbwcFields, UbwcPlanes
  <2>2. /\ y_meta_plane(f, w, h) \in Nat /\ Page(y_plane(f, w, h)) \in Nat
        /\ uv_meta_plane(f, w, h) \in Nat /\ Page(uv_plane(f, w, h)) \in Nat
    BY UbwcMono
  <2>3. Total(P) = UbwcSize(f, w, h)
    BY <2>1, <2>2 DEF Total, Sz, UbwcSize
  <2>4. FrameSize(f, w, h, i) = UbwcSize(f, w, h)
    BY <1>2 DEF FrameSize
  <2>5. UbwcSize(f, w, h) \in Nat
    BY <2>2 DEF UbwcSize
  <2>n. Len(P) = 4 /\ \A j \in 1..Len(P) : P[j][1] \in PlaneNames /\ P[j][2] \in Nat
    <3>1. Len(P) = 4
      BY <2>1
    <3>2. P[1][2] \in Nat /\ P[2][2] \in Nat /\ P[3][2] \in Nat /\ P[4][2] \in Nat
      BY <2>1, <2>2
    <3>3. P[1][1] \in PlaneNames /\ P[2][1] \in PlaneNames /\ P[3][1] \in PlaneNames /\ P[4][1] \in PlaneNames
      BY <2>1 DEF PlaneNames
    <3>q. QED
      BY <3>1, <3>2, <3>3
  <2>. HIDE DEF P
  <2>q. QED
    BY <2>1, <2>2, <2>3, <2>4, <2>5, <2>n DEF P
<1>3. CASE i
  <2>. f \in YuvUbwc /\ f \notin Linear /\ f \notin RgbUbwc /\ f # "RGBA8888"
    BY <1>3 DEF YuvUbwc, Linear, RgbUbwc
  <2>. DEFINE a == <<"Y_Meta", y_meta_plane(f, w, Half(h))>>
              b == <<"Y_UBWC", Page(y_plane(f, w, Half(h)))>>
              c == <<"UV_Meta", uv_meta_plane(f, w, Half(h))>>
              d == <<"UV_UBWC", Page(uv_plane(f, w, Half(h)))>>
  <2>1. P = <<a, b, c, d>> \o <<a, b, c, d>>
    BY <1>3 DEF Planes, UbwcFields, UbwcPlanes
  <2>2. a[2] \in Nat /\ b[2] \in Nat /\ c[2] \in Nat /\ d[2] \in Nat
    <3>. DEFINE x == Half(h)
    <3>1. x \in Nat \ {0}
      BY HalfMono
    <3>. HIDE DEF x
    <3>2. /\ y_meta_plane(f, w, x) \in Nat /\ Page(y_plane(f, w, x)) \in Nat
          /\ uv_meta_plane(f, w, x) \in Nat /\ Page(uv_plane(f, w, x)) \in Nat
      BY <3>1, UbwcMono
    <3>q. QED
      BY <3>2 DEF x
  <2>3. UbwcSize(f, w, Half(h)) = a[2] + b[2] + c[2] + d[2]
    BY <2>2 DEF UbwcSize
  <2>4. FrameSize(f, w, h, i) = 2 * UbwcSize(f, w, Half(h))
    BY <1>3 DEF FrameSize
  <2>5. a[1] \in PlaneNames /\ b[1] \in PlaneNames /\ c[1] \in PlaneNames /\ d[1] \in PlaneNames
    BY DEF PlaneNames
  <2>. HIDE DEF a, b, c, d
  <2>6. Len(P) = 8 /\ P[1] = a /\ P[2] = b /\ P[3] = c /\ P[4] = d /\ P[5] = a /\ P[6] = b /\ P[7] = c /\ P[8] = d
    BY <2>1
  <2>. HIDE DEF P
  <2>7. Total(P) = 2 * (a[2] + b[2] + c[2] + d[2])
    BY <2>2, <2>6 DEF Total, Sz
  <2>8. \A j \in 1..Len(P) : P[j][1] \in PlaneNames /\ P[j][2] \in Nat
    BY <2>2, <2>5, <2>6
  <2>9. Total(P) \in Nat /\ Len(P) \in 1..8
    BY <2>2, <2>6, <2>7
  <2>q. QED
    BY <2>3, <2>4, <2>7, <2>8, <2>9 DEF P
<1>4. CASE f = "RGBA8888"
  <2>. f \notin Linear /\ f \notin RgbUbwc /\ f \notin YuvUbwc
    BY <1>4 DEF YuvUbwc, Linear, RgbUbwc
  <2>1. P = <<<<"RGB", rgb_plane(f, w, h)>>>>
    BY <1>4 DEF Planes
  <2>2. rgb_plane(f, w, h) \in Nat /\ rgb_meta_plane(f, w, h) \in Nat
    BY RgbPlaneMono, RgbMetaPlaneMono
  <2>3. Total(P) = rgb_plane(f, w, h)
    BY <2>1, <2>2 DEF Total, Sz
  <2>4. FrameSize(f, w, h, i) = rgb_plane(f, w, h) + rgb_meta_plane(f, w, h)
    BY <1>4 DEF FrameSize
  <2>5. rgb_meta_plane(f, w, h) = 0
    <3>1. MMM_COLOR_FMT_RGB_META_STRIDE(f, w) = 0 /\ MMM_COLOR_FMT_RGB_META_SCANLINES(f, h) = 0
      BY <1>4 DEF MMM_COLOR_FMT_RGB_META_STRIDE, MMM_COLOR_FMT_RGB_META_SCANLINES, RgbUbwc
    <3>2. Page(0 * 0) = 0
      BY DEF Page, MMM_COLOR_FMT_ALIGN
    <3>q. QED
      BY <3>1, <3>2 DEF rgb_meta_plane
  <2>n. Len(P) = 1 /\ \A j \in 1..Len(P) : P[j][1] \in PlaneNames /\ P[j][2] \in Nat
    <3>1. Len(P) = 1
      BY <2>1
    <3>2. P[1][2] \in Nat
      BY <2>1, <2>2
    <3>3. P[1][1] \in PlaneNames
      BY <2>1 DEF PlaneNames
    <3>q. QED
      BY <3>1, <3>2, <3>3
  <2>. HIDE DEF P
  <2>q. QED
    BY <2>1, <2>2, <2>3, <2>4, <2>5, <2>n DEF P
<1>5. CASE f \in RgbUbwc
  <2>. f \notin Linear /\ f # "RGBA8888" /\ f \notin YuvUbwc
    BY <1>5 DEF YuvUbwc, Linear, RgbUbwc
  <2>1. P = <<<<"RGB_Meta", rgb_meta_plane(f, w, h)>>, <<"RGB", rgb_plane(f, w, h)>>>>
    BY <1>5 DEF Planes
  <2>2. rgb_plane(f, w, h) \in Nat /\ rgb_meta_plane(f, w, h) \in Nat
    BY RgbPlaneMono, RgbMetaPlaneMono
  <2>3. Total(P) = rgb_meta_plane(f, w, h) + rgb_plane(f, w, h)
    BY <2>1, <2>2 DEF Total, Sz
  <2>4. FrameSize(f, w, h, i) = rgb_plane(f, w, h) + rgb_meta_plane(f, w, h)
    BY <1>5 DEF FrameSize
  <2>n. Len(P) = 2 /\ \A j \in 1..Len(P) : P[j][1] \in PlaneNames /\ P[j][2] \in Nat
    <3>1. Len(P) = 2
      BY <2>1
    <3>2. P[1][2] \in Nat /\ P[2][2] \in Nat
      BY <2>1, <2>2
    <3>3. P[1][1] \in PlaneNames /\ P[2][1] \in PlaneNames
      BY <2>1 DEF PlaneNames
    <3>q. QED
      BY <3>1, <3>2, <3>3
  <2>. HIDE DEF P
  <2>q. QED
    BY <2>1, <2>2, <2>3, <2>4, <2>n DEF P
<1>q. QED
  BY <1>1, <1>2, <1>3, <1>4, <1>5 DEF mmm_color_fmts

-----------------------------------------------------------------------------
(* The inductive invariant: the allocation has the size the header gives, *)
(* a frame is no larger than it, and its planes form a chain.             *)
IInv ==
    /\ TypeOK
    /\ layout \in Seq(Records)
    /\ buffer # NoBuffer => buffer.size = MMM_COLOR_FMT_BUFFER_SIZE(buffer.fmt, buffer.w, buffer.h)
    /\ frame # NoFrame => /\ frame.w <= buffer.w /\ frame.h <= buffer.h
                          /\ frame.interlaced => buffer.fmt = "NV12_UBWC" /\ InterlaceCapable(frame.w, frame.h)
                          /\ Chain(layout, FramePlanes)

\* Placing the next plane keeps the chain.
LEMMA PlaceOne ==
    ASSUME NEW s \in Seq(Records), NEW planes, Chain(s, planes), Len(s) < Len(planes), Len(planes) \in 1..8,
           \A j \in 1..Len(planes) : planes[j][1] \in PlaneNames /\ planes[j][2] \in Nat,
           NEW r, r = [name |-> planes[Len(s) + 1][1],
                       start |-> IF s = <<>> THEN 0 ELSE End(s[Len(s)]),
                       size |-> planes[Len(s) + 1][2]]
    PROVE  r \in Records /\ Append(s, r) \in Seq(Records) /\ Chain(Append(s, r), planes)
<1>. DEFINE n == Len(s)
<1>1. n \in Nat /\ n + 1 \in 1..Len(planes)
  OBVIOUS
<1>2. s # <<>> => End(s[n]) \in Nat /\ n \in 1..n
  <2>1. s # <<>> => n \in 1..n /\ s[n] \in Records
    OBVIOUS
  <2>q. QED
    BY <2>1 DEF End, Records
<1>3. r.start \in Nat /\ r.size \in Nat /\ r.name \in PlaneNames
  BY <1>1, <1>2
<1>4. r \in Records
  BY <1>3 DEF Records
<1>5. Append(s, r) \in Seq(Records) /\ Len(Append(s, r)) = n + 1 /\ Append(s, r)[n + 1] = r
  BY <1>4
<1>6. \A j \in 1..n : Append(s, r)[j] = s[j]
  BY <1>4
<1>7. s = <<>> => n = 0
  OBVIOUS
<1>8. s # <<>> => n > 0
  OBVIOUS
<1>9. r.size = planes[n + 1][2] /\ (n = 0 => r.start = 0) /\ (n > 0 => r.start = s[n].start + s[n].size)
  BY <1>7, <1>8 DEF End
<1>. DEFINE t == Append(s, r)
<1>. HIDE DEF n, t
<1>10. Len(t) <= Len(planes)
  BY <1>1, <1>5 DEF t
<1>11. ASSUME NEW j \in 1..Len(t)
       PROVE  /\ t[j].size = planes[j][2]
              /\ j = 1 => t[1].start = 0
              /\ j > 1 => t[j].start = t[j - 1].start + t[j - 1].size
  <2>1. CASE j = n + 1
    <3>1. t[j] = r
      BY <2>1, <1>5 DEF t
    <3>2. n > 0 => t[n] = s[n]
      <4>1. n > 0 => n \in 1..n
        BY <1>1
      <4>q. QED
        BY <4>1, <1>6 DEF t
    <3>3. j - 1 = n /\ (j = 1 <=> n = 0) /\ (j > 1 <=> n > 0)
      BY <2>1, <1>1
    <3>q. QED
      BY <2>1, <3>1, <3>2, <3>3, <1>1, <1>9
  <2>2. CASE j \in 1..n
    <3>1. t[j] = s[j] /\ (j > 1 => t[j - 1] = s[j - 1])
      BY <2>2, <1>1, <1>6 DEF t
    <3>2. s[j].size = planes[j][2] /\ (j = 1 => s[1].start = 0) /\ (j > 1 => s[j].start = s[j - 1].start + s[j - 1].size)
      BY <2>2, <1>1 DEF Chain, n
    <3>q. QED
      BY <3>1, <3>2
  <2>3. j = n + 1 \/ j \in 1..n
    BY <1>1, <1>5 DEF t
  <2>q. QED
    BY <2>1, <2>2, <2>3
<1>12. Chain(t, planes)
  BY <1>1, <1>5, <1>10, <1>11 DEF Chain, t
<1>q. QED
  BY <1>4, <1>5, <1>12 DEF t

\* The invariant holds initially.
LEMMA InitIInv == Init => IInv
BY DEF Init, IInv, TypeOK

\* What the record sets of TypeOK say field by field.
LEMMA Fields ==
    ASSUME TypeOK
    PROVE  /\ buffer # NoBuffer => /\ buffer.fmt \in mmm_color_fmts
                                   /\ buffer.w \in Nat \ {0} /\ buffer.h \in Nat \ {0} /\ buffer.size \in Nat
           /\ frame # NoFrame => /\ frame.w \in Nat \ {0} /\ frame.h \in Nat \ {0}
                                 /\ frame.interlaced \in BOOLEAN
<1>1. buffer # NoBuffer => buffer \in [fmt : mmm_color_fmts, w : Widths, h : Heights, size : Nat]
  BY DEF TypeOK
<1>2. frame # NoFrame => frame \in [w : Widths, h : Heights, interlaced : BOOLEAN]
  BY DEF TypeOK
<1>3. buffer # NoBuffer => /\ buffer.fmt \in mmm_color_fmts
                           /\ buffer.w \in Nat \ {0} /\ buffer.h \in Nat \ {0} /\ buffer.size \in Nat
  BY <1>1, SidesAssumption
<1>4. frame # NoFrame => frame.w \in Nat \ {0} /\ frame.h \in Nat \ {0}
  BY <1>2, SidesAssumption
<1>5. frame # NoFrame => frame.interlaced \in BOOLEAN
  BY <1>2
<1>q. QED
  BY <1>3, <1>4, <1>5

\* Every step keeps the invariant.
LEMMA NextIInv == IInv /\ [Next]_vars => IInv'
<1>. SUFFICES ASSUME IInv, [Next]_vars PROVE IInv'
  OBVIOUS
<1>1. ASSUME NEW f \in mmm_color_fmts, NEW w \in Widths, NEW h \in Heights, Allocate(f, w, h) PROVE IInv'
  <2>0. w \in Nat \ {0} /\ h \in Nat \ {0}
    BY SidesAssumption
  <2>1. MMM_COLOR_FMT_BUFFER_SIZE(f, w, h) \in Nat
    BY <2>0, SizeIsNat
  <2>2. buffer' \in [fmt : mmm_color_fmts, w : Widths, h : Heights, size : Nat]
    BY <1>1, <2>1 DEF Allocate
  <2>3. frame = NoFrame /\ layout = <<>> /\ frame' = frame /\ layout' = layout
    BY <1>1 DEF Allocate, IInv, TypeOK
  <2>4. TypeOK'
    BY <2>2, <2>3 DEF IInv, TypeOK
  <2>5. buffer'.size = MMM_COLOR_FMT_BUFFER_SIZE(buffer'.fmt, buffer'.w, buffer'.h)
    BY <1>1 DEF Allocate
  <2>q. QED
    BY <2>3, <2>4, <2>5 DEF IInv
<1>2. ASSUME NEW w \in Widths, NEW h \in Heights, NEW i \in BOOLEAN, StartFrame(w, h, i) PROVE IInv'
  <2>0. w \in Nat \ {0} /\ h \in Nat \ {0}
    BY SidesAssumption
  <2>1. /\ frame' = [w |-> w, h |-> h, interlaced |-> i] /\ buffer' = buffer /\ layout' = <<>>
        /\ buffer # NoBuffer /\ w <= buffer.w /\ h <= buffer.h
        /\ i => buffer.fmt = "NV12_UBWC" /\ InterlaceCapable(w, h)
    BY <1>2 DEF StartFrame, IInv, TypeOK
  <2>2. frame' \in [w : Widths, h : Heights, interlaced : BOOLEAN]
    BY <2>1
  <2>3. TypeOK'
    BY <2>1, <2>2 DEF IInv, TypeOK
  <2>4. Len(Planes(buffer.fmt, w, h, i)) \in 1..8
    BY <2>0, <2>1, Fields, PlanesOfFrame DEF IInv
  <2>5. FramePlanes' = Planes(buffer.fmt, w, h, i)
    BY <2>1 DEF FramePlanes
  <2>6. Chain(layout', FramePlanes')
    BY <2>1, <2>4, <2>5 DEF Chain
  <2>7. layout' \in Seq(Records)
    BY <2>1
  <2>8. frame'.w = w /\ frame'.h = h /\ frame'.interlaced = i
    BY <2>1
  <2>q. QED
    BY <2>1, <2>3, <2>6, <2>7, <2>8 DEF IInv
<1>3. CASE PlacePlane
  <2>. DEFINE P == FramePlanes
              r == [name |-> P[Len(layout) + 1][1], start |-> LayoutEnd, size |-> P[Len(layout) + 1][2]]
  <2>1. /\ frame # NoFrame /\ buffer # NoBuffer /\ Len(layout) < Len(P)
        /\ layout' = Append(layout, r) /\ buffer' = buffer /\ frame' = frame
    BY <1>3 DEF PlacePlane, IInv, TypeOK
  <2>2. Len(P) \in 1..8 /\ \A j \in 1..Len(P) : P[j][1] \in PlaneNames /\ P[j][2] \in Nat
    BY <2>1, Fields, PlanesOfFrame DEF IInv, FramePlanes
  <2>3. layout \in Seq(Records) /\ Chain(layout, P)
    BY <2>1 DEF IInv
  <2>4. r.start = IF layout = <<>> THEN 0 ELSE End(layout[Len(layout)])
    BY DEF LayoutEnd
  <2>5. r = [name |-> P[Len(layout) + 1][1],
             start |-> IF layout = <<>> THEN 0 ELSE End(layout[Len(layout)]),
             size |-> P[Len(layout) + 1][2]]
    BY DEF LayoutEnd
  <2>. HIDE DEF P, r
  <2>6. Append(layout, r) \in Seq(Records) /\ Chain(Append(layout, r), P)
    BY <2>1, <2>2, <2>3, <2>5, PlaceOne
  <2>7. P' = P
    BY <2>1 DEF P, FramePlanes
  <2>8. \A k \in DOMAIN layout' : layout'[k].start \in Nat /\ layout'[k].size \in Nat
    <3>1. \A k \in DOMAIN layout' : layout'[k] \in Records
      BY <2>1, <2>6
    <3>q. QED
      BY <3>1 DEF Records
  <2>9. TypeOK'
    BY <2>1, <2>8 DEF IInv, TypeOK
  <2>10. Chain(layout', FramePlanes')
    BY <2>1, <2>6, <2>7 DEF P
  <2>q. QED
    BY <2>1, <2>6, <2>9, <2>10 DEF IInv
<1>4. CASE EndFrame
  <2>1. frame' = NoFrame /\ layout' = <<>> /\ buffer' = buffer
    BY <1>4 DEF EndFrame
  <2>q. QED
    BY <2>1 DEF IInv, TypeOK
<1>5. CASE Free
  <2>1. frame = NoFrame /\ layout = <<>> /\ buffer' = NoBuffer /\ frame' = frame /\ layout' = layout
    BY <1>5 DEF Free, IInv, TypeOK
  <2>q. QED
    BY <2>1 DEF IInv, TypeOK
<1>6. CASE UNCHANGED vars
  <2>1. buffer' = buffer /\ frame' = frame /\ layout' = layout
    BY <1>6 DEF vars
  <2>2. FramePlanes' = FramePlanes
    BY <2>1 DEF FramePlanes
  <2>q. QED
    BY <2>1, <2>2 DEF IInv, TypeOK
<1>q. QED
  BY <1>1, <1>2, <1>3, <1>4, <1>5, <1>6 DEF Next

-----------------------------------------------------------------------------
\* The invariant puts every plane inside its buffer.
LEMMA IInvInside == IInv => PlanesInside
<1>. SUFFICES ASSUME IInv, NEW k \in DOMAIN layout, ~(frame.interlaced /\ ~InterlaceCapable(buffer.w, buffer.h))
              PROVE  End(layout[k]) <= buffer.size
  BY DEF PlanesInside
<1>0. layout \in Seq(Records) /\ layout # <<>> /\ k \in 1..Len(layout)
  BY DEF IInv
<1>1. frame # NoFrame /\ buffer # NoBuffer
  BY <1>0 DEF IInv, TypeOK
<1>2. /\ buffer.fmt \in mmm_color_fmts /\ buffer.w \in Nat \ {0} /\ buffer.h \in Nat \ {0}
      /\ frame.w \in Nat \ {0} /\ frame.h \in Nat \ {0} /\ frame.interlaced \in BOOLEAN
  BY <1>1, Fields DEF IInv
<1>3. /\ frame.w <= buffer.w /\ frame.h <= buffer.h /\ Chain(layout, FramePlanes)
      /\ frame.interlaced => buffer.fmt = "NV12_UBWC"
      /\ buffer.size = MMM_COLOR_FMT_BUFFER_SIZE(buffer.fmt, buffer.w, buffer.h)
  BY <1>1 DEF IInv
<1>4. /\ Len(FramePlanes) \in 1..8 /\ \A j \in 1..Len(FramePlanes) : FramePlanes[j][2] \in Nat
      /\ Total(FramePlanes) = FrameSize(buffer.fmt, frame.w, frame.h, frame.interlaced)
  BY <1>2, <1>3, PlanesOfFrame DEF FramePlanes
<1>5. End(layout[k]) <= Total(FramePlanes)
  BY <1>0, <1>3, <1>4, ChainEnds
<1>6. FrameSize(buffer.fmt, frame.w, frame.h, frame.interlaced) <= buffer.size
  BY <1>2, <1>3, FrameFits
<1>7. End(layout[k]) \in Nat
  <2>1. layout[k] \in Records
    BY <1>0
  <2>q. QED
    BY <2>1 DEF End, Records
<1>8. Total(FramePlanes) \in Nat
  <2>1. \A j \in 1..8 : Sz(FramePlanes, j) \in Nat
    BY <1>4 DEF Sz
  <2>2. /\ Sz(FramePlanes, 1) \in Nat /\ Sz(FramePlanes, 2) \in Nat /\ Sz(FramePlanes, 3) \in Nat
        /\ Sz(FramePlanes, 4) \in Nat /\ Sz(FramePlanes, 5) \in Nat /\ Sz(FramePlanes, 6) \in Nat
        /\ Sz(FramePlanes, 7) \in Nat /\ Sz(FramePlanes, 8) \in Nat
    BY <2>1
  <2>q. QED
    BY <2>2 DEF Total
<1>9. FrameSize(buffer.fmt, frame.w, frame.h, frame.interlaced) \in Nat
  BY <1>2, FrameSizeIsNat
<1>10. buffer.size \in Nat
  BY <1>1, Fields DEF IInv
<1>q. QED
  BY <1>4, <1>5, <1>6, <1>7, <1>8, <1>9, <1>10

(* The frame and the planes of FrameBuffer have their types, and a frame  *)
(* or plane exists only in an allocated buffer, for all sizes.            *)
THEOREM FrameTypeCorrect == Spec => []TypeOK
<1>1. IInv => TypeOK
  BY DEF IInv
<1>q. QED
  BY <1>1, InitIInv, NextIInv, PTL DEF Spec

(* For every set of widths and heights, no plane of any frame leaves the  *)
(* buffer MMM_COLOR_FMT_BUFFER_SIZE allocated, the interlaced frame in a  *)
(* progressive allocation excepted.                                       *)
THEOREM PlanesAlwaysInside == Spec => []PlanesInside
BY InitIInv, NextIInv, IInvInside, PTL DEF Spec

-----------------------------------------------------------------------------
(* The extent of a finished frame.                                        *)

\* MMM_COLOR_FMT_BUFFER_SIZE_USED is the frame's size in whole pages.
LEMMA UsedIsPages ==
    ASSUME NEW f \in mmm_color_fmts, NEW w \in Nat \ {0}, NEW h \in Nat \ {0},
           NEW i \in BOOLEAN, i => f = "NV12_UBWC" /\ InterlaceCapable(w, h)
    PROVE  MMM_COLOR_FMT_BUFFER_SIZE_USED(f, w, h, i) = Page(FrameSize(f, w, h, i))
<1>0. w # 0 /\ h # 0
  OBVIOUS
<1>1. CASE f = "NV12_UBWC"
  <2>1. f \in YuvUbwc /\ f \notin Linear
    BY <1>1 DEF YuvUbwc, Linear
  <2>2. CASE i
    <3>1. MMM_COLOR_FMT_BUFFER_SIZE_USED(f, w, h, i) = MMM_COLOR_FMT_BUFFER_SIZE(f, w, h)
      BY <1>0, <2>2 DEF MMM_COLOR_FMT_BUFFER_SIZE_USED
    <3>2. MMM_COLOR_FMT_BUFFER_SIZE(f, w, h) = Page(2 * UbwcSize(f, w, Half(h)))
      BY <1>0, <1>1, <2>1, <2>2 DEF MMM_COLOR_FMT_BUFFER_SIZE
    <3>3. FrameSize(f, w, h, i) = 2 * UbwcSize(f, w, Half(h))
      BY <2>1, <2>2 DEF FrameSize
    <3>q. QED
      BY <3>1, <3>2, <3>3
  <2>3. CASE ~i
    <3>1. MMM_COLOR_FMT_BUFFER_SIZE_USED(f, w, h, i) = Page(UbwcSize(f, w, h))
      BY <1>0, <1>1, <2>3 DEF MMM_COLOR_FMT_BUFFER_SIZE_USED
    <3>2. FrameSize(f, w, h, i) = UbwcSize(f, w, h)
      BY <2>1, <2>3 DEF FrameSize
    <3>q. QED
      BY <3>1, <3>2
  <2>q. QED
    BY <2>2, <2>3
<1>2. CASE f # "NV12_UBWC"
  <2>1. ~i
    BY <1>2
  <2>2. MMM_COLOR_FMT_BUFFER_SIZE_USED(f, w, h, i) = MMM_COLOR_FMT_BUFFER_SIZE(f, w, h)
    BY <1>0, <1>2 DEF MMM_COLOR_FMT_BUFFER_SIZE_USED
  <2>3. CASE f \in Linear
    BY <1>0, <1>2, <2>1, <2>2, <2>3 DEF MMM_COLOR_FMT_BUFFER_SIZE, FrameSize
  <2>4. CASE f \notin Linear /\ f \in YuvUbwc
    BY <1>0, <1>2, <2>1, <2>2, <2>4 DEF MMM_COLOR_FMT_BUFFER_SIZE, FrameSize
  <2>5. CASE f \notin Linear /\ f \notin YuvUbwc
    BY <1>0, <1>2, <2>1, <2>2, <2>5 DEF MMM_COLOR_FMT_BUFFER_SIZE, FrameSize
  <2>q. QED
    BY <2>3, <2>4, <2>5
<1>q. QED
  BY <1>1, <1>2

\* The invariant makes the end of the last plane the frame's size.
LEMMA IInvExtent == IInv => UsedIsExtent
<1>. SUFFICES ASSUME IInv, frame # NoFrame, Len(layout) = Len(FramePlanes)
              PROVE  Page(LayoutEnd)
                       = MMM_COLOR_FMT_BUFFER_SIZE_USED(buffer.fmt, frame.w, frame.h, frame.interlaced)
  BY DEF UsedIsExtent
<1>1. buffer # NoBuffer /\ layout \in Seq(Records)
  BY DEF IInv, TypeOK
<1>2. /\ buffer.fmt \in mmm_color_fmts /\ frame.w \in Nat \ {0} /\ frame.h \in Nat \ {0}
      /\ frame.interlaced \in BOOLEAN
  BY <1>1, Fields DEF IInv
<1>3. /\ Chain(layout, FramePlanes)
      /\ frame.interlaced => buffer.fmt = "NV12_UBWC" /\ InterlaceCapable(frame.w, frame.h)
  BY DEF IInv
<1>4. /\ Len(FramePlanes) \in 1..8 /\ \A j \in 1..Len(FramePlanes) : FramePlanes[j][2] \in Nat
      /\ Total(FramePlanes) = FrameSize(buffer.fmt, frame.w, frame.h, frame.interlaced)
  BY <1>2, <1>3, PlanesOfFrame DEF FramePlanes
<1>5. End(layout[Len(layout)]) = Total(FramePlanes)
  BY <1>1, <1>3, <1>4, ChainEnds
<1>6. LayoutEnd = End(layout[Len(layout)])
  BY <1>4 DEF LayoutEnd
<1>7. MMM_COLOR_FMT_BUFFER_SIZE_USED(buffer.fmt, frame.w, frame.h, frame.interlaced)
        = Page(FrameSize(buffer.fmt, frame.w, frame.h, frame.interlaced))
  BY <1>2, <1>3, UsedIsPages
<1>q. QED
  BY <1>4, <1>5, <1>6, <1>7

(* For every size of frame, MMM_COLOR_FMT_BUFFER_SIZE_USED, which adds the  *)
(* planes up without laying them out, is where the last plane of the        *)
(* finished frame ends, rounded to a page: neither function forgets a plane *)
(* or a field.                                                              *)
THEOREM UsedAlwaysExtent == Spec => []UsedIsExtent
BY InitIInv, NextIInv, IInvExtent, PTL DEF Spec

-----------------------------------------------------------------------------
(* Metadata.                                                              *)

\* The RGB formats: four lines to an entry, 256 bytes of four lines to a tile.
LEMMA RgbTiles ==
    ASSUME NEW f \in RgbUbwc, NEW w \in Nat \ {0}, NEW h \in Nat \ {0}
    PROVE  /\ 4 * MMM_COLOR_FMT_RGB_META_SCANLINES(f, h) >= MMM_COLOR_FMT_RGB_SCANLINES(f, h)
           /\ (IF f = "RGB565_UBWC" THEN 32 ELSE 64) * MMM_COLOR_FMT_RGB_META_STRIDE(f, w)
                 >= MMM_COLOR_FMT_RGB_STRIDE(f, w)
<1>1. 4 * MMM_COLOR_FMT_RGB_META_SCANLINES(f, h) >= MMM_COLOR_FMT_RGB_SCANLINES(f, h)
  BY DEF MMM_COLOR_FMT_RGB_META_SCANLINES, MMM_COLOR_FMT_RGB_SCANLINES, MMM_COLOR_FMT_ALIGN,
         MMM_COLOR_FMT_ROUNDUP, RgbUbwc
<1>2. (IF f = "RGB565_UBWC" THEN 32 ELSE 64) * MMM_COLOR_FMT_RGB_META_STRIDE(f, w)
        >= MMM_COLOR_FMT_RGB_STRIDE(f, w)
  BY DEF MMM_COLOR_FMT_RGB_META_STRIDE, MMM_COLOR_FMT_RGB_STRIDE, MMM_COLOR_FMT_ALIGN,
         MMM_COLOR_FMT_ROUNDUP, RgbUbwc
<1>q. QED
  BY <1>1, <1>2

\* The YUV formats, luma and chroma: tiles of 32 by 8, or of 64 bytes by 4.
LEMMA YuvTiles ==
    ASSUME NEW f \in YuvUbwc, NEW w \in Nat \ {0}, NEW h \in Nat \ {0},
           NEW lines, lines = IF f = "NV12_UBWC" THEN 8 ELSE 4,
           NEW bytes, bytes = IF f = "NV12_UBWC" THEN 32 ELSE 64
    PROVE  /\ lines * MMM_COLOR_FMT_Y_META_SCANLINES(f, h) >= MMM_COLOR_FMT_Y_SCANLINES(f, h)
           /\ lines * MMM_COLOR_FMT_UV_META_SCANLINES(f, h) >= MMM_COLOR_FMT_UV_SCANLINES(f, h)
           /\ bytes * MMM_COLOR_FMT_Y_META_STRIDE(f, w) >= MMM_COLOR_FMT_Y_STRIDE(f, w)
           /\ bytes * MMM_COLOR_FMT_UV_META_STRIDE(f, w) >= MMM_COLOR_FMT_UV_STRIDE(f, w)
<1>1. lines * MMM_COLOR_FMT_Y_META_SCANLINES(f, h) >= MMM_COLOR_FMT_Y_SCANLINES(f, h)
  BY DEF MMM_COLOR_FMT_Y_META_SCANLINES, MMM_COLOR_FMT_Y_SCANLINES, MMM_COLOR_FMT_ALIGN,
         MMM_COLOR_FMT_ROUNDUP, YuvUbwc
<1>2. lines * MMM_COLOR_FMT_UV_META_SCANLINES(f, h) >= MMM_COLOR_FMT_UV_SCANLINES(f, h)
  BY DEF MMM_COLOR_FMT_UV_META_SCANLINES, MMM_COLOR_FMT_UV_SCANLINES, MMM_COLOR_FMT_ALIGN,
         MMM_COLOR_FMT_ROUNDUP, Half, YuvUbwc
<1>3. bytes * MMM_COLOR_FMT_Y_META_STRIDE(f, w) >= MMM_COLOR_FMT_Y_STRIDE(f, w)
  BY DEF MMM_COLOR_FMT_Y_META_STRIDE, MMM_COLOR_FMT_Y_STRIDE, MMM_COLOR_FMT_ALIGN,
         MMM_COLOR_FMT_ROUNDUP, YuvUbwc
<1>4. bytes * MMM_COLOR_FMT_UV_META_STRIDE(f, w) >= MMM_COLOR_FMT_UV_STRIDE(f, w)
  BY DEF MMM_COLOR_FMT_UV_META_STRIDE, MMM_COLOR_FMT_UV_STRIDE, MMM_COLOR_FMT_ALIGN,
         MMM_COLOR_FMT_ROUNDUP, Half, YuvUbwc
<1>q. QED
  BY <1>1, <1>2, <1>3, <1>4

\* The invariant gives a frame its sides, which is all the metadata needs.
LEMMA IInvTiles == IInv => MetaCoversTiles
<1>. SUFFICES ASSUME IInv, frame # NoFrame, buffer.fmt \in YuvUbwc \cup RgbUbwc
              PROVE  MetaCoversTiles
  BY DEF MetaCoversTiles
<1>. DEFINE f == buffer.fmt
            w == frame.w
            h == IF frame.interlaced THEN Half(frame.h) ELSE frame.h
            lines == IF f = "NV12_UBWC" THEN 8 ELSE 4
            bytes == IF f = "NV12_UBWC" THEN 32 ELSE 64
<1>1. w \in Nat \ {0} /\ frame.h \in Nat \ {0} /\ frame.interlaced \in BOOLEAN
  BY Fields DEF IInv
<1>2. h \in Nat \ {0}
  BY <1>1, HalfMono
<1>3. (f \in YuvUbwc /\ f \notin RgbUbwc) \/ f \in RgbUbwc
  BY DEF YuvUbwc, RgbUbwc
<1>. HIDE DEF w, h
<1>4. f \in RgbUbwc =>
        /\ 4 * MMM_COLOR_FMT_RGB_META_SCANLINES(f, h) >= MMM_COLOR_FMT_RGB_SCANLINES(f, h)
        /\ (IF f = "RGB565_UBWC" THEN 32 ELSE 64) * MMM_COLOR_FMT_RGB_META_STRIDE(f, w)
              >= MMM_COLOR_FMT_RGB_STRIDE(f, w)
  BY <1>1, <1>2, RgbTiles
<1>5. f \in YuvUbwc =>
        /\ lines * MMM_COLOR_FMT_Y_META_SCANLINES(f, h) >= MMM_COLOR_FMT_Y_SCANLINES(f, h)
        /\ lines * MMM_COLOR_FMT_UV_META_SCANLINES(f, h) >= MMM_COLOR_FMT_UV_SCANLINES(f, h)
        /\ bytes * MMM_COLOR_FMT_Y_META_STRIDE(f, w) >= MMM_COLOR_FMT_Y_STRIDE(f, w)
        /\ bytes * MMM_COLOR_FMT_UV_META_STRIDE(f, w) >= MMM_COLOR_FMT_UV_STRIDE(f, w)
  BY <1>1, <1>2, YuvTiles
<1>q. QED
  BY <1>3, <1>4, <1>5 DEF MetaCoversTiles, w, h

(* For every size of frame, the metadata planes have an entry for every     *)
(* tile of the compressed planes, their padding included: the two paddings  *)
(* are computed by functions that do not know of each other.                *)
THEOREM MetaAlwaysCovers == Spec => []MetaCoversTiles
BY InitIInv, NextIInv, IInvTiles, PTL DEF Spec

-----------------------------------------------------------------------------
(* The layouts the comments describe.                                     *)

\* The comments' align() is the macro.
LEMMA AlignAsDocumented ==
    ASSUME NEW x \in Nat
    PROVE  /\ DocAlign(x, 16) = MMM_COLOR_FMT_ALIGN(x, 16) /\ DocAlign(x, 32) = MMM_COLOR_FMT_ALIGN(x, 32)
           /\ DocAlign(x, 64) = MMM_COLOR_FMT_ALIGN(x, 64) /\ DocAlign(x, 128) = MMM_COLOR_FMT_ALIGN(x, 128)
           /\ DocAlign(x, 256) = MMM_COLOR_FMT_ALIGN(x, 256) /\ DocAlign(x, 512) = MMM_COLOR_FMT_ALIGN(x, 512)
           /\ DocAlign(x, 4096) = Page(x)
<1>1. DocAlign(x, 16) = MMM_COLOR_FMT_ALIGN(x, 16) /\ DocAlign(x, 32) = MMM_COLOR_FMT_ALIGN(x, 32)
  BY DEF DocAlign, MMM_COLOR_FMT_ALIGN
<1>2. DocAlign(x, 64) = MMM_COLOR_FMT_ALIGN(x, 64) /\ DocAlign(x, 128) = MMM_COLOR_FMT_ALIGN(x, 128)
  BY DEF DocAlign, MMM_COLOR_FMT_ALIGN
<1>3. DocAlign(x, 256) = MMM_COLOR_FMT_ALIGN(x, 256) /\ DocAlign(x, 512) = MMM_COLOR_FMT_ALIGN(x, 512)
  BY DEF DocAlign, MMM_COLOR_FMT_ALIGN
<1>4. DocAlign(x, 4096) = Page(x)
  BY DEF DocAlign, Page, MMM_COLOR_FMT_ALIGN
<1>q. QED
  BY <1>1, <1>2, <1>3, <1>4

\* The comments count tiles in pixels of the frame, the code those of a chroma plane
\* in its own samples.
LEMMA TilesAsDocumented ==
    ASSUME NEW x \in Nat
    PROVE  /\ \A t \in {4, 8, 16, 32, 48} : DocTiles(x, t) = MMM_COLOR_FMT_ROUNDUP(x, t)
                                          /\ DocTiles(x, t) \in Nat
           /\ DocTiles(x, 8) = MMM_COLOR_FMT_ROUNDUP(Half(x), 4)
           /\ DocTiles(x, 16) = MMM_COLOR_FMT_ROUNDUP(Half(x), 8)
           /\ DocTiles(x, 32) = MMM_COLOR_FMT_ROUNDUP(Half(x), 16)
           /\ DocTiles(x, 48) = MMM_COLOR_FMT_ROUNDUP(Half(x), 24)
<1>1. DocTiles(x, 4) = MMM_COLOR_FMT_ROUNDUP(x, 4) /\ DocTiles(x, 4) \in Nat
  BY DEF DocTiles, DocAlign, MMM_COLOR_FMT_ROUNDUP
<1>2. /\ DocTiles(x, 8) = MMM_COLOR_FMT_ROUNDUP(x, 8) /\ DocTiles(x, 8) \in Nat
      /\ DocTiles(x, 8) = MMM_COLOR_FMT_ROUNDUP(Half(x), 4)
  BY DEF DocTiles, DocAlign, MMM_COLOR_FMT_ROUNDUP, Half
<1>3. /\ DocTiles(x, 16) = MMM_COLOR_FMT_ROUNDUP(x, 16) /\ DocTiles(x, 16) \in Nat
      /\ DocTiles(x, 16) = MMM_COLOR_FMT_ROUNDUP(Half(x), 8)
  BY DEF DocTiles, DocAlign, MMM_COLOR_FMT_ROUNDUP, Half
<1>4. /\ DocTiles(x, 32) = MMM_COLOR_FMT_ROUNDUP(x, 32) /\ DocTiles(x, 32) \in Nat
      /\ DocTiles(x, 32) = MMM_COLOR_FMT_ROUNDUP(Half(x), 16)
  BY DEF DocTiles, DocAlign, MMM_COLOR_FMT_ROUNDUP, Half
<1>5. /\ DocTiles(x, 48) = MMM_COLOR_FMT_ROUNDUP(x, 48) /\ DocTiles(x, 48) \in Nat
      /\ DocTiles(x, 48) = MMM_COLOR_FMT_ROUNDUP(Half(x), 24)
  BY DEF DocTiles, DocAlign, MMM_COLOR_FMT_ROUNDUP, Half
<1>q. QED
  BY <1>1, <1>2, <1>3, <1>4, <1>5

\* The 10-bit stride: whole tiles of 192 pixels, four bytes to three pixels.
LEMMA TenBitStride ==
    ASSUME NEW x \in Nat
    PROVE  DocAlign((x * 4) \div 3, 256)
             = MMM_COLOR_FMT_ALIGN((MMM_COLOR_FMT_ALIGN(x, 192) * 4) \div 3, 256)
BY DEF DocAlign, MMM_COLOR_FMT_ALIGN

\* Metadata planes: strides and lines of entries.
LEMMA MetaAsDocumented ==
    ASSUME NEW x, NEW w \in Nat, NEW h \in Nat, NEW tw \in {8, 16, 32, 48}, NEW th \in {4, 8, 16}
    PROVE  DocMeta(x, w, h, tw, th)
             = <<x, Page(MMM_COLOR_FMT_ALIGN(DocTiles(w, tw), 64) * MMM_COLOR_FMT_ALIGN(DocTiles(h, th), 16))>>
<1>1. DocTiles(w, tw) \in Nat /\ DocTiles(h, th) \in Nat
  BY TilesAsDocumented
<1>. DEFINE a == DocTiles(w, tw)
            b == DocTiles(h, th)
<1>. HIDE DEF a, b
<1>2. a \in Nat /\ b \in Nat
  BY <1>1 DEF a, b
<1>3. /\ DocAlign(a, 64) = MMM_COLOR_FMT_ALIGN(a, 64) /\ DocAlign(b, 16) = MMM_COLOR_FMT_ALIGN(b, 16)
      /\ MMM_COLOR_FMT_ALIGN(a, 64) \in Nat /\ MMM_COLOR_FMT_ALIGN(b, 16) \in Nat
  <2>1. MMM_COLOR_FMT_ALIGN(a, 64) \in Nat /\ MMM_COLOR_FMT_ALIGN(b, 16) \in Nat
    BY <1>2 DEF MMM_COLOR_FMT_ALIGN
  <2>q. QED
    BY <1>2, <2>1, AlignAsDocumented
<1>. DEFINE c == MMM_COLOR_FMT_ALIGN(a, 64)
            e == MMM_COLOR_FMT_ALIGN(b, 16)
<1>4. c * e \in Nat
  <2>1. c \in Nat /\ e \in Nat
    BY <1>3
  <2>. HIDE DEF c, e
  <2>q. QED
    BY <2>1
<1>5. DocAlign(c * e, 4096) = Page(c * e)
  BY <1>4, AlignAsDocumented
<1>q. QED
  BY <1>3, <1>5 DEF DocMeta, a, b

\* Pixel planes: stride times lines, in whole pages.
LEMMA PlaneAsDocumented ==
    ASSUME NEW x, NEW a \in Nat, NEW b \in Nat
    PROVE  DocPlane(x, a, b) = <<x, Page(a * b)>>
<1>1. a * b \in Nat
  OBVIOUS
<1>q. QED
  BY <1>1, AlignAsDocumented DEF DocPlane

\* An even height has the half the comments divide it into.
LEMMA EvenHalf ==
    ASSUME NEW h \in Nat \ {0}, h % 2 = 0
    PROVE  h \div 2 = Half(h) /\ Half(h) \in Nat \ {0}
BY DEF Half

\* The uncompressed YUV formats.
LEMMA LinearAsDocumented ==
    ASSUME NEW f \in Linear, NEW w \in Nat \ {0}, NEW h \in Nat \ {0}, h % 2 = 0, NEW i
    PROVE  Planes(f, w, h, i) = Documented(f, w, h, i)
<1>1. w # 0 /\ h # 0 /\ w \in Nat /\ h \in Nat /\ 2 * w = w * 2 /\ w * 2 \in Nat
      /\ h \div 2 = Half(h) /\ Half(h) \in Nat
  BY EvenHalf
<1>2. /\ DocAlign(w, 128) = MMM_COLOR_FMT_ALIGN(w, 128) /\ DocAlign(w, 512) = MMM_COLOR_FMT_ALIGN(w, 512)
      /\ DocAlign(w * 2, 256) = MMM_COLOR_FMT_ALIGN(w * 2, 256)
      /\ DocAlign(w * 2, 512) = MMM_COLOR_FMT_ALIGN(w * 2, 512)
      /\ DocAlign(h, 32) = MMM_COLOR_FMT_ALIGN(h, 32) /\ DocAlign(h, 512) = MMM_COLOR_FMT_ALIGN(h, 512)
      /\ DocAlign(Half(h), 16) = MMM_COLOR_FMT_ALIGN(Half(h), 16)
      /\ DocAlign(Half(h), 256) = MMM_COLOR_FMT_ALIGN(Half(h), 256)
  BY <1>1, AlignAsDocumented
<1>3. Planes(f, w, h, i) = <<<<"Y", y_plane(f, w, h)>>, <<"UV", uv_plane(f, w, h)>>>>
  <2>1. f \notin YuvUbwc /\ f \notin RgbUbwc /\ f # "RGBA8888"
    BY DEF Linear, YuvUbwc, RgbUbwc
  <2>q. QED
    BY <2>1 DEF Planes, YuvPlanes
<1>4. CASE f = "NV12"
  <2>1. /\ MMM_COLOR_FMT_Y_STRIDE(f, w) = MMM_COLOR_FMT_ALIGN(w, 128)
        /\ MMM_COLOR_FMT_UV_STRIDE(f, w) = MMM_COLOR_FMT_ALIGN(w, 128)
        /\ MMM_COLOR_FMT_Y_SCANLINES(f, h) = MMM_COLOR_FMT_ALIGN(h, 32)
        /\ MMM_COLOR_FMT_UV_SCANLINES(f, h) = MMM_COLOR_FMT_ALIGN(Half(h), 16)
    BY <1>1, <1>4 DEF MMM_COLOR_FMT_Y_STRIDE, MMM_COLOR_FMT_UV_STRIDE, MMM_COLOR_FMT_Y_SCANLINES,
                     MMM_COLOR_FMT_UV_SCANLINES
  <2>2. Documented(f, w, h, i) = DocYuv(w, h, 128, 32, 16)
    BY <1>4 DEF Documented, Doc_NV12
  <2>q. QED
    BY <1>1, <1>2, <1>3, <2>1, <2>2 DEF DocYuv, y_plane, uv_plane
<1>5. CASE f = "NV21"
  <2>1. /\ MMM_COLOR_FMT_Y_STRIDE(f, w) = MMM_COLOR_FMT_ALIGN(w, 128)
        /\ MMM_COLOR_FMT_UV_STRIDE(f, w) = MMM_COLOR_FMT_ALIGN(w, 128)
        /\ MMM_COLOR_FMT_Y_SCANLINES(f, h) = MMM_COLOR_FMT_ALIGN(h, 32)
        /\ MMM_COLOR_FMT_UV_SCANLINES(f, h) = MMM_COLOR_FMT_ALIGN(Half(h), 16)
    BY <1>1, <1>5 DEF MMM_COLOR_FMT_Y_STRIDE, MMM_COLOR_FMT_UV_STRIDE, MMM_COLOR_FMT_Y_SCANLINES,
                     MMM_COLOR_FMT_UV_SCANLINES
  <2>2. Documented(f, w, h, i) = DocYuv(w, h, 128, 32, 16)
    BY <1>5 DEF Documented, Doc_NV21
  <2>q. QED
    BY <1>1, <1>2, <1>3, <2>1, <2>2 DEF DocYuv, y_plane, uv_plane
<1>6. CASE f = "P010"
  <2>1. /\ MMM_COLOR_FMT_Y_STRIDE(f, w) = MMM_COLOR_FMT_ALIGN(w * 2, 256)
        /\ MMM_COLOR_FMT_UV_STRIDE(f, w) = MMM_COLOR_FMT_ALIGN(w * 2, 256)
        /\ MMM_COLOR_FMT_Y_SCANLINES(f, h) = MMM_COLOR_FMT_ALIGN(h, 32)
        /\ MMM_COLOR_FMT_UV_SCANLINES(f, h) = MMM_COLOR_FMT_ALIGN(Half(h), 16)
    BY <1>1, <1>6 DEF MMM_COLOR_FMT_Y_STRIDE, MMM_COLOR_FMT_UV_STRIDE, MMM_COLOR_FMT_Y_SCANLINES,
                     MMM_COLOR_FMT_UV_SCANLINES
  <2>2. Documented(f, w, h, i) = DocYuv(2 * w, h, 256, 32, 16)
    BY <1>6 DEF Documented, Doc_P010
  <2>q. QED
    BY <1>1, <1>2, <1>3, <2>1, <2>2 DEF DocYuv, y_plane, uv_plane
<1>7. CASE f = "P010_512"
  <2>1. /\ MMM_COLOR_FMT_Y_STRIDE(f, w) = MMM_COLOR_FMT_ALIGN(w * 2, 512)
        /\ MMM_COLOR_FMT_UV_STRIDE(f, w) = MMM_COLOR_FMT_ALIGN(w * 2, 512)
        /\ MMM_COLOR_FMT_Y_SCANLINES(f, h) = MMM_COLOR_FMT_ALIGN(h, 32)
        /\ MMM_COLOR_FMT_UV_SCANLINES(f, h) = MMM_COLOR_FMT_ALIGN(Half(h), 16)
    BY <1>1, <1>7 DEF MMM_COLOR_FMT_Y_STRIDE, MMM_COLOR_FMT_UV_STRIDE, MMM_COLOR_FMT_Y_SCANLINES,
                     MMM_COLOR_FMT_UV_SCANLINES
  <2>2. Documented(f, w, h, i) = DocYuv(2 * w, h, 512, 32, 16)
    BY <1>7 DEF Documented, Doc_P010_512
  <2>q. QED
    BY <1>1, <1>2, <1>3, <2>1, <2>2 DEF DocYuv, y_plane, uv_plane
<1>8. CASE f = "NV12_512"
  <2>1. /\ MMM_COLOR_FMT_Y_STRIDE(f, w) = MMM_COLOR_FMT_ALIGN(w, 512)
        /\ MMM_COLOR_FMT_UV_STRIDE(f, w) = MMM_COLOR_FMT_ALIGN(w, 512)
        /\ MMM_COLOR_FMT_Y_SCANLINES(f, h) = MMM_COLOR_FMT_ALIGN(h, 512)
        /\ MMM_COLOR_FMT_UV_SCANLINES(f, h) = MMM_COLOR_FMT_ALIGN(Half(h), 256)
    BY <1>1, <1>8 DEF MMM_COLOR_FMT_Y_STRIDE, MMM_COLOR_FMT_UV_STRIDE, MMM_COLOR_FMT_Y_SCANLINES,
                     MMM_COLOR_FMT_UV_SCANLINES
  <2>2. Documented(f, w, h, i) = DocYuv(w, h, 512, 512, 256)
    BY <1>8 DEF Documented, Doc_NV12_512
  <2>q. QED
    BY <1>1, <1>2, <1>3, <2>1, <2>2 DEF DocYuv, y_plane, uv_plane
<1>q. QED
  BY <1>4, <1>5, <1>6, <1>7, <1>8 DEF Linear

\* The RGB formats.
LEMMA RgbAsDocumented ==
    ASSUME NEW f \in RgbUbwc \cup {"RGBA8888"}, NEW w \in Nat \ {0}, NEW h \in Nat \ {0}, NEW i
    PROVE  Planes(f, w, h, i) = Documented(f, w, h, i)
<1>1. w # 0 /\ h # 0 /\ w \in Nat /\ h \in Nat /\ w * 2 \in Nat /\ w * 4 \in Nat /\ w * 8 \in Nat
  OBVIOUS
<1>2. /\ DocAlign(w * 2, 256) = MMM_COLOR_FMT_ALIGN(w * 2, 256)
      /\ DocAlign(w * 4, 256) = MMM_COLOR_FMT_ALIGN(w * 4, 256)
      /\ DocAlign(w * 8, 256) = MMM_COLOR_FMT_ALIGN(w * 8, 256)
      /\ DocAlign(h, 16) = MMM_COLOR_FMT_ALIGN(h, 16) /\ DocAlign(h, 32) = MMM_COLOR_FMT_ALIGN(h, 32)
  BY <1>1, AlignAsDocumented
<1>3. /\ MMM_COLOR_FMT_ALIGN(w * 2, 256) \in Nat /\ MMM_COLOR_FMT_ALIGN(w * 4, 256) \in Nat
      /\ MMM_COLOR_FMT_ALIGN(w * 8, 256) \in Nat
      /\ MMM_COLOR_FMT_ALIGN(h, 16) \in Nat /\ MMM_COLOR_FMT_ALIGN(h, 32) \in Nat
  BY <1>1 DEF MMM_COLOR_FMT_ALIGN
<1>4. /\ DocTiles(w, 16) = MMM_COLOR_FMT_ROUNDUP(w, 16) /\ DocTiles(w, 8) = MMM_COLOR_FMT_ROUNDUP(w, 8)
      /\ DocTiles(h, 4) = MMM_COLOR_FMT_ROUNDUP(h, 4)
  BY <1>1, TilesAsDocumented
<1>5. CASE f = "RGBA8888"
  <2>1. f \notin Linear /\ f \notin YuvUbwc /\ f \notin RgbUbwc
    BY <1>5 DEF Linear, YuvUbwc, RgbUbwc
  <2>2. Planes(f, w, h, i) = <<<<"RGB", rgb_plane(f, w, h)>>>>
    BY <1>5, <2>1 DEF Planes
  <2>3. rgb_plane(f, w, h) = Page(MMM_COLOR_FMT_ALIGN(w * 4, 256) * MMM_COLOR_FMT_ALIGN(h, 32))
    BY <1>1, <1>5, <2>1 DEF rgb_plane, MMM_COLOR_FMT_RGB_STRIDE, MMM_COLOR_FMT_RGB_SCANLINES
  <2>4. Documented(f, w, h, i) = <<DocPlane("RGB", DocAlign(w * 4, 256), DocAlign(h, 32))>>
    BY <1>5 DEF Documented, Doc_RGBA8888
  <2>5. DocPlane("RGB", DocAlign(w * 4, 256), DocAlign(h, 32))
          = <<"RGB", Page(MMM_COLOR_FMT_ALIGN(w * 4, 256) * MMM_COLOR_FMT_ALIGN(h, 32))>>
    BY <1>2, <1>3, PlaneAsDocumented
  <2>q. QED
    BY <2>2, <2>3, <2>4, <2>5
<1>6. f \in RgbUbwc => Planes(f, w, h, i) = <<<<"RGB_Meta", rgb_meta_plane(f, w, h)>>, <<"RGB", rgb_plane(f, w, h)>>>>
  <2>1. f \in RgbUbwc => f \notin Linear /\ f \notin YuvUbwc /\ f # "RGBA8888"
    BY DEF Linear, YuvUbwc, RgbUbwc
  <2>q. QED
    BY <2>1 DEF Planes
<1>7. CASE f = "RGBA8888_UBWC"
  <2>1. f \in RgbUbwc
    BY <1>7 DEF RgbUbwc
  <2>2. /\ MMM_COLOR_FMT_RGB_STRIDE(f, w) = MMM_COLOR_FMT_ALIGN(w * 4, 256)
        /\ MMM_COLOR_FMT_RGB_SCANLINES(f, h) = MMM_COLOR_FMT_ALIGN(h, 16)
        /\ MMM_COLOR_FMT_RGB_META_STRIDE(f, w) = MMM_COLOR_FMT_ALIGN(MMM_COLOR_FMT_ROUNDUP(w, 16), 64)
        /\ MMM_COLOR_FMT_RGB_META_SCANLINES(f, h) = MMM_COLOR_FMT_ALIGN(MMM_COLOR_FMT_ROUNDUP(h, 4), 16)
    BY <1>1, <1>7, <2>1 DEF MMM_COLOR_FMT_RGB_STRIDE, MMM_COLOR_FMT_RGB_SCANLINES,
                          MMM_COLOR_FMT_RGB_META_STRIDE, MMM_COLOR_FMT_RGB_META_SCANLINES
  <2>3. Documented(f, w, h, i) = DocRgbUbwc(w, h, 4, 16, 4)
    BY <1>7 DEF Documented, Doc_RGBA8888_UBWC
  <2>4. DocMeta("RGB_Meta", w, h, 16, 4) = <<"RGB_Meta", rgb_meta_plane(f, w, h)>>
    BY <1>1, <1>4, <2>2, MetaAsDocumented DEF rgb_meta_plane
  <2>5. DocPlane("RGB", DocAlign(w * 4, 256), DocAlign(h, 16)) = <<"RGB", rgb_plane(f, w, h)>>
    BY <1>2, <1>3, <2>2, PlaneAsDocumented DEF rgb_plane
  <2>q. QED
    BY <1>6, <2>1, <2>3, <2>4, <2>5 DEF DocRgbUbwc
<1>8. CASE f = "RGBA1010102_UBWC"
  <2>1. f \in RgbUbwc
    BY <1>8 DEF RgbUbwc
  <2>2. /\ MMM_COLOR_FMT_RGB_STRIDE(f, w) = MMM_COLOR_FMT_ALIGN(w * 4, 256)
        /\ MMM_COLOR_FMT_RGB_SCANLINES(f, h) = MMM_COLOR_FMT_ALIGN(h, 16)
        /\ MMM_COLOR_FMT_RGB_META_STRIDE(f, w) = MMM_COLOR_FMT_ALIGN(MMM_COLOR_FMT_ROUNDUP(w, 16), 64)
        /\ MMM_COLOR_FMT_RGB_META_SCANLINES(f, h) = MMM_COLOR_FMT_ALIGN(MMM_COLOR_FMT_ROUNDUP(h, 4), 16)
    BY <1>1, <1>8, <2>1 DEF MMM_COLOR_FMT_RGB_STRIDE, MMM_COLOR_FMT_RGB_SCANLINES,
                          MMM_COLOR_FMT_RGB_META_STRIDE, MMM_COLOR_FMT_RGB_META_SCANLINES
  <2>3. Documented(f, w, h, i) = DocRgbUbwc(w, h, 4, 16, 4)
    BY <1>8 DEF Documented, Doc_RGBA1010102_UBWC
  <2>4. DocMeta("RGB_Meta", w, h, 16, 4) = <<"RGB_Meta", rgb_meta_plane(f, w, h)>>
    BY <1>1, <1>4, <2>2, MetaAsDocumented DEF rgb_meta_plane
  <2>5. DocPlane("RGB", DocAlign(w * 4, 256), DocAlign(h, 16)) = <<"RGB", rgb_plane(f, w, h)>>
    BY <1>2, <1>3, <2>2, PlaneAsDocumented DEF rgb_plane
  <2>q. QED
    BY <1>6, <2>1, <2>3, <2>4, <2>5 DEF DocRgbUbwc
<1>9. CASE f = "RGB565_UBWC"
  <2>1. f \in RgbUbwc
    BY <1>9 DEF RgbUbwc
  <2>2. /\ MMM_COLOR_FMT_RGB_STRIDE(f, w) = MMM_COLOR_FMT_ALIGN(w * 2, 256)
        /\ MMM_COLOR_FMT_RGB_SCANLINES(f, h) = MMM_COLOR_FMT_ALIGN(h, 16)
        /\ MMM_COLOR_FMT_RGB_META_STRIDE(f, w) = MMM_COLOR_FMT_ALIGN(MMM_COLOR_FMT_ROUNDUP(w, 16), 64)
        /\ MMM_COLOR_FMT_RGB_META_SCANLINES(f, h) = MMM_COLOR_FMT_ALIGN(MMM_COLOR_FMT_ROUNDUP(h, 4), 16)
    BY <1>1, <1>9, <2>1 DEF MMM_COLOR_FMT_RGB_STRIDE, MMM_COLOR_FMT_RGB_SCANLINES,
                          MMM_COLOR_FMT_RGB_META_STRIDE, MMM_COLOR_FMT_RGB_META_SCANLINES
  <2>3. Documented(f, w, h, i) = DocRgbUbwc(w, h, 2, 16, 4)
    BY <1>9 DEF Documented, Doc_RGB565_UBWC
  <2>4. DocMeta("RGB_Meta", w, h, 16, 4) = <<"RGB_Meta", rgb_meta_plane(f, w, h)>>
    BY <1>1, <1>4, <2>2, MetaAsDocumented DEF rgb_meta_plane
  <2>5. DocPlane("RGB", DocAlign(w * 2, 256), DocAlign(h, 16)) = <<"RGB", rgb_plane(f, w, h)>>
    BY <1>2, <1>3, <2>2, PlaneAsDocumented DEF rgb_plane
  <2>q. QED
    BY <1>6, <2>1, <2>3, <2>4, <2>5 DEF DocRgbUbwc
<1>10. CASE f = "RGBA16161616F_UBWC"
  <2>1. f \in RgbUbwc
    BY <1>10 DEF RgbUbwc
  <2>2. /\ MMM_COLOR_FMT_RGB_STRIDE(f, w) = MMM_COLOR_FMT_ALIGN(w * 8, 256)
        /\ MMM_COLOR_FMT_RGB_SCANLINES(f, h) = MMM_COLOR_FMT_ALIGN(h, 16)
        /\ MMM_COLOR_FMT_RGB_META_STRIDE(f, w) = MMM_COLOR_FMT_ALIGN(MMM_COLOR_FMT_ROUNDUP(w, 8), 64)
        /\ MMM_COLOR_FMT_RGB_META_SCANLINES(f, h) = MMM_COLOR_FMT_ALIGN(MMM_COLOR_FMT_ROUNDUP(h, 4), 16)
    BY <1>1, <1>10, <2>1 DEF MMM_COLOR_FMT_RGB_STRIDE, MMM_COLOR_FMT_RGB_SCANLINES,
                          MMM_COLOR_FMT_RGB_META_STRIDE, MMM_COLOR_FMT_RGB_META_SCANLINES
  <2>3. Documented(f, w, h, i) = DocRgbUbwc(w, h, 8, 8, 4)
    BY <1>10 DEF Documented, Doc_RGBA16161616F_UBWC
  <2>4. DocMeta("RGB_Meta", w, h, 8, 4) = <<"RGB_Meta", rgb_meta_plane(f, w, h)>>
    BY <1>1, <1>4, <2>2, MetaAsDocumented DEF rgb_meta_plane
  <2>5. DocPlane("RGB", DocAlign(w * 8, 256), DocAlign(h, 16)) = <<"RGB", rgb_plane(f, w, h)>>
    BY <1>2, <1>3, <2>2, PlaneAsDocumented DEF rgb_plane
  <2>q. QED
    BY <1>6, <2>1, <2>3, <2>4, <2>5 DEF DocRgbUbwc
<1>q. QED
  BY <1>5, <1>7, <1>8, <1>9, <1>10 DEF RgbUbwc

\* The four planes with tiles of tw by th pixels, S bytes to a line, L luma and U
\* chroma lines.
DocUbwc(w, h, tw, th, S, L, U) ==
    <<DocMeta("Y_Meta", w, h, tw, th), DocPlane("Y_UBWC", S, L),
      DocMeta("UV_Meta", w, h, tw, 2 * th), DocPlane("UV_UBWC", S, U)>>

\* The four planes of a compressed YUV picture, from its strides and lines.
LEMMA UbwcAsDocumented ==
    ASSUME NEW f \in YuvUbwc, NEW w \in Nat \ {0}, NEW h \in Nat \ {0},
           NEW tw \in {32, 48}, NEW th \in {4, 8}, NEW S \in Nat, NEW L \in Nat, NEW U \in Nat,
           MMM_COLOR_FMT_Y_META_STRIDE(f, w) = MMM_COLOR_FMT_ALIGN(MMM_COLOR_FMT_ROUNDUP(w, tw), 64),
           MMM_COLOR_FMT_UV_META_STRIDE(f, w) = MMM_COLOR_FMT_ALIGN(MMM_COLOR_FMT_ROUNDUP(Half(w), tw \div 2), 64),
           MMM_COLOR_FMT_Y_META_SCANLINES(f, h) = MMM_COLOR_FMT_ALIGN(MMM_COLOR_FMT_ROUNDUP(h, th), 16),
           MMM_COLOR_FMT_UV_META_SCANLINES(f, h) = MMM_COLOR_FMT_ALIGN(MMM_COLOR_FMT_ROUNDUP(Half(h), th), 16),
           MMM_COLOR_FMT_Y_STRIDE(f, w) = S, MMM_COLOR_FMT_UV_STRIDE(f, w) = S,
           MMM_COLOR_FMT_Y_SCANLINES(f, h) = L, MMM_COLOR_FMT_UV_SCANLINES(f, h) = U
    PROVE  UbwcPlanes(f, w, h) = DocUbwc(w, h, tw, th, S, L, U)
<1>1. w \in Nat /\ h \in Nat /\ 2 * th \in {8, 16}
  OBVIOUS
<1>2. /\ DocTiles(w, tw) = MMM_COLOR_FMT_ROUNDUP(w, tw)
      /\ DocTiles(h, th) = MMM_COLOR_FMT_ROUNDUP(h, th)
  BY <1>1, TilesAsDocumented
<1>3. DocTiles(w, tw) = MMM_COLOR_FMT_ROUNDUP(Half(w), tw \div 2)
  <2>1. DocTiles(w, 32) = MMM_COLOR_FMT_ROUNDUP(Half(w), 16) /\ DocTiles(w, 48) = MMM_COLOR_FMT_ROUNDUP(Half(w), 24)
    BY <1>1, TilesAsDocumented
  <2>2. (tw = 32 /\ tw \div 2 = 16) \/ (tw = 48 /\ tw \div 2 = 24)
    OBVIOUS
  <2>q. QED
    BY <2>1, <2>2
<1>4. DocTiles(h, 2 * th) = MMM_COLOR_FMT_ROUNDUP(Half(h), th)
  <2>1. DocTiles(h, 8) = MMM_COLOR_FMT_ROUNDUP(Half(h), 4) /\ DocTiles(h, 16) = MMM_COLOR_FMT_ROUNDUP(Half(h), 8)
    BY <1>1, TilesAsDocumented
  <2>2. (th = 4 /\ 2 * th = 8) \/ (th = 8 /\ 2 * th = 16)
    OBVIOUS
  <2>q. QED
    BY <2>1, <2>2
<1>5. DocMeta("Y_Meta", w, h, tw, th) = <<"Y_Meta", y_meta_plane(f, w, h)>>
  <2>1. DocMeta("Y_Meta", w, h, tw, th)
          = <<"Y_Meta", Page(MMM_COLOR_FMT_ALIGN(DocTiles(w, tw), 64) * MMM_COLOR_FMT_ALIGN(DocTiles(h, th), 16))>>
    BY <1>1, MetaAsDocumented
  <2>q. QED
    BY <1>2, <2>1 DEF y_meta_plane
<1>6. DocMeta("UV_Meta", w, h, tw, 2 * th) = <<"UV_Meta", uv_meta_plane(f, w, h)>>
  <2>1. DocMeta("UV_Meta", w, h, tw, 2 * th)
          = <<"UV_Meta", Page(MMM_COLOR_FMT_ALIGN(DocTiles(w, tw), 64) * MMM_COLOR_FMT_ALIGN(DocTiles(h, 2 * th), 16))>>
    <3>. DEFINE t == 2 * th
    <3>1. t \in {4, 8, 16}
      BY <1>1
    <3>. HIDE DEF t
    <3>2. DocMeta("UV_Meta", w, h, tw, t)
            = <<"UV_Meta", Page(MMM_COLOR_FMT_ALIGN(DocTiles(w, tw), 64) * MMM_COLOR_FMT_ALIGN(DocTiles(h, t), 16))>>
      BY <1>1, <3>1, MetaAsDocumented
    <3>q. QED
      BY <3>2 DEF t
  <2>q. QED
    BY <1>3, <1>4, <2>1 DEF uv_meta_plane
<1>7. DocPlane("Y_UBWC", S, L) = <<"Y_UBWC", Page(y_plane(f, w, h))>>
  BY PlaneAsDocumented DEF y_plane
<1>8. DocPlane("UV_UBWC", S, U) = <<"UV_UBWC", Page(uv_plane(f, w, h))>>
  BY PlaneAsDocumented DEF uv_plane
<1>q. QED
  BY <1>5, <1>6, <1>7, <1>8 DEF UbwcPlanes, DocUbwc

\* The same for each compressed YUV format, with the widths of its stride.
LEMMA UbwcFormats ==
    ASSUME NEW w \in Nat \ {0}, NEW h \in Nat \ {0}
    PROVE  /\ UbwcPlanes("NV12_UBWC", w, h)
                = DocUbwc(w, h, 32, 8, DocAlign(w, 128), DocAlign(h, 32), DocAlign(Half(h), 32))
           /\ UbwcPlanes("P010_UBWC", w, h)
                = DocUbwc(w, h, 32, 4, DocAlign(w * 2, 256), DocAlign(h, 16), DocAlign(Half(h), 16))
           /\ UbwcPlanes("NV12_BPP10_UBWC", w, h)
                = DocUbwc(w, h, 48, 4, DocAlign((w * 4) \div 3, 256), DocAlign(h, 16), DocAlign(Half(h), 16))
<1>1. /\ w # 0 /\ h # 0 /\ w \in Nat /\ h \in Nat /\ w * 2 \in Nat /\ (w * 4) \div 3 \in Nat
      /\ Half(h) \in Nat /\ 32 \div 2 = 16 /\ 48 \div 2 = 24
      /\ 2 * 8 = 16 /\ 2 * 4 = 8
  BY DEF Half
<1>2. /\ DocAlign(w, 128) = MMM_COLOR_FMT_ALIGN(w, 128)
      /\ DocAlign(w * 2, 256) = MMM_COLOR_FMT_ALIGN(w * 2, 256)
      /\ DocAlign(h, 32) = MMM_COLOR_FMT_ALIGN(h, 32) /\ DocAlign(h, 16) = MMM_COLOR_FMT_ALIGN(h, 16)
      /\ DocAlign(Half(h), 16) = MMM_COLOR_FMT_ALIGN(Half(h), 16)
      /\ DocAlign(Half(h), 32) = MMM_COLOR_FMT_ALIGN(Half(h), 32)
  BY <1>1, AlignAsDocumented
<1>3. DocAlign((w * 4) \div 3, 256) = MMM_COLOR_FMT_ALIGN((MMM_COLOR_FMT_ALIGN(w, 192) * 4) \div 3, 256)
  BY <1>1, TenBitStride
<1>4. /\ DocAlign(w, 128) \in Nat /\ DocAlign(w * 2, 256) \in Nat /\ DocAlign((w * 4) \div 3, 256) \in Nat
      /\ DocAlign(h, 32) \in Nat /\ DocAlign(h, 16) \in Nat
      /\ DocAlign(Half(h), 16) \in Nat /\ DocAlign(Half(h), 32) \in Nat
  BY <1>1 DEF DocAlign
<1>5. UbwcPlanes("NV12_UBWC", w, h)
       = DocUbwc(w, h, 32, 8, DocAlign(w, 128), DocAlign(h, 32), DocAlign(Half(h), 32))
  <2>. DEFINE f == "NV12_UBWC"
              S == DocAlign(w, 128)
              L == DocAlign(h, 32)
              U == DocAlign(Half(h), 32)
  <2>1. MMM_COLOR_FMT_Y_STRIDE(f, w) = S /\ MMM_COLOR_FMT_UV_STRIDE(f, w) = S
    BY <1>1, <1>2, <1>3 DEF MMM_COLOR_FMT_Y_STRIDE, MMM_COLOR_FMT_UV_STRIDE
  <2>2. MMM_COLOR_FMT_Y_SCANLINES(f, h) = L /\ MMM_COLOR_FMT_UV_SCANLINES(f, h) = U
    BY <1>1, <1>2 DEF MMM_COLOR_FMT_Y_SCANLINES, MMM_COLOR_FMT_UV_SCANLINES
  <2>3. /\ MMM_COLOR_FMT_Y_META_STRIDE(f, w) = MMM_COLOR_FMT_ALIGN(MMM_COLOR_FMT_ROUNDUP(w, 32), 64)
        /\ MMM_COLOR_FMT_UV_META_STRIDE(f, w) = MMM_COLOR_FMT_ALIGN(MMM_COLOR_FMT_ROUNDUP(Half(w), 16), 64)
    BY <1>1 DEF MMM_COLOR_FMT_Y_META_STRIDE, MMM_COLOR_FMT_UV_META_STRIDE
  <2>4. /\ MMM_COLOR_FMT_Y_META_SCANLINES(f, h) = MMM_COLOR_FMT_ALIGN(MMM_COLOR_FMT_ROUNDUP(h, 8), 16)
        /\ MMM_COLOR_FMT_UV_META_SCANLINES(f, h) = MMM_COLOR_FMT_ALIGN(MMM_COLOR_FMT_ROUNDUP(Half(h), 8), 16)
    BY <1>1 DEF MMM_COLOR_FMT_Y_META_SCANLINES, MMM_COLOR_FMT_UV_META_SCANLINES
  <2>5. f \in YuvUbwc /\ S \in Nat /\ L \in Nat /\ U \in Nat
    BY <1>4 DEF YuvUbwc
  <2>. HIDE DEF f, S, L, U
  <2>6. UbwcPlanes(f, w, h)
          = DocUbwc(w, h, 32, 8, S, L, U)
    <3>1. 32 \div 2 = 16 /\ 48 \div 2 = 24
      OBVIOUS
    <3>q. QED
      BY <2>1, <2>2, <2>3, <2>4, <2>5, <3>1, UbwcAsDocumented
  <2>q. QED
    BY <1>1, <2>6 DEF f, S, L, U
<1>6. UbwcPlanes("P010_UBWC", w, h)
       = DocUbwc(w, h, 32, 4, DocAlign(w * 2, 256), DocAlign(h, 16), DocAlign(Half(h), 16))
  <2>. DEFINE f == "P010_UBWC"
              S == DocAlign(w * 2, 256)
              L == DocAlign(h, 16)
              U == DocAlign(Half(h), 16)
  <2>1. MMM_COLOR_FMT_Y_STRIDE(f, w) = S /\ MMM_COLOR_FMT_UV_STRIDE(f, w) = S
    BY <1>1, <1>2, <1>3 DEF MMM_COLOR_FMT_Y_STRIDE, MMM_COLOR_FMT_UV_STRIDE
  <2>2. MMM_COLOR_FMT_Y_SCANLINES(f, h) = L /\ MMM_COLOR_FMT_UV_SCANLINES(f, h) = U
    BY <1>1, <1>2 DEF MMM_COLOR_FMT_Y_SCANLINES, MMM_COLOR_FMT_UV_SCANLINES
  <2>3. /\ MMM_COLOR_FMT_Y_META_STRIDE(f, w) = MMM_COLOR_FMT_ALIGN(MMM_COLOR_FMT_ROUNDUP(w, 32), 64)
        /\ MMM_COLOR_FMT_UV_META_STRIDE(f, w) = MMM_COLOR_FMT_ALIGN(MMM_COLOR_FMT_ROUNDUP(Half(w), 16), 64)
    BY <1>1 DEF MMM_COLOR_FMT_Y_META_STRIDE, MMM_COLOR_FMT_UV_META_STRIDE
  <2>4. /\ MMM_COLOR_FMT_Y_META_SCANLINES(f, h) = MMM_COLOR_FMT_ALIGN(MMM_COLOR_FMT_ROUNDUP(h, 4), 16)
        /\ MMM_COLOR_FMT_UV_META_SCANLINES(f, h) = MMM_COLOR_FMT_ALIGN(MMM_COLOR_FMT_ROUNDUP(Half(h), 4), 16)
    BY <1>1 DEF MMM_COLOR_FMT_Y_META_SCANLINES, MMM_COLOR_FMT_UV_META_SCANLINES
  <2>5. f \in YuvUbwc /\ S \in Nat /\ L \in Nat /\ U \in Nat
    BY <1>4 DEF YuvUbwc
  <2>. HIDE DEF f, S, L, U
  <2>6. UbwcPlanes(f, w, h)
          = DocUbwc(w, h, 32, 4, S, L, U)
    <3>1. 32 \div 2 = 16 /\ 48 \div 2 = 24
      OBVIOUS
    <3>q. QED
      BY <2>1, <2>2, <2>3, <2>4, <2>5, <3>1, UbwcAsDocumented
  <2>q. QED
    BY <1>1, <2>6 DEF f, S, L, U
<1>7. UbwcPlanes("NV12_BPP10_UBWC", w, h)
       = DocUbwc(w, h, 48, 4, DocAlign((w * 4) \div 3, 256), DocAlign(h, 16), DocAlign(Half(h), 16))
  <2>. DEFINE f == "NV12_BPP10_UBWC"
              S == DocAlign((w * 4) \div 3, 256)
              L == DocAlign(h, 16)
              U == DocAlign(Half(h), 16)
  <2>1. MMM_COLOR_FMT_Y_STRIDE(f, w) = S /\ MMM_COLOR_FMT_UV_STRIDE(f, w) = S
    BY <1>1, <1>2, <1>3 DEF MMM_COLOR_FMT_Y_STRIDE, MMM_COLOR_FMT_UV_STRIDE
  <2>2. MMM_COLOR_FMT_Y_SCANLINES(f, h) = L /\ MMM_COLOR_FMT_UV_SCANLINES(f, h) = U
    BY <1>1, <1>2 DEF MMM_COLOR_FMT_Y_SCANLINES, MMM_COLOR_FMT_UV_SCANLINES
  <2>3. /\ MMM_COLOR_FMT_Y_META_STRIDE(f, w) = MMM_COLOR_FMT_ALIGN(MMM_COLOR_FMT_ROUNDUP(w, 48), 64)
        /\ MMM_COLOR_FMT_UV_META_STRIDE(f, w) = MMM_COLOR_FMT_ALIGN(MMM_COLOR_FMT_ROUNDUP(Half(w), 24), 64)
    BY <1>1 DEF MMM_COLOR_FMT_Y_META_STRIDE, MMM_COLOR_FMT_UV_META_STRIDE
  <2>4. /\ MMM_COLOR_FMT_Y_META_SCANLINES(f, h) = MMM_COLOR_FMT_ALIGN(MMM_COLOR_FMT_ROUNDUP(h, 4), 16)
        /\ MMM_COLOR_FMT_UV_META_SCANLINES(f, h) = MMM_COLOR_FMT_ALIGN(MMM_COLOR_FMT_ROUNDUP(Half(h), 4), 16)
    BY <1>1 DEF MMM_COLOR_FMT_Y_META_SCANLINES, MMM_COLOR_FMT_UV_META_SCANLINES
  <2>5. f \in YuvUbwc /\ S \in Nat /\ L \in Nat /\ U \in Nat
    BY <1>4 DEF YuvUbwc
  <2>. HIDE DEF f, S, L, U
  <2>6. UbwcPlanes(f, w, h)
          = DocUbwc(w, h, 48, 4, S, L, U)
    <3>1. 32 \div 2 = 16 /\ 48 \div 2 = 24
      OBVIOUS
    <3>q. QED
      BY <2>1, <2>2, <2>3, <2>4, <2>5, <3>1, UbwcAsDocumented
  <2>q. QED
    BY <1>1, <2>6 DEF f, S, L, U
<1>q. QED
  BY <1>5, <1>6, <1>7

\* Every format, for even heights; the 10-bit one where 16 and 32 lines align alike.
LEMMA PlanesAsDocumented ==
    ASSUME NEW f \in mmm_color_fmts, NEW w \in Nat \ {0}, NEW h \in Nat \ {0}, h % 2 = 0,
           NEW i \in BOOLEAN, i => f = "NV12_UBWC",
           f = "NV12_BPP10_UBWC" => DocAlign(h, 16) % 32 = 0
    PROVE  Planes(f, w, h, i) = Documented(f, w, h, i)
<1>1. CASE f \in Linear
  BY <1>1, LinearAsDocumented
<1>2. CASE f \in RgbUbwc \cup {"RGBA8888"}
  BY <1>2, RgbAsDocumented
<1>3. h \div 2 = Half(h) /\ Half(h) \in Nat \ {0}
  BY EvenHalf
<1>4. f \in YuvUbwc => Planes(f, w, h, i) = UbwcFields(f, w, h, i)
  <2>1. f \in YuvUbwc => f \notin Linear /\ f \notin RgbUbwc /\ f # "RGBA8888"
    BY DEF Linear, YuvUbwc, RgbUbwc
  <2>q. QED
    BY <2>1 DEF Planes
<1>5. CASE f = "NV12_UBWC" /\ ~i
  <2>1. Planes(f, w, h, i) = UbwcPlanes(f, w, h)
    BY <1>4, <1>5 DEF YuvUbwc, UbwcFields
  <2>2. Documented(f, w, h, i) = Doc_NV12_UBWC_Progressive(w, h)
    BY <1>5 DEF Documented
  <2>q. QED
    <3>1. UbwcPlanes("NV12_UBWC", w, h)
            = DocUbwc(w, h, 32, 8, DocAlign(w, 128), DocAlign(h, 32), DocAlign(Half(h), 32))
      BY UbwcFormats
    <3>2. Doc_NV12_UBWC_Progressive(w, h)
            = DocUbwc(w, h, 32, 8, DocAlign(w, 128), DocAlign(h, 32), DocAlign(Half(h), 32))
      BY <1>3 DEF Doc_NV12_UBWC_Progressive, DocUbwc
    <3>q. QED
      BY <1>5, <2>1, <2>2, <3>1, <3>2
<1>6. CASE f = "NV12_UBWC" /\ i
  <2>. DEFINE x == Half(h)
              F == DocUbwc(w, x, 32, 8, DocAlign(w, 128), DocAlign(x, 32), DocAlign(Half(x), 32))
  <2>1. Planes(f, w, h, i) = UbwcPlanes(f, w, x) \o UbwcPlanes(f, w, x)
    BY <1>4, <1>6 DEF YuvUbwc, UbwcFields
  <2>2. Documented(f, w, h, i) = Doc_NV12_UBWC_Interlaced(w, h)
    BY <1>6 DEF Documented
  <2>3. Doc_NV12_UBWC_Interlaced(w, h) = F \o F
    BY DEF Doc_NV12_UBWC_Interlaced, Half, DocUbwc
  <2>4. x \in Nat \ {0}
    BY <1>3
  <2>. HIDE DEF x
  <2>5. UbwcPlanes("NV12_UBWC", w, x) = F
    BY <2>4, UbwcFormats
  <2>. HIDE DEF F
  <2>q. QED
    BY <1>6, <2>1, <2>2, <2>3, <2>5
<1>7. CASE f = "P010_UBWC"
  <2>1. Planes(f, w, h, i) = UbwcPlanes(f, w, h)
    BY <1>4, <1>7 DEF YuvUbwc, UbwcFields
  <2>2. Documented(f, w, h, i) = Doc_P010_UBWC(w, h)
    BY <1>7 DEF Documented
  <2>q. QED
    <3>1. UbwcPlanes("P010_UBWC", w, h)
            = DocUbwc(w, h, 32, 4, DocAlign(w * 2, 256), DocAlign(h, 16), DocAlign(Half(h), 16))
      BY UbwcFormats
    <3>2. Doc_P010_UBWC(w, h)
            = DocUbwc(w, h, 32, 4, DocAlign(w * 2, 256), DocAlign(h, 16), DocAlign(Half(h), 16))
      BY <1>3 DEF Doc_P010_UBWC, DocUbwc
    <3>q. QED
      BY <1>7, <2>1, <2>2, <3>1, <3>2
<1>8. CASE f = "NV12_BPP10_UBWC"
  <2>1. Planes(f, w, h, i) = UbwcPlanes(f, w, h)
    BY <1>4, <1>8 DEF YuvUbwc, UbwcFields
  <2>2. Documented(f, w, h, i) = Doc_NV12_BPP10_UBWC(w, h)
    BY <1>8 DEF Documented
  <2>3. DocAlign(h, 16) = DocAlign(h, 32)
    BY <1>8 DEF DocAlign
  <2>q. QED
    <3>1. UbwcPlanes("NV12_BPP10_UBWC", w, h)
            = DocUbwc(w, h, 48, 4, DocAlign((w * 4) \div 3, 256), DocAlign(h, 16), DocAlign(Half(h), 16))
      BY UbwcFormats
    <3>2. Doc_NV12_BPP10_UBWC(w, h)
            = DocUbwc(w, h, 48, 4, DocAlign((w * 4) \div 3, 256), DocAlign(h, 16), DocAlign(Half(h), 16))
      BY <1>3, <2>3 DEF Doc_NV12_BPP10_UBWC, DocUbwc
    <3>q. QED
      BY <1>8, <2>1, <2>2, <3>1, <3>2
<1>q. QED
  BY <1>1, <1>2, <1>5, <1>6, <1>7, <1>8 DEF mmm_color_fmts, YuvUbwc

\* The invariant gives a frame its sides and the formats of interlaced ones.
LEMMA IInvDocumented ==
    ASSUME \A h \in Heights : h % 2 = 0
    PROVE  IInv => LayoutAsDocumentedBut10Bit
<1>. SUFFICES ASSUME IInv, frame # NoFrame, buffer.fmt = "NV12_BPP10_UBWC" => DocAlign(frame.h, 16) % 32 = 0
              PROVE  FramePlanes = Documented(buffer.fmt, frame.w, frame.h, frame.interlaced)
  BY DEF LayoutAsDocumentedBut10Bit
<1>1. buffer # NoBuffer /\ (frame.interlaced => buffer.fmt = "NV12_UBWC")
  BY DEF IInv, TypeOK
<1>2. /\ buffer.fmt \in mmm_color_fmts /\ frame.w \in Nat \ {0} /\ frame.h \in Nat \ {0}
      /\ frame.interlaced \in BOOLEAN
  BY <1>1, Fields DEF IInv
<1>3. frame.h % 2 = 0
  <2>1. frame \in [w : Widths, h : Heights, interlaced : BOOLEAN]
    BY DEF IInv, TypeOK
  <2>q. QED
    BY <2>1
<1>q. QED
  BY <1>1, <1>2, <1>3, PlanesAsDocumented DEF FramePlanes

(* The planes of a frame of any width and any even height are those the     *)
(* enumerators' comments describe, in order and size (NV12_BPP10_UBWC only  *)
(* where 16 and 32 lines align alike).  Of an odd height the comments take  *)
(* the lower half, "Height/2", and the code the upper one.                  *)
THEOREM LayoutAlwaysAsDocumented ==
    ASSUME \A h \in Heights : h % 2 = 0
    PROVE  Spec => []LayoutAsDocumentedBut10Bit
BY InitIInv, NextIInv, IInvDocumented, PTL DEF Spec

=============================================================================
