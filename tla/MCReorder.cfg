SPECIFICATION MCSpec
CONSTANTS
    Sizes = {1, 4, 5, 9}
    Headers <- MCHeaders
    MAX_DECODE_BYTES = 4
    MAX_PIXELS = 390
    SAMPLE <- MCSample
    TallRatio = 3
    Samples <- MCSamples
    pixel_hash <- MCHash
    Targets = {1, 2, 3, 4}
    Histograms <- MCHistograms
    Hues = {"a", "b", "c"}
    SELECT_MIN_DE = 16
    Modes <- MCModes
    Envelope <- MCEnvelope
    Curve <- MCCurve
    MIN_DE = 20
    SEPARATION_STEP = 2
    MAX_SEPARATION_SHIFT = 8
    MAX_SEPARATION_PASSES = 8
    Lightness <- MCLightness
INVARIANT RenderKeepsOrder
