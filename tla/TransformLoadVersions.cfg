\* Files with two versions of an object, one of them refused by its key.
SPECIFICATION PipelineSpec
CONSTANTS
    a = a  a2 = a2  b = b  c = c  d = d  e = e  fa = fa  fb = fb  g = g  k = k
    n = n  r = r  t = t  u = u  v = v  w = w  x = x  y = y
    ia = ia  ib = ib  ic = ic  id = id  ie = ie  ig = ig  ik = ik  im = im  in = in
    io = io  ip = ip  ir = ir  it = it  iu = iu  iv = iv  iw = iw  ix = ix  iy = iy
    family = family
    loader = loader
    Object = {a, a2, b, c, d, e, fa, fb, g, k, n, r, t, u, v, w, x, y}
    Id = {ia, ib, ic, id, ie, ig, ik, im, in, io, ip, ir, it, iu, iv, iw, ix, iy}
    Known = {ia, ib, ic, id, ie, ig, ik, im, in, ip, ir, it, iu, iv, iw, ix, iy}
    Invalid = Invalid
    Fatal = Fatal
    NameKey = {family}
    Illegal = {b}
    Process = loader
    BatchSize = 2
    MaxLength = 3
    Content <- MCContent
    NameKeys <- MCNameKeys
    Files <- VersionFiles
INVARIANTS RelationsOfStoredVersion
CHECK_DEADLOCK FALSE
