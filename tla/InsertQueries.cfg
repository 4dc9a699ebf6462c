\* Every file of at most two of thirteen kinds of objects, and some longer ones.
SPECIFICATION QueriesSpec
CONSTANTS
    a = a  b = b  c = c  d = d  e = e  k = k  n = n  r = r  t = t  u = u  v = v  w = w  x = x
    ia = ia  ib = ib  ic = ic  id = id  ie = ie  ik = ik  in = in  ir = ir
    it = it  iu = iu  iv = iv  iw = iw  ix = ix
    Object = {a, b, c, d, e, k, n, r, t, u, v, w, x}
    Id = {ia, ib, ic, id, ie, ik, in, ir, it, iu, iv, iw, ix}
    Known = {ia, ib, ic, id, ie, ik, in, ir, it, iv, iw, ix}
    Invalid = Invalid
    Fatal = Fatal
    MaxLength = 2
    Content <- MCContent
    Files <- MCFiles
INVARIANTS QueriesTypeOK QueriesSelfContained TextsWhole DictionariesKept
PROPERTIES ImplementsTransform KeepsUpWithTransform
CHECK_DEADLOCK FALSE
