\* Calls of the toolbox on a database that is loaded, deleted and recreated.
SPECIFICATION AnalysisSpec
CONSTANTS
    g = g  h = h  k = k  m = m  s = s  t = t  u = u  v = v  c = c  p = p
    idG = idG  idH = idH  idT = idT  idU = idU
    ng = ng  nh = nh  nk = nk  ns = ns  nt = nt  nu = nu  nv = nv  nc = nc  np = np
    Object = {g, h, k, m, s, t, u, v, c, p}
    Named = {g, h, k, s, t, u, v, c, p}
    Class <- MCClass
    Relation <- MCRelation
    Relations <- MCRelations
    AttckId = {idG, idH, idT, idU}
    TypesOf <- MCTypesOf
    Ids <- MCIds
    NameOf <- MCNameOf
    Revoked = {v}
    Arguments <- MCArguments
    NoName = NoName
    Batches <- MCBatches
    MaxGen = 1
    MaxDrivers = 2
INVARIANTS AnalysisTypeOK InferredUsesAreChains RowsSelected DriversAccounted
PROPERTIES AnswersTrueOnReturn CallEnds
CHECK_DEADLOCK FALSE
