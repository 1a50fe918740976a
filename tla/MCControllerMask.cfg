\* The policy masks the email in reads, as README.md's example does.
CONSTANTS
    Request = {r1, r2}
    ByMessage = {r2}
    Id = {i1, i2}
    o1 = o1
    o2 = o2
    e1 = e1
    e2 = e2
    n1 = n1
    n2 = n2
    l1 = l1
    l2 = l2
    t1 = t1
    Zero = Zero
    Hidden = Hidden
    NoRecord = NoRecord
    MaxBatch = 2
    Owner = "owner"
    Field <- Fields
    Value <- Values
    Body <- Bodies
    Seed <- Seeds
    Visible <- Scopes
    Backing <- Virtuals
    Deep <- DeepOnes
    Mergeable <- Lists
    Masked <- MaskReads
    Denied <- Nothing

SPECIFICATION Spec
CHECK_DEADLOCK FALSE
SYMMETRY Symmetry

INVARIANT MasksStayOutOfStorage
