CONSTANTS
    Nil = Nil
    Unparsable = Unparsable
    one = one
    two = two
    long = long
    longer = longer
    cut = cut
    empty = empty
    yes = yes
    truth = truth
    Value <- MCValue
    Detailed <- MCDetailed
    Abbreviated <- MCAbbreviated
    Version <- Versions
    Comparable <- MCComparable
    Older <- MCOlder
    Before <- MCBefore
    Embedded <- MCEmbedded
    Patch <- MCPatch
    IndexOf <- MCIndexOf
    Invocations <- MCInvocations
SPECIFICATION Spec
INVARIANTS
    TypeOK
    ShownIffAsked
    EverySectionCanBeAsked
    TotalsAddUp
    ShownAsUpgrade
CHECK_DEADLOCK FALSE
