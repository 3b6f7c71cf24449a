CONSTANTS
    k1 = k1
    k2 = k2
    t1 = t1
    t2 = t2
    Unnamed = Unnamed
    User = User
    Nobody = Nobody
    Adds <- MCAdds
    SkillOf <- MCSkillOf
    ToolOf <- MCToolOf
    Multi <- MCWebSearch
    LateKey <- MCWebSearch
SPECIFICATION SkillsSpec
INVARIANT InstanceHasTool
CHECK_DEADLOCK FALSE
