---------------------------- MODULE MCExpression ----------------------------
EXTENDS Expression

\* One function leaf that accepts a record when its first property is set.
MCFuncAccepts(f, record) == record["a"] # Empty

MCValues == {<<1>>}
MCRecordValues == {<<0>>, <<1>>, <<2>>}

MCPropType == [p \in Props |-> "INTEGER"]
=============================================================================
