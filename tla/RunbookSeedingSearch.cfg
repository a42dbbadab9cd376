SPECIFICATION Spec
CONSTANT Seed = {s1, s2, s3}
INVARIANT RowsAreSearchable
