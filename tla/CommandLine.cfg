SPECIFICATION Spec
CONSTANTS
  Arguments <- MCArguments
  Descriptors <- MCDescriptors
  MaxArgs = 3
INVARIANTS
  TypeOK
  SchemaDecides
  OptionsAndValuesApart
