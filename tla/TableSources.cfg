SPECIFICATION Spec
CONSTANTS
    None = None
    Places = {1, 2}
    MaxEdits = 3
    MaxMishaps = 2
PROPERTIES
    
    RowsNeverBack
    
